----------------------------- MODULE IndexCache -----------------------------
(***************************************************************************)
(* The guarded store of crates/azapptoolkit-core/src/cache.rs.             *)
(*                                                                         *)
(* A tenant-wide index is fetched from Microsoft Graph for seconds while   *)
(* no lock is held.  A command that changes the directory meanwhile drops  *)
(* (Cache::invalidate) or rewrites (Cache::patch_typed_index_with) the     *)
(* cached entry, and the fetch must then not put its older snapshot back.  *)
(* Every acquisition of a lock on the watch table or on the bucket of one  *)
(* kind is one step here; no two are ever held together.  The third mutex, *)
(* the configuration's, guards a switch (CacheConfig::enabled) the         *)
(* operator may flip between any two steps and every operation reads once: *)
(* what it reads is a free choice, made with the step that acts on it.     *)
(*                                                                         *)
(* A member of Fetches is a caller that fetches one index after another,   *)
(* for as long as it likes; an invalidation call runs once, after its      *)
(* mutation.  The directory is the set of writes that landed in it; a      *)
(* snapshot is the set of writes it reflects.                              *)
(*                                                                         *)
(* A definition whose comment begins with "Fault:" is a seeded bug, never  *)
(* part of Next: the definition after it, replaced by it, must be caught.  *)
(***************************************************************************)
EXTENDS Naturals, FiniteSets

CONSTANTS
    Kinds,            \* CacheKind: one bucket, with one mutex, per kind
    Keys,             \* cache keys, each of one kind
    KindOf,           \* [Keys -> Kinds]
    Writes,           \* directory mutations
    Fetches,          \* callers of generation_for ... put_*_if_current
    FetchKeys,        \* [Fetches -> SUBSET Keys]: the keys each may fetch
    Calls,            \* invalidation calls made after a mutation returned Ok
    CallWrite,        \* [Calls -> Writes]: the mutation the call follows
    Sweeps,           \* [Calls -> SUBSET SUBSET Keys]: what each may invalidate
    Patches,          \* [Calls -> SUBSET Keys]: the indexes each may patch
    MaxWatches,       \* Cache::MAX_WATCHES
    PatchAttempts,    \* Cache::PATCH_ATTEMPTS
    WatchUnavailable, \* Cache::WATCH_UNAVAILABLE
    NoEntry           \* no entry under a key

\* The allocation of a typed value is named by the operation that made it, and
\* so is Entry::stamp, which only an insert advances.  A patch lands once; a
\* fetch inserts once and begins again only when its name is free.
Allocs == Fetches \cup Calls

Entry == [content : SUBSET Writes, stamp : Fetches, alloc : Allocs]

ASSUME ConstantsAssumption ==
    /\ KindOf \in [Keys -> Kinds]
    /\ FetchKeys \in [Fetches -> (SUBSET Keys) \ {{}}]
    /\ CallWrite \in [Calls -> Writes]
    /\ Sweeps \in [Calls -> SUBSET ((SUBSET Keys) \ {{}})]
    /\ Patches \in [Calls -> SUBSET Keys]
    /\ Fetches \cap Calls = {}
    /\ IsFiniteSet(Fetches)

ASSUME BoundsAssumption ==
    /\ MaxWatches \in Nat
    /\ PatchAttempts \in Nat \ {0}
    /\ WatchUnavailable \notin Nat
    /\ NoEntry \notin Entry /\ \A s \in SUBSET Writes : s # NoEntry

VARIABLES
    dir,      \* the writes that have landed in the directory
    entry,    \* [Keys -> Entry or NoEntry]: the buckets
    watch,    \* [Keys -> [counter, refs]]: the watch table, refs = 0 if absent
    fpc,      \* where each fetch is
    fkey,     \* the key it fetches
    since,    \* IndexWatch::since of each fetch
    result,   \* the snapshot the fetch builds: at least the directory it began in
    cpc,      \* where each invalidation call is
    scope,    \* the keys the call invalidates: key, prefix, tenant or all
    left,     \* keys of the call's scope that it has not dropped yet
    attempt,  \* patch_typed_index_with's loop counter
    read      \* the allocation and content a patch was handed

vars == <<dir, entry, watch, fpc, fkey, since, result,
          cpc, scope, left, attempt, read>>

fetchVars == <<fpc, fkey, since, result>>
callVars == <<cpc, scope, left, attempt, read>>

-----------------------------------------------------------------------------
(* The watch table.                                                        *)

Watched == {k \in Keys : watch[k].refs > 0}

\* The fetch owns a reference in the watch table (IndexWatch::holds_ref).
Holds(f) ==
    /\ fpc[f] \in {"fetching", "fetched", "checked", "stored"}
    /\ since[f] # WatchUnavailable

\* Cache::release_watch: one reference less; the last one takes the row, and
\* with it the counter, out of the table.
ReleasedWatch(k) ==
    IF watch[k].refs <= 1
    THEN [watch EXCEPT ![k] = [counter |-> 0, refs |-> 0]]
    ELSE [watch EXCEPT ![k] = [counter |-> @.counter, refs |-> @.refs - 1]]

\* Cache::bump_watches for the keys an invalidation drops, and no others.
BumpedWatches(keys) ==
    [k \in Keys |-> IF k \in keys /\ watch[k].refs > 0
                    THEN [counter |-> watch[k].counter + 1, refs |-> watch[k].refs]
                    ELSE watch[k]]

\* No entry carries the stamp or the allocation the fetch made, and no patch
\* holds the allocation (the Arc it holds keeps the address from being reused).
NameIsFree(f) ==
    /\ \A k \in Keys : entry[k] # NoEntry => f \notin {entry[k].stamp, entry[k].alloc}
    /\ \A c \in Calls : cpc[c] = "apply" => read[c].alloc # f

\* Cache::generation_for, on a miss of the key: join the watch of a watched key,
\* register one, or, when the table is full, hand out a guard that can never be
\* proved current.
GenerationFor(f, k) ==
    /\ fpc[f] = "idle"
    /\ NameIsFree(f)
    /\ fpc' = [fpc EXCEPT ![f] = "fetching"]
    /\ fkey' = [fkey EXCEPT ![f] = k]
    /\ result' = [result EXCEPT ![f] = dir]
    /\ \/ /\ watch[k].refs > 0
          /\ watch' = [watch EXCEPT ![k] = [counter |-> @.counter, refs |-> @.refs + 1]]
          /\ since' = [since EXCEPT ![f] = watch[k].counter]
       \/ /\ watch[k].refs = 0
          /\ Cardinality(Watched) >= MaxWatches
          /\ since' = [since EXCEPT ![f] = WatchUnavailable]
          /\ UNCHANGED watch
       \/ /\ watch[k].refs = 0
          /\ Cardinality(Watched) < MaxWatches
          /\ watch' = [watch EXCEPT ![k] = [counter |-> 0, refs |-> 1]]
          /\ since' = [since EXCEPT ![f] = 0]
    /\ UNCHANGED <<dir, entry, callVars>>

\* Drop for IndexWatch: the guard gives up its reference, if it owns one.
DroppedGuard(f) ==
    IF Holds(f) THEN ReleasedWatch(fkey[f]) ELSE watch

\* The guard and the snapshot of the fetch are gone.
LetGo(f) ==
    /\ since' = [since EXCEPT ![f] = 0]
    /\ result' = [result EXCEPT ![f] = {}]

IdleKey(f) == CHOOSE k \in FetchKeys[f] : TRUE

\* The fetch is over.
Finish(f) ==
    /\ fpc' = [fpc EXCEPT ![f] = "idle"]
    /\ fkey' = [fkey EXCEPT ![f] = IdleKey(f)]
    /\ LetGo(f)

-----------------------------------------------------------------------------
(* A guarded fetch.                                                        *)

\* The paged scan ends: it saw everything that had landed when it began, and
\* of what landed since, whatever its pages happened to catch.
Scan(f) ==
    /\ fpc[f] = "fetching"
    /\ \E s \in SUBSET dir :
          /\ result[f] \subseteq s
          /\ result' = [result EXCEPT ![f] = s]
    /\ fpc' = [fpc EXCEPT ![f] = "fetched"]
    /\ UNCHANGED <<dir, entry, watch, fkey, since, callVars>>

\* Fault: a failed scan leaves its registration behind.
AbandonLeaky(f) ==
    /\ fpc[f] = "fetching"
    /\ Finish(f)
    /\ UNCHANGED <<dir, entry, watch, callVars>>

\* The scan fails or is cancelled; the guard is dropped on the way out.
Abandon(f) ==
    /\ fpc[f] = "fetching"
    /\ watch' = DroppedGuard(f)
    /\ Finish(f)
    /\ UNCHANGED <<dir, entry, callVars>>

\* store_if_current, first look: IndexWatch::current against since.
Peek(f) ==
    /\ fpc[f] = "fetched"
    /\ \/ /\ Holds(f)
          /\ watch[fkey[f]].counter = since[f]
          /\ fpc' = [fpc EXCEPT ![f] = "checked"]
          /\ UNCHANGED <<watch, fkey, since, result>>
       \/ /\ ~ (Holds(f) /\ watch[fkey[f]].counter = since[f])
          /\ watch' = DroppedGuard(f)
          /\ Finish(f)
    /\ UNCHANGED <<dir, entry, callVars>>

\* put_inner / put_typed_inner, with the cache enabled, under the bucket's
\* lock.  The insert's own eviction pass may drop any entries of the bucket,
\* the new one included.
Store(f) ==
    LET k == fkey[f] IN
    /\ fpc[f] = "checked"
    /\ \E gone \in SUBSET {j \in Keys : KindOf[j] = KindOf[k]} :
          entry' = [j \in Keys |->
                      IF j \in gone THEN NoEntry
                      ELSE IF j = k
                           THEN [content |-> result[f], stamp |-> f, alloc |-> f]
                           ELSE entry[j]]
    /\ fpc' = [fpc EXCEPT ![f] = "stored"]
    /\ UNCHANGED <<dir, watch, fkey, since, result, callVars>>

\* limits_if_enabled finds the cache switched off (or the value does not
\* serialize): nothing is stored and the second look has nothing to undo.
Decline(f) ==
    /\ fpc[f] = "checked"
    /\ watch' = DroppedGuard(f)
    /\ Finish(f)
    /\ UNCHANGED <<dir, entry, callVars>>

\* Fault: check, then write: no second look after the store.
ReleaseUnchecked(f) ==
    /\ fpc[f] = "stored"
    /\ watch' = ReleasedWatch(fkey[f])
    /\ Finish(f)
    /\ UNCHANGED <<dir, entry, callVars>>

\* store_if_current, second look: the reference was held across the store, so
\* an invalidation in between moved the counter.
Release(f) ==
    LET current == watch[fkey[f]].counter = since[f] IN
    /\ fpc[f] = "stored"
    /\ watch' = ReleasedWatch(fkey[f])
    /\ \/ /\ current
          /\ Finish(f)
       \/ /\ ~ current
          /\ fpc' = [fpc EXCEPT ![f] = "rollback"]
          /\ LetGo(f)
          /\ UNCHANGED fkey
    /\ UNCHANGED <<dir, entry, callVars>>

\* Fault: the rollback removes by key name.
RollbackByKey(f) ==
    /\ fpc[f] = "rollback"
    /\ entry' = [entry EXCEPT ![fkey[f]] = NoEntry]
    /\ Finish(f)
    /\ UNCHANGED <<dir, watch, callVars>>

\* Fault: the rollback looks for the key's newest entry, and its own is not.
RollbackNever(f) ==
    /\ fpc[f] = "rollback"
    /\ Finish(f)
    /\ UNCHANGED <<dir, entry, watch, callVars>>

\* Bucket::remove_if_stamp: undo this store, never another one's.
Rollback(f) ==
    LET k == fkey[f] IN
    /\ fpc[f] = "rollback"
    /\ entry' = IF entry[k] # NoEntry /\ entry[k].stamp = f
                THEN [entry EXCEPT ![k] = NoEntry]
                ELSE entry
    /\ Finish(f)
    /\ UNCHANGED <<dir, watch, callVars>>

-----------------------------------------------------------------------------
(* Mutations and the invalidation calls that follow them.                  *)

\* A mutation lands in the directory.
Land(w) ==
    /\ w \notin dir
    /\ dir' = dir \cup {w}
    /\ UNCHANGED <<entry, watch, fetchVars, callVars>>

\* The call's first step, after the mutation returned Ok: bump the watches,
\* under the watch table's lock, before any bucket is touched.  Then an
\* invalidation drops its keys; a patch enters its loop.
Bump(c, keys, to) ==
    /\ cpc[c] = "idle"
    /\ CallWrite[c] \in dir
    /\ watch' = BumpedWatches(keys)
    /\ scope' = [scope EXCEPT ![c] = keys]
    /\ left' = [left EXCEPT ![c] = keys]
    /\ cpc' = [cpc EXCEPT ![c] = to]
    /\ attempt' = [attempt EXCEPT ![c] = IF to = "read" THEN 1 ELSE 0]
    /\ UNCHANGED <<dir, entry, fetchVars, read>>

\* invalidate, invalidate_prefix, invalidate_tenant, clear, clear_kind: the
\* buckets are emptied of the scope one kind, and one lock, at a time.
DropKind(c, kind) ==
    LET mine == {k \in left[c] : KindOf[k] = kind} IN
    /\ cpc[c] = "dropping"
    /\ mine # {}
    /\ entry' = [k \in Keys |-> IF k \in mine THEN NoEntry ELSE entry[k]]
    /\ left' = [left EXCEPT ![c] = @ \ mine]
    /\ cpc' = [cpc EXCEPT ![c] = IF left[c] \subseteq mine THEN "done" ELSE "dropping"]
    /\ UNCHANGED <<dir, watch, fetchVars, scope, attempt, read>>

\* The key of a patch call.
PatchKey(c) == CHOOSE k \in Keys : scope[c] = {k}

\* The loop is over, its counter and the value it was handed are gone.
LoopEnds(c) ==
    /\ attempt' = [attempt EXCEPT ![c] = 0]
    /\ read' = [read EXCEPT ![c] = NoEntry]

\* One attempt reads the live typed entry; a missing, an expired or an
\* other-typed one ends the attempts, and a cache that is switched off does
\* before the first.
PatchRead(c) ==
    LET k == PatchKey(c) IN
    /\ cpc[c] = "read"
    /\ \/ /\ entry[k] # NoEntry
          /\ read' = [read EXCEPT ![c] = entry[k]]
          /\ cpc' = [cpc EXCEPT ![c] = "apply"]
          /\ UNCHANGED attempt
       \/ /\ cpc' = [cpc EXCEPT ![c] = "dropping"]
          /\ LoopEnds(c)
    /\ UNCHANGED <<dir, entry, watch, fetchVars, scope, left>>

\* Fault: any entry under the key is swapped.
SameAllocAny(c) == entry[PatchKey(c)] # NoEntry

\* The entry under the key is still the allocation the patch was handed.
SameAlloc(c) ==
    /\ entry[PatchKey(c)] # NoEntry
    /\ entry[PatchKey(c)].alloc = read[c].alloc

\* Fault: Patch::Keep whatever the entry holds.
PatchLandKeeps(c) ==
    /\ cpc[c] = "apply"
    /\ SameAlloc(c)
    /\ cpc' = [cpc EXCEPT ![c] = "done"]
    /\ left' = [left EXCEPT ![c] = {}]
    /\ LoopEnds(c)
    /\ UNCHANGED <<dir, entry, watch, fetchVars, scope>>

\* Patch::Replace through replace_typed_if_same (stamp kept, new allocation),
\* or Patch::Keep through holds_typed when the write is already in.
PatchLand(c) ==
    LET k == PatchKey(c) IN
    /\ cpc[c] = "apply"
    /\ SameAlloc(c)
    /\ \/ entry' = [entry EXCEPT ![k] =
                       [content |-> read[c].content \cup {CallWrite[c]},
                        stamp |-> @.stamp, alloc |-> c]]
       \/ CallWrite[c] \in read[c].content /\ UNCHANGED entry
    /\ cpc' = [cpc EXCEPT ![c] = "done"]
    /\ left' = [left EXCEPT ![c] = {}]
    /\ LoopEnds(c)
    /\ UNCHANGED <<dir, watch, fetchVars, scope>>

\* Fault: the attempts are not counted, a lost race is always run again.
PatchLostForever(c) ==
    /\ cpc[c] = "apply"
    /\ ~ SameAlloc(c)
    /\ cpc' = [cpc EXCEPT ![c] = "read"]
    /\ read' = [read EXCEPT ![c] = NoEntry]
    /\ UNCHANGED <<dir, entry, watch, fetchVars, scope, left, attempt>>

\* Another writer replaced the entry under the patch: try again, at most
\* PATCH_ATTEMPTS times, then drop the key.
PatchLost(c) ==
    /\ cpc[c] = "apply"
    /\ ~ SameAlloc(c)
    /\ IF attempt[c] < PatchAttempts
       THEN /\ cpc' = [cpc EXCEPT ![c] = "read"]
            /\ attempt' = [attempt EXCEPT ![c] = @ + 1]
            /\ read' = [read EXCEPT ![c] = NoEntry]
       ELSE /\ cpc' = [cpc EXCEPT ![c] = "dropping"]
            /\ LoopEnds(c)
    /\ UNCHANGED <<dir, entry, watch, fetchVars, scope, left>>

\* Patch::Invalidate: the patch cannot apply (the index is at its cap).
PatchRefuse(c) ==
    /\ cpc[c] = "apply"
    /\ cpc' = [cpc EXCEPT ![c] = "dropping"]
    /\ LoopEnds(c)
    /\ UNCHANGED <<dir, entry, watch, fetchVars, scope, left>>

-----------------------------------------------------------------------------
(* The rest of the cache, as far as this protocol can tell.                *)

\* An entry goes for a reason of its own: lookup found it expired, get found
\* it undecodable, configure or another key's store evicted it.
Expire(k) ==
    /\ entry[k] # NoEntry
    /\ entry' = [entry EXCEPT ![k] = NoEntry]
    /\ UNCHANGED <<dir, watch, fetchVars, callVars>>

-----------------------------------------------------------------------------
Init ==
    /\ dir = {}
    /\ entry = [k \in Keys |-> NoEntry]
    /\ watch = [k \in Keys |-> [counter |-> 0, refs |-> 0]]
    /\ fpc = [f \in Fetches |-> "idle"]
    /\ fkey = [f \in Fetches |-> IdleKey(f)]
    /\ since = [f \in Fetches |-> 0]
    /\ result = [f \in Fetches |-> {}]
    /\ cpc = [c \in Calls |-> "idle"]
    /\ scope = [c \in Calls |-> {}]
    /\ left = [c \in Calls |-> {}]
    /\ attempt = [c \in Calls |-> 0]
    /\ read = [c \in Calls |-> NoEntry]

FetchStep(f) ==
    \/ Scan(f) \/ Abandon(f) \/ Peek(f)
    \/ Store(f) \/ Decline(f) \/ Release(f) \/ Rollback(f)

CallStep(c) ==
    \/ \E kind \in Kinds : DropKind(c, kind)
    \/ PatchRead(c) \/ PatchLand(c)
    \/ PatchLost(c) \/ PatchRefuse(c)

Next ==
    \/ \E f \in Fetches : FetchStep(f) \/ \E k \in FetchKeys[f] : GenerationFor(f, k)
    \/ \E w \in Writes : Land(w)
    \/ \E c \in Calls : \/ \E keys \in Sweeps[c] : Bump(c, keys, "dropping")
                        \/ \E k \in Patches[c] : Bump(c, {k}, "read")
                        \/ CallStep(c)
    \/ \E k \in Keys : Expire(k)

Spec == Init /\ [][Next]_vars

\* A spawned command runs to its end: the requests of a scan time out, the
\* locks are held for a bounded time, the patch loop is bounded.  Nothing
\* obliges a command to start.
Fairness ==
    /\ \A f \in Fetches : WF_vars(FetchStep(f))
    /\ \A c \in Calls : WF_vars(CallStep(c))

FairSpec == Spec /\ Fairness

-----------------------------------------------------------------------------
(* Properties.                                                             *)

FetchPC == {"idle", "fetching", "fetched", "checked", "stored",
            "rollback"}

CallPC == {"idle", "read", "apply", "dropping", "done"}

\* The type invariant: the shape of the buckets, of the watch table and of the
\* local state of every fetch and call.
TypeOK ==
    /\ dir \in SUBSET Writes
    /\ entry \in [Keys -> Entry \cup {NoEntry}]
    /\ watch \in [Keys -> [counter : Nat, refs : Nat]]
    /\ fpc \in [Fetches -> FetchPC]
    /\ fkey \in [Fetches -> Keys]
    /\ since \in [Fetches -> Nat \cup {WatchUnavailable}]
    /\ result \in [Fetches -> SUBSET Writes]
    /\ cpc \in [Calls -> CallPC]
    /\ scope \in [Calls -> SUBSET Keys]
    /\ left \in [Calls -> SUBSET Keys]
    /\ attempt \in [Calls -> 0..PatchAttempts]
    /\ read \in [Calls -> Entry \cup {NoEntry}]

\* Call c has bumped the watches of its scope.
Bumped(c) == cpc[c] # "idle"

\* Call c has finished with key k: it dropped the entry or patched it.
Settled(c, k) == Bumped(c) /\ k \in scope[c] \ left[c]

\* The store that made this entry has not yet had its second look, or is about
\* to undo it: the entry may disappear again without anybody having served it.
InFlight(e) == fpc[e.stamp] \in {"stored", "rollback"}

\* An entry under k that misses a write whose invalidation is over with k.
Stale(k) ==
    /\ entry[k] # NoEntry
    /\ \E c \in Calls : Settled(c, k) /\ CallWrite[c] \notin entry[k].content

\* Store-after-invalidate (put_typed_index_if_current's reason to exist): once
\* an invalidation or a patch of a key is over, an entry under that key
\* reflects the mutation, however fetches, invalidations, patches, evictions
\* and a cache that is switched off interleave.  The one exception is a store still in
\* flight, whose own second look will remove it.
NoStaleEntryAtRest ==
    \A k \in Keys : Stale(k) => InFlight(entry[k])

\* The exception of NoStaleEntryAtRest is sound: an in-flight entry that is
\* stale belongs to a fetch that can no longer keep it, because its counter
\* has moved on or it is already rolling back.
StaleStoreIsDoomed ==
    \A k \in Keys : Stale(k) =>
        LET f == entry[k].stamp IN
        fpc[f] = "stored" => watch[k].counter # since[f]

\* The watch table neither leaks nor loses a row: every row counts exactly the
\* guards alive on its key (Watch::refs, IndexWatch's Drop), so a table that
\* nobody uses is empty and never fills up for good.
WatchRefsExact ==
    \A k \in Keys :
        watch[k].refs = Cardinality({f \in Fetches : Holds(f) /\ fkey[f] = k})

\* A rollback undoes its own store only: an entry that another fetch put under
\* the key in the meantime survives it (Bucket::remove_if_stamp).
RollbackSparesOthers ==
    [][\A f \in Fetches : fpc[f] = "rollback" /\ fpc'[f] # "rollback" =>
          \A k \in Keys : entry[k] # NoEntry /\ entry[k].stamp # f =>
                              entry'[k] = entry[k]]_vars

\* A patch never hides another writer's change: while a patch call takes a
\* step, whatever an entry that survives reflected before, it still does
\* (replace_typed_if_same compares allocations before it swaps).
PatchLosesNothing ==
    [][\A c \in Calls : cpc[c] = "apply" /\ cpc'[c] = "done" =>
          \A k \in Keys : entry[k] # NoEntry =>
              /\ entry'[k] # NoEntry
              /\ entry[k].content \subseteq entry'[k].content
              /\ entry[k].stamp = entry'[k].stamp]_vars

\* Every invalidation that began ends (a call begins once, so it is not for
\* ever on its way): patch_typed_index_with gives up after PATCH_ATTEMPTS lost
\* races, however often fetches and other patches replace the entry under it.
EveryCallEnds == \A c \in Calls : []<>(cpc[c] \in {"idle", "done"})

\* A stale entry that a store in flight made visible for a moment goes away:
\* the second look of store_if_current does happen and does undo it.
StaleEntriesGo == \A k \in Keys : []<>(~ Stale(k))

\* What shows of the buckets: a store that is still in flight does not.
Shown == [k \in Keys |->
            IF entry[k] = NoEntry \/ InFlight(entry[k]) THEN NoEntry
            ELSE entry[k].content]

Acked == [k \in Keys |-> {CallWrite[c] : c \in {d \in Calls : Settled(d, k)}}]

Currency == INSTANCE IndexCurrency WITH NoValue <- NoEntry, value <- Shown, acked <- Acked

\* The promise of the cache: between them, the guarded store (store_if_current),
\* the invalidations and the patches implement IndexCurrency, in which nothing
\* that shows is older than an invalidation that is over.
ImplementsCurrency == Currency!CSpec

=============================================================================
