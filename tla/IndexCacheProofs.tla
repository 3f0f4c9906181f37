-------------------------- MODULE IndexCacheProofs --------------------------
(***************************************************************************)
(* Proofs about IndexCache, for every set of keys, fetches, writes and     *)
(* invalidation calls and every bound.                                     *)
(*                                                                         *)
(* NoStaleEntryAtRest is not inductive: it says nothing of a fetch that    *)
(* has not stored yet.  The strengthening follows a snapshot through the   *)
(* protocol.  While a fetch's counter has not moved, its snapshot reflects *)
(* every bumped write of its key (CurrentFetches); the counter cannot move *)
(* back, because the row stays in the table as long as a guard is alive    *)
(* (WatchRefsExact); an entry contains its store's snapshot, and once that *)
(* store is over, every settled write (SoundEntries); and a patch that     *)
(* finds the allocation it read finds the content it read (SoundReads).    *)
(* A caller that fetches again needs a name that nothing in the cache      *)
(* carries (NameIsFree), so that both keep telling one fetch from another. *)
(***************************************************************************)
EXTENDS IndexCache, FiniteSetTheorems, TLAPS

\* The fetch is past its insert: its snapshot may be in the bucket.
Inserted(f) == fpc[f] \in {"stored", "rollback", "idle"}

\* The operation that made this allocation has made it, and makes no other.
Spent(a) ==
    /\ a \in Fetches => Inserted(a)
    /\ a \in Calls => cpc[a] = "done"

PatchLocals ==
    \A c \in Calls :
        /\ cpc[c] \in {"read", "apply"} =>
              left[c] = scope[c] /\ \E k \in Keys : scope[c] = {k}
        /\ cpc[c] = "apply" => read[c] \in Entry

\* Only a fetch whose watch was registered gets past the first look.
FetchLocals ==
    \A f \in Fetches : fpc[f] \in {"checked", "stored"} =>
                          since[f] # WatchUnavailable

TypeInv == TypeOK /\ PatchLocals /\ FetchLocals

BumpedLanded == \A c \in Calls : Bumped(c) => CallWrite[c] \in dir

\* A fetch whose counter has not moved reflects all bumped writes of its key.
CurrentFetches ==
    \A f \in Fetches : Holds(f) =>
        /\ since[f] <= watch[fkey[f]].counter
        /\ since[f] = watch[fkey[f]].counter =>
              \A c \in Calls : Bumped(c) /\ fkey[f] \in scope[c] =>
                                  CallWrite[c] \in result[f]

\* An entry belongs to a fetch of its key that is in flight, and holds that
\* fetch's snapshot, or to one that kept it, and holds every settled write.
SoundEntries ==
    \A k \in Keys : entry[k] # NoEntry =>
        LET f == entry[k].stamp IN
        /\ fpc[f] \in {"stored", "rollback", "idle"}
        /\ fpc[f] # "idle" => fkey[f] = k
        /\ \A a \in Allocs : a = entry[k].alloc => Spent(a)
        /\ fpc[f] = "stored" => result[f] \subseteq entry[k].content
        /\ fpc[f] = "idle" =>
              \A c \in Calls : Settled(c, k) => CallWrite[c] \in entry[k].content

\* The allocation decides the content: a patch that finds the allocation it
\* was handed finds the content it was handed.
SoundReads ==
    \A c \in Calls : cpc[c] = "apply" =>
        /\ \A a \in Allocs : a = read[c].alloc => Spent(a)
        /\ SameAlloc(c) => entry[PatchKey(c)].content = read[c].content

CurrencyInv == BumpedLanded /\ CurrentFetches /\ SoundEntries /\ SoundReads

Inv == TypeInv /\ WatchRefsExact /\ CurrencyInv

-----------------------------------------------------------------------------
(* Type correctness.                                                       *)

\* A patch call works on the one key of its scope.
LEMMA PatchKeyIsScope ==
    ASSUME TypeInv, NEW c \in Calls, cpc[c] \in {"read", "apply"}
    PROVE  PatchKey(c) \in Keys /\ scope[c] = {PatchKey(c)}
BY DEF TypeInv, PatchLocals, PatchKey

WatchType == [Keys -> [counter : Nat, refs : Nat]]

\* What dropping a reference does to the rows of the watch table.
LEMMA ReleasedWatchRow ==
    ASSUME watch \in WatchType, NEW k \in Keys
    PROVE  /\ ReleasedWatch(k) \in WatchType
           /\ \A j \in Keys \ {k} : ReleasedWatch(k)[j] = watch[j]
           /\ watch[k].refs > 1 =>
                 /\ ReleasedWatch(k)[k].refs = watch[k].refs - 1
                 /\ ReleasedWatch(k)[k].counter = watch[k].counter
           /\ watch[k].refs <= 1 => ReleasedWatch(k)[k].refs = 0
<1>1. watch[k].refs \in Nat /\ watch[k].counter \in Nat
    BY DEF WatchType
<1>2. CASE watch[k].refs <= 1
    BY <1>1, <1>2 DEF ReleasedWatch, WatchType
<1>3. CASE watch[k].refs > 1
    BY <1>1, <1>3 DEF ReleasedWatch, WatchType
<1> QED
    BY <1>1, <1>2, <1>3

\* What an invalidation does to the rows of the watch table.
LEMMA BumpedWatchRow ==
    ASSUME watch \in WatchType, NEW keys
    PROVE  /\ BumpedWatches(keys) \in WatchType
           /\ \A k \in Keys :
                /\ BumpedWatches(keys)[k].refs = watch[k].refs
                /\ BumpedWatches(keys)[k].counter =
                      IF k \in keys /\ watch[k].refs > 0
                      THEN watch[k].counter + 1 ELSE watch[k].counter
BY DEF BumpedWatches, WatchType

\* Between fetches a caller has one of its keys.
LEMMA IdleKeyIsKey == \A f \in Fetches : IdleKey(f) \in Keys
BY ConstantsAssumption DEF IdleKey

\* What the end of a fetch does to its own locals.
LEMMA FinishLocals ==
    ASSUME TypeOK, NEW f \in Fetches, Finish(f)
    PROVE  /\ fpc' \in [Fetches -> FetchPC] /\ fpc'[f] = "idle"
           /\ fkey' \in [Fetches -> Keys]
           /\ since' \in [Fetches -> Nat \cup {WatchUnavailable}]
           /\ result' \in [Fetches -> SUBSET Writes]
           /\ \A g \in Fetches \ {f} : /\ fpc'[g] = fpc[g] /\ fkey'[g] = fkey[g]
                                        /\ since'[g] = since[g] /\ result'[g] = result[g]
BY IdleKeyIsKey DEF TypeOK, Finish, LetGo, FetchPC

\* What an operation may begin with is made of keys.
LEMMA StartsAreKeys ==
    /\ \A f \in Fetches : FetchKeys[f] \subseteq Keys
    /\ \A c \in Calls : Sweeps[c] \subseteq SUBSET Keys /\ Patches[c] \subseteq Keys
BY ConstantsAssumption

LEMMA TypeInit == Init => TypeInv
BY BoundsAssumption, IdleKeyIsKey DEF Init, TypeInv, TypeOK, PatchLocals, FetchLocals, FetchPC, CallPC

\* Only Store and PatchLand write entries, only they need the entry's shape.
LEMMA TypeStep == TypeInv /\ [Next]_vars => TypeInv'
<1> SUFFICES ASSUME TypeInv, [Next]_vars PROVE TypeInv'
    OBVIOUS
<1> USE DEF TypeInv, TypeOK, PatchLocals, FetchLocals, fetchVars, callVars
<1>1. ASSUME NEW f \in Fetches, NEW k \in Keys, GenerationFor(f, k) PROVE TypeInv'
    <2>2. watch' \in WatchType /\ since' \in [Fetches -> Nat \cup {WatchUnavailable}]
        <3> HIDE DEF PatchLocals, FetchLocals
        <3>1. watch' \in WatchType
            BY <1>1 DEF GenerationFor, WatchType
        <3>2. since' \in [Fetches -> Nat \cup {WatchUnavailable}]
            BY <1>1 DEF GenerationFor
        <3> QED
            BY <3>1, <3>2
    <2>3. \A g \in Fetches \ {f} : since'[g] = since[g] /\ fpc'[g] = fpc[g]
        BY <1>1 DEF GenerationFor
    <2>4. fpc' \in [Fetches -> FetchPC] /\ fpc'[f] = "fetching"
        BY <1>1 DEF GenerationFor, FetchPC
    <2>5. FetchLocals'
        BY <2>3, <2>4
    <2> QED
        BY <1>1, <2>2, <2>4, <2>5 DEF GenerationFor, WatchType
<1>2. ASSUME NEW f \in Fetches, Scan(f) PROVE TypeInv'
    BY <1>2 DEF Scan, FetchPC
<1>3. ASSUME NEW f \in Fetches, Finish(f), watch' = DroppedGuard(f),
             UNCHANGED <<dir, entry, callVars>>
      PROVE  TypeInv'
    <2>1. watch' \in WatchType
        BY <1>3, ReleasedWatchRow DEF DroppedGuard, WatchType
    <2>2. FetchLocals'
        BY <1>3, FinishLocals
    <2>3. TypeOK'
        BY <1>3, <2>1, FinishLocals DEF WatchType
    <2> QED
        BY <1>3, <2>2, <2>3
<1>4. ASSUME NEW f \in Fetches, Peek(f) PROVE TypeInv'
    <2>1. CASE Finish(f) /\ watch' = DroppedGuard(f)
        BY <1>3, <1>4, <2>1 DEF Peek
    <2>2. CASE /\ Holds(f) /\ fpc' = [fpc EXCEPT ![f] = "checked"]
               /\ UNCHANGED <<watch, fkey, since, result>>
        BY <1>4, <2>2 DEF Peek, FetchPC, Holds
    <2> QED
        BY <1>4, <2>1, <2>2 DEF Peek
<1>6. ASSUME NEW f \in Fetches, Store(f) PROVE TypeInv'
    <2>1. entry' \in [Keys -> Entry \cup {NoEntry}]
        BY <1>6 DEF Store, Entry, Allocs
    <2> QED
        BY <1>6, <2>1 DEF Store, FetchPC
<1>7. ASSUME NEW f \in Fetches, Release(f) PROVE TypeInv'
    <2>0. watch' = DroppedGuard(f)
        BY <1>7 DEF Release, DroppedGuard, Holds
    <2>1. CASE Finish(f)
        BY <1>3, <1>7, <2>0, <2>1 DEF Release
    <2>2. CASE ~ Finish(f)
        <3>1. watch' \in WatchType
            BY <1>7, ReleasedWatchRow DEF Release, WatchType
        <3>2. fpc' = [fpc EXCEPT ![f] = "rollback"] /\ LetGo(f)
            BY <1>7, <2>2 DEF Release
        <3> QED
            BY <1>7, <2>2, <3>1, <3>2 DEF Release, LetGo, WatchType, FetchPC
    <2> QED
        BY <2>1, <2>2
<1>8. ASSUME NEW f \in Fetches, Rollback(f) PROVE TypeInv'
    <2>1. entry' \in [Keys -> Entry \cup {NoEntry}]
        BY <1>8 DEF Rollback
    <2>2. FetchLocals'
        BY <1>8, FinishLocals DEF Rollback
    <2>3. TypeOK'
        BY <1>8, <2>1, FinishLocals DEF Rollback
    <2> QED
        BY <1>8, <2>2, <2>3 DEF Rollback
<1>9. ASSUME NEW w \in Writes, Land(w) PROVE TypeInv'
    BY <1>9 DEF Land
<1>10. ASSUME NEW c \in Calls, NEW keys \in SUBSET Keys, NEW to \in {"dropping", "read"},
              Bump(c, keys, to), to = "read" => \E k \in Keys : keys = {k}
       PROVE  TypeInv'
    <2>1. watch' \in WatchType
        BY <1>10, BumpedWatchRow DEF Bump, WatchType
    <2>2. attempt' \in [Calls -> 0..PatchAttempts]
        BY <1>10, BoundsAssumption DEF Bump
    <2> QED
        BY <1>10, <2>1, <2>2 DEF Bump, WatchType, CallPC
<1>11. ASSUME NEW c \in Calls, NEW kind \in Kinds, DropKind(c, kind) PROVE TypeInv'
    BY <1>11 DEF DropKind, CallPC
<1>12. ASSUME NEW c \in Calls, LoopEnds(c)
       PROVE  /\ attempt' \in [Calls -> 0..PatchAttempts]
              /\ read' \in [Calls -> Entry \cup {NoEntry}]
              /\ \A d \in Calls \ {c} : read'[d] = read[d]
    BY <1>12, BoundsAssumption DEF LoopEnds
<1>13. ASSUME NEW c \in Calls, PatchRead(c) PROVE TypeInv'
    <2>1. CASE LoopEnds(c) /\ cpc' = [cpc EXCEPT ![c] = "dropping"]
        BY <1>12, <1>13, <2>1 DEF PatchRead, CallPC
    <2>2. CASE /\ entry[PatchKey(c)] # NoEntry /\ read' = [read EXCEPT ![c] = entry[PatchKey(c)]]
               /\ cpc' = [cpc EXCEPT ![c] = "apply"] /\ UNCHANGED attempt
        <3>1. PatchKey(c) \in Keys
            BY <1>13, PatchKeyIsScope DEF PatchRead
        <3> QED
            BY <1>13, <2>2, <3>1 DEF PatchRead, CallPC
    <2> QED
        BY <1>13, <2>1, <2>2 DEF PatchRead
<1>14. ASSUME NEW c \in Calls, PatchLand(c) PROVE TypeInv'
    <2>1. PatchKey(c) \in Keys /\ entry[PatchKey(c)] \in Entry
        BY <1>14, PatchKeyIsScope DEF PatchLand, SameAlloc
    <2>2. read[c].content \cup {CallWrite[c]} \in SUBSET Writes
        <3>1. read[c] \in Entry
            BY <1>14 DEF PatchLand
        <3>2. CallWrite[c] \in Writes
            BY ConstantsAssumption
        <3> HIDE DEF TypeInv
        <3> QED
            BY <3>1, <3>2 DEF Entry
    <2>3. [content |-> read[c].content \cup {CallWrite[c]},
           stamp |-> entry[PatchKey(c)].stamp, alloc |-> c] \in Entry
        BY <2>1, <2>2 DEF Entry, Allocs
    <2>4. entry' \in [Keys -> Entry \cup {NoEntry}]
        BY <1>14, <2>1, <2>3 DEF PatchLand
    <2>5. LoopEnds(c)
        BY <1>14 DEF PatchLand
    <2> QED
        BY <1>12, <1>14, <2>4, <2>5 DEF PatchLand, CallPC
<1>15. ASSUME NEW c \in Calls, PatchLost(c) PROVE TypeInv'
    <2>1. CASE LoopEnds(c) /\ cpc' = [cpc EXCEPT ![c] = "dropping"]
        BY <1>12, <1>15, <2>1 DEF PatchLost, CallPC
    <2>2. CASE /\ attempt[c] < PatchAttempts /\ cpc' = [cpc EXCEPT ![c] = "read"]
               /\ attempt' = [attempt EXCEPT ![c] = @ + 1]
               /\ read' = [read EXCEPT ![c] = NoEntry]
        <3>1. attempt' \in [Calls -> 0..PatchAttempts]
            <4>1. attempt \in [Calls -> 0..PatchAttempts] /\ PatchAttempts \in Nat
                BY BoundsAssumption
            <4> HIDE DEF TypeInv
            <4> QED
                BY <2>2, <4>1
        <3> QED
            BY <1>15, <2>2, <3>1 DEF PatchLost, CallPC
    <2> QED
        BY <1>15, <2>1, <2>2 DEF PatchLost
<1>16. ASSUME NEW c \in Calls, PatchRefuse(c) PROVE TypeInv'
    <2>1. LoopEnds(c)
        BY <1>16 DEF PatchRefuse
    <2> QED
        BY <1>12, <1>16, <2>1 DEF PatchRefuse, CallPC
<1>17. ASSUME NEW k \in Keys, Expire(k) PROVE TypeInv'
    BY <1>17 DEF Expire
<1>19. CASE UNCHANGED vars
    BY <1>19 DEF vars
<1>20. ASSUME NEW f \in Fetches, FetchStep(f) PROVE TypeInv'
    <2>1. CASE Abandon(f) \/ Decline(f)
        BY <1>3, <2>1 DEF Abandon, Decline
    <2> QED
        BY <1>2, <1>4, <1>6, <1>7, <1>8, <1>20, <2>1 DEF FetchStep
<1>21. ASSUME NEW c \in Calls, CallStep(c) PROVE TypeInv'
    BY <1>11, <1>13, <1>14, <1>15, <1>16, <1>21 DEF CallStep
<1> HIDE DEF TypeInv, TypeOK, PatchLocals, FetchLocals, fetchVars, callVars
<1> QED
    BY <1>1, <1>9, <1>10, <1>17, <1>19, <1>20, <1>21, StartsAreKeys DEF Next

\* Type correctness: buckets, watch table and the locals of every operation
\* keep their shape in every reachable state.
THEOREM TypeCorrect == Spec => []TypeOK
<1>1. TypeInv => TypeOK
    BY DEF TypeInv
<1> QED
    BY <1>1, TypeInit, TypeStep, PTL DEF Spec

-----------------------------------------------------------------------------
(* The watch table counts the guards that are alive.                       *)

Holders(k) == {f \in Fetches : Holds(f) /\ fkey[f] = k}

LEMMA HoldersFinite ==
    ASSUME NEW k
    PROVE  IsFiniteSet(Holders(k)) /\ Cardinality(Holders(k)) \in Nat
<1>1. Holders(k) \subseteq Fetches
    BY DEF Holders
<1> QED
    BY <1>1, FS_Subset, FS_CardinalityType, ConstantsAssumption

\* A guard that is alive has a row; two on one key have a row of two.
LEMMA HolderHasRow ==
    ASSUME TypeInv, WatchRefsExact, NEW f \in Fetches, Holds(f)
    PROVE  /\ watch[fkey[f]].refs > 0
           /\ \A g \in Fetches \ {f} :
                 Holds(g) /\ fkey[g] = fkey[f] => watch[fkey[f]].refs > 1
<1> DEFINE k == fkey[f]
<1>1. k \in Keys
    BY DEF TypeInv, TypeOK
<1>2. f \in Holders(k) /\ watch[k].refs = Cardinality(Holders(k))
    BY <1>1 DEF Holders, WatchRefsExact
<1>3. Cardinality(Holders(k) \ {f}) = Cardinality(Holders(k)) - 1
      /\ Cardinality(Holders(k)) \in Nat
      /\ IsFiniteSet(Holders(k) \ {f})
    BY <1>2, HoldersFinite, FS_RemoveElement
<1>4. Cardinality(Holders(k) \ {f}) \in Nat
    BY <1>3, FS_CardinalityType
<1>5. ASSUME NEW g \in Fetches \ {f}, Holds(g), fkey[g] = fkey[f]
      PROVE  watch[k].refs > 1
    <2>1. g \in Holders(k) \ {f}
        BY <1>5 DEF Holders
    <2>2. Cardinality(Holders(k) \ {f}) # 0
        BY <1>3, <2>1, FS_EmptySet
    <2> QED
        BY <1>2, <1>3, <1>4, <2>2
<1> QED
    BY <1>2, <1>3, <1>4, <1>5

LEMMA RefsKept ==
    ASSUME WatchRefsExact,
           \A f \in Fetches : /\ Holds(f)' <=> Holds(f)
                              /\ Holds(f) => fkey'[f] = fkey[f],
           \A k \in Keys : watch'[k].refs = watch[k].refs
    PROVE  WatchRefsExact'
<1>1. \A k \in Keys : Holders(k)' = Holders(k)
    BY DEF Holders
<1> QED
    BY <1>1 DEF WatchRefsExact, Holders

LEMMA RefsGrow ==
    ASSUME WatchRefsExact, NEW f \in Fetches, ~ Holds(f), Holds(f)',
           \A g \in Fetches \ {f} : (Holds(g)' <=> Holds(g)) /\ fkey'[g] = fkey[g],
           NEW k \in Keys, fkey'[f] = k,
           watch'[k].refs = watch[k].refs + 1,
           \A j \in Keys \ {k} : watch'[j].refs = watch[j].refs
    PROVE  WatchRefsExact'
<1>1. \A j \in Keys \ {k} : Holders(j)' = Holders(j)
    BY DEF Holders
<1>2. Holders(k)' = Holders(k) \cup {f} /\ f \notin Holders(k)
    BY DEF Holders
<1>3. Cardinality(Holders(k)') = Cardinality(Holders(k)) + 1
    BY <1>2, HoldersFinite, FS_AddElement
<1> QED
    BY <1>1, <1>3 DEF WatchRefsExact, Holders

LEMMA RefsShrink ==
    ASSUME TypeInv, WatchRefsExact, NEW f \in Fetches, Holds(f), ~ Holds(f)',
           \A g \in Fetches \ {f} : (Holds(g)' <=> Holds(g)) /\ fkey'[g] = fkey[g],
           watch' = ReleasedWatch(fkey[f])
    PROVE  WatchRefsExact'
<1>. PICK k \in Keys : k = fkey[f]
    BY DEF TypeInv, TypeOK
<1>1. watch \in WatchType
    BY DEF TypeInv, TypeOK, WatchType
<1>2. \A j \in Keys \ {k} : Holders(j)' = Holders(j) /\ watch'[j] = watch[j]
    BY <1>1, ReleasedWatchRow DEF Holders
<1>3. Holders(k)' = Holders(k) \ {f} /\ f \in Holders(k)
    BY DEF Holders
<1>4. Cardinality(Holders(k)') = Cardinality(Holders(k)) - 1
    BY <1>3, HoldersFinite, FS_RemoveElement
<1>5. watch[k].refs > 0 /\ watch[k].refs \in Nat
    BY <1>1, HolderHasRow DEF WatchType
<1>6. watch'[k].refs = watch[k].refs - 1
    BY <1>1, <1>5, ReleasedWatchRow
<1>7. \A j \in Keys : watch[j].refs = Cardinality(Holders(j))
    BY DEF WatchRefsExact, Holders
<1>8. \A j \in Keys : watch'[j].refs = Cardinality(Holders(j)')
    BY <1>1, <1>2, <1>4, <1>6, <1>7
<1> QED
    BY <1>8 DEF WatchRefsExact, Holders

\* A fetch that ends gives up its reference, if it had one.
LEMMA RefsFinish ==
    ASSUME TypeInv, WatchRefsExact, NEW f \in Fetches, Finish(f), watch' = DroppedGuard(f)
    PROVE  WatchRefsExact'
<1>1. /\ ~ Holds(f)'
      /\ \A g \in Fetches \ {f} : (Holds(g)' <=> Holds(g)) /\ fkey'[g] = fkey[g]
    BY FinishLocals DEF Holds, TypeInv
<1>2. CASE Holds(f)
    BY <1>1, <1>2, RefsShrink DEF DroppedGuard
<1>3. CASE ~ Holds(f)
    BY <1>1, <1>3, RefsKept DEF DroppedGuard
<1> QED
    BY <1>2, <1>3

LEMMA RefsStep == TypeInv /\ WatchRefsExact /\ [Next]_vars => WatchRefsExact'
<1> SUFFICES ASSUME TypeInv, WatchRefsExact, [Next]_vars PROVE WatchRefsExact'
    OBVIOUS
<1> USE DEF fetchVars, callVars
<1>0. fpc \in [Fetches -> FetchPC] /\ watch \in WatchType
      /\ fkey \in [Fetches -> Keys]
      /\ since \in [Fetches -> Nat \cup {WatchUnavailable}]
    BY DEF TypeInv, TypeOK, WatchType
<1>1. ASSUME NEW f \in Fetches, NEW k \in Keys, GenerationFor(f, k) PROVE WatchRefsExact'
    <2>1. /\ ~ Holds(f)
          /\ \A g \in Fetches \ {f} : (Holds(g)' <=> Holds(g)) /\ fkey'[g] = fkey[g]
        BY <1>0, <1>1 DEF GenerationFor, Holds
    <2>3. CASE since'[f] = WatchUnavailable
        <3>1. ~ Holds(f)' /\ watch' = watch
            BY <1>0, <1>1, <2>3, BoundsAssumption DEF GenerationFor, Holds, WatchType
        <3> QED
            BY <2>1, <3>1, RefsKept
    <2>4. CASE since'[f] # WatchUnavailable
        <3>1. Holds(f)' /\ fkey'[f] = k
            BY <1>0, <1>1, <2>4 DEF GenerationFor, Holds
        <3>2. watch'[k].refs = watch[k].refs + 1
              /\ \A j \in Keys \ {k} : watch'[j].refs = watch[j].refs
            BY <1>0, <1>1, <2>4 DEF GenerationFor, WatchType
        <3> QED
            BY <2>1, <3>1, <3>2, RefsGrow
    <2> QED
        BY <2>3, <2>4
<1>2. ASSUME NEW f \in Fetches, Scan(f) \/ Store(f) PROVE WatchRefsExact'
    <2>1. /\ watch' = watch
          /\ \A g \in Fetches : (Holds(g)' <=> Holds(g)) /\ fkey'[g] = fkey[g]
        BY <1>0, <1>2 DEF Scan, Store, Holds
    <2> QED
        BY <2>1, RefsKept
<1>3. ASSUME NEW f \in Fetches, Abandon(f) \/ Decline(f) PROVE WatchRefsExact'
    BY <1>3, RefsFinish DEF Abandon, Decline
<1>4. ASSUME NEW f \in Fetches, Peek(f) PROVE WatchRefsExact'
    <2>1. CASE Finish(f) /\ watch' = DroppedGuard(f)
        BY <2>1, RefsFinish
    <2>2. CASE /\ Holds(f) /\ fpc' = [fpc EXCEPT ![f] = "checked"]
               /\ UNCHANGED <<watch, fkey, since, result>>
        <3>1. \A g \in Fetches : Holds(g)' <=> Holds(g)
            BY <1>0, <2>2 DEF Holds
        <3> QED
            BY <2>2, <3>1, RefsKept
    <2> QED
        BY <1>4, <2>1, <2>2 DEF Peek
<1>5. ASSUME NEW f \in Fetches, Release(f) PROVE WatchRefsExact'
    <2>1. Holds(f)
        BY <1>5 DEF Release, Holds, TypeInv, FetchLocals
    <2>2. CASE Finish(f)
        BY <1>5, <2>1, <2>2, RefsFinish DEF Release, DroppedGuard
    <2>3. CASE ~ Finish(f)
        <3>1. /\ ~ Holds(f)'
              /\ \A g \in Fetches \ {f} : (Holds(g)' <=> Holds(g)) /\ fkey'[g] = fkey[g]
            BY <1>0, <1>5, <2>3 DEF Release, LetGo, Holds
        <3> QED
            BY <1>5, <2>1, <3>1, RefsShrink DEF Release
    <2> QED
        BY <2>2, <2>3
<1>8. ASSUME NEW f \in Fetches, Rollback(f) PROVE WatchRefsExact'
    <2>1. watch' = DroppedGuard(f)
        BY <1>8 DEF Rollback, DroppedGuard, Holds
    <2> QED
        BY <1>8, <2>1, RefsFinish DEF Rollback
<1>6. ASSUME NEW c \in Calls, NEW keys, NEW to, Bump(c, keys, to) PROVE WatchRefsExact'
    <2>1. \A g \in Fetches : (Holds(g)' <=> Holds(g)) /\ fkey'[g] = fkey[g]
        BY <1>6 DEF Bump, Holds
    <2>2. \A k \in Keys : watch'[k].refs = watch[k].refs
        BY <1>0, <1>6, BumpedWatchRow DEF Bump
    <2> QED
        BY <2>1, <2>2, RefsKept
<1>7. CASE UNCHANGED <<watch, fpc, fkey, since>>
    <2>1. \A g \in Fetches : (Holds(g)' <=> Holds(g))
        BY <1>7 DEF Holds
    <2> QED
        BY <1>7, <2>1, RefsKept
<1> QED
    BY <1>1, <1>2, <1>3, <1>4, <1>5, <1>6, <1>7, <1>8, StartsAreKeys
    DEF Next, FetchStep, CallStep, Land, DropKind, PatchRead,
        PatchLand, PatchLost, PatchRefuse, Expire, vars

-----------------------------------------------------------------------------
(* Currency.                                                               *)

\* Nothing in the cache carries the name of a fetch that has yet to insert.
LEMMA NameUnused ==
    ASSUME TypeInv, SoundEntries, SoundReads, NEW f \in Fetches, ~ Inserted(f)
    PROVE  NameIsFree(f)
<1>1. ~ Spent(f) /\ f \in Allocs
    BY DEF Spent, Allocs
<1>2. \A k \in Keys : entry[k] # NoEntry => entry[k].stamp # f /\ entry[k].alloc # f
    BY <1>1 DEF SoundEntries, Inserted
<1>3. \A c \in Calls : cpc[c] = "apply" => read[c].alloc # f
    BY <1>1 DEF SoundReads
<1> QED
    BY <1>2, <1>3 DEF NameIsFree

\* A step of a fetch whose name nothing carries, and which leaves the entries,
\* the calls and the other fetches alone, keeps what is known of entries and of
\* patches.
LEMMA EntriesKept ==
    ASSUME TypeInv, SoundEntries, SoundReads, NEW f \in Fetches, NameIsFree(f),
           UNCHANGED <<entry, callVars>>,
           \A g \in Fetches \ {f} :
              fpc'[g] = fpc[g] /\ fkey'[g] = fkey[g] /\ result'[g] = result[g]
    PROVE  SoundEntries' /\ SoundReads'
<1>2. \A a \in Allocs : Spent(a) /\ a # f => Spent(a)'
    BY DEF Spent, Inserted, Allocs, callVars
<1>3. SoundEntries'
    <2> SUFFICES ASSUME NEW k \in Keys, entry[k] # NoEntry
                 PROVE  LET g == entry[k].stamp IN
                        /\ fpc'[g] \in {"stored", "rollback", "idle"}
                        /\ fpc'[g] # "idle" => fkey'[g] = k
                        /\ \A a \in Allocs : a = entry[k].alloc => Spent(a)'
                        /\ fpc'[g] = "stored" => result'[g] \subseteq entry[k].content
                        /\ fpc'[g] = "idle" =>
                             \A c \in Calls : Settled(c, k) => CallWrite[c] \in entry[k].content
        BY DEF SoundEntries, Settled, Bumped, callVars
    <2>1. /\ entry[k].stamp \in Fetches \ {f} /\ entry[k].alloc \in Allocs
          /\ entry[k].alloc # f
        BY DEF TypeInv, TypeOK, Entry, NameIsFree
    <2> QED
        BY <1>2, <2>1 DEF SoundEntries
<1>4. SoundReads'
    <2>1. \A c \in Calls : cpc[c] = "apply" => read[c].alloc \in Allocs \ {f}
        BY DEF TypeInv, PatchLocals, Entry, NameIsFree
    <2>2. \A c \in Calls : PatchKey(c)' = PatchKey(c)
        BY DEF PatchKey, callVars
    <2> QED
        BY <1>2, <2>1, <2>2 DEF SoundReads, SameAlloc, callVars
<1> QED
    BY <1>3, <1>4

\* Dropping a guard of f leaves the counter of everybody else's watch alone.
LEMMA CountersKept ==
    ASSUME TypeInv, WatchRefsExact, NEW f \in Fetches,
           watch' = DroppedGuard(f), NEW g \in Fetches \ {f}, Holds(g)
    PROVE  watch'[fkey[g]].counter = watch[fkey[g]].counter
<1>1. watch \in WatchType /\ fkey[f] \in Keys /\ fkey[g] \in Keys
    BY DEF TypeInv, TypeOK, WatchType
<1>2. CASE Holds(f) /\ fkey[g] = fkey[f]
    BY <1>1, <1>2, HolderHasRow, ReleasedWatchRow DEF DroppedGuard
<1>3. CASE Holds(f) /\ fkey[g] # fkey[f]
    BY <1>1, <1>3, ReleasedWatchRow DEF DroppedGuard
<1>4. CASE ~ Holds(f)
    BY <1>4 DEF DroppedGuard
<1> QED
    BY <1>2, <1>3, <1>4

\* A step that ends fetch f's guard keeps what is known of the other fetches.
LEMMA FetchesKept ==
    ASSUME TypeInv, WatchRefsExact, CurrentFetches, NEW f \in Fetches,
           ~ Holds(f)', watch' = DroppedGuard(f), UNCHANGED <<cpc, scope>>,
           \A g \in Fetches \ {f} :
              /\ Holds(g)' <=> Holds(g)
              /\ fkey'[g] = fkey[g] /\ since'[g] = since[g] /\ result'[g] = result[g]
    PROVE  CurrentFetches'
<1> SUFFICES ASSUME NEW g \in Fetches, Holds(g)'
             PROVE  /\ since'[g] <= watch'[fkey'[g]].counter
                    /\ since'[g] = watch'[fkey'[g]].counter =>
                          \A c \in Calls : Bumped(c) /\ fkey'[g] \in scope[c] =>
                                              CallWrite[c] \in result'[g]
    BY DEF CurrentFetches, Bumped
<1>1. g # f /\ Holds(g)
    OBVIOUS
<1>2. watch'[fkey[g]].counter = watch[fkey[g]].counter
    BY <1>1, CountersKept
<1> QED
    BY <1>1, <1>2 DEF CurrentFetches

LEMMA CurrencyInit == Init => CurrencyInv
BY DEF Init, CurrencyInv, BumpedLanded, CurrentFetches, SoundEntries, SoundReads,
       Bumped, Holds

\* A step that leaves every fetch alone, adds no allocation and settles a key
\* only where it leaves no entry keeps what is known of entries.
LEMMA EntriesThinned ==
    ASSUME TypeInv, SoundEntries, UNCHANGED <<fpc, fkey, result>>,
           \A k \in Keys : entry'[k] # NoEntry =>
              /\ entry'[k] = entry[k]
              /\ \A c \in Calls : Settled(c, k)' => Settled(c, k),
           \A c \in Calls : cpc[c] = "done" => cpc'[c] = "done"
    PROVE  SoundEntries' /\ \A a \in Allocs : Spent(a) => Spent(a)'
<1>1. \A a \in Allocs : Spent(a) => Spent(a)'
    BY DEF Spent, Inserted, Allocs
<1>2. SoundEntries'
    <2> SUFFICES ASSUME NEW k \in Keys, entry'[k] # NoEntry
                 PROVE  LET f == entry[k].stamp IN
                        /\ fpc[f] \in {"stored", "rollback", "idle"}
                        /\ fpc[f] # "idle" => fkey[f] = k
                        /\ \A a \in Allocs : a = entry[k].alloc => Spent(a)'
                        /\ fpc[f] = "stored" => result[f] \subseteq entry[k].content
                        /\ fpc[f] = "idle" =>
                             \A c \in Calls : Settled(c, k)' => CallWrite[c] \in entry[k].content
        BY DEF SoundEntries
    <2> QED
        BY <1>1 DEF SoundEntries
<1> QED
    BY <1>1, <1>2

\* A fetch that ends before it inserts keeps everything.
LEMMA CurrencyFinish ==
    ASSUME TypeInv, WatchRefsExact, CurrencyInv, NEW f \in Fetches, ~ Inserted(f),
           Finish(f), watch' = DroppedGuard(f), UNCHANGED <<dir, entry, callVars>>
    PROVE  CurrencyInv'
<1> USE DEF CurrencyInv, callVars
<1>1. BumpedLanded'
    BY DEF BumpedLanded, Bumped
<1>2. /\ fpc'[f] = "idle"
      /\ \A g \in Fetches \ {f} : /\ fpc'[g] = fpc[g] /\ fkey'[g] = fkey[g]
                                   /\ since'[g] = since[g] /\ result'[g] = result[g]
    BY FinishLocals DEF TypeInv
<1>3. NameIsFree(f)
    BY NameUnused
<1>4. SoundEntries' /\ SoundReads'
    BY <1>2, <1>3, EntriesKept
<1>5. ~ Holds(f)' /\ \A g \in Fetches \ {f} : Holds(g)' <=> Holds(g)
    BY <1>2 DEF Holds
<1>6. CurrentFetches'
    BY <1>2, <1>5, FetchesKept
<1> QED
    BY <1>1, <1>4, <1>6

LEMMA CurrencyStep ==
    TypeInv /\ WatchRefsExact /\ CurrencyInv /\ [Next]_vars => CurrencyInv'
<1> SUFFICES ASSUME TypeInv, WatchRefsExact, CurrencyInv, [Next]_vars
             PROVE  CurrencyInv'
    OBVIOUS
<1> USE DEF CurrencyInv, fetchVars, callVars
<1>0. /\ fpc \in [Fetches -> FetchPC] /\ cpc \in [Calls -> CallPC]
      /\ since \in [Fetches -> Nat \cup {WatchUnavailable}]
      /\ result \in [Fetches -> SUBSET Writes]
      /\ left \in [Calls -> SUBSET Keys]
      /\ entry \in [Keys -> Entry \cup {NoEntry}]
      /\ read \in [Calls -> Entry \cup {NoEntry}]
      /\ watch \in WatchType
      /\ fkey \in [Fetches -> Keys] /\ scope \in [Calls -> SUBSET Keys]
    BY DEF TypeInv, TypeOK, WatchType
<1>1. ASSUME NEW f \in Fetches, NEW k \in Keys, GenerationFor(f, k) PROVE CurrencyInv'
    <2>0. /\ NameIsFree(f) /\ UNCHANGED <<dir, entry, callVars>>
          /\ fpc'[f] = "fetching" /\ fkey'[f] = k /\ result'[f] = dir
          /\ \A g \in Fetches \ {f} : /\ fpc'[g] = fpc[g] /\ fkey'[g] = fkey[g]
                                       /\ since'[g] = since[g] /\ result'[g] = result[g]
        BY <1>0, <1>1 DEF GenerationFor
    <2>1. BumpedLanded'
        BY <2>0 DEF BumpedLanded, Bumped
    <2>2. SoundEntries' /\ SoundReads'
        BY <2>0, EntriesKept
    <2>3. CurrentFetches'
        <3>1. ASSUME NEW g \in Fetches \ {f}, Holds(g)'
              PROVE  Holds(g) /\ watch'[fkey[g]].counter = watch[fkey[g]].counter
            <4>2. Holds(g)
                BY <2>0, <3>1 DEF Holds
            <4>3. watch[fkey[g]].refs > 0
                BY <4>2, HolderHasRow
            <4>4. watch'[fkey[g]].counter = watch[fkey[g]].counter
                BY <1>0, <1>1, <4>3 DEF GenerationFor, WatchType
            <4> QED
                BY <4>2, <4>4
        <3>2. Holds(f)' => since'[f] = watch'[k].counter /\ since'[f] \in Nat
            BY <1>0, <1>1 DEF GenerationFor, WatchType, Holds
        <3>4. \A c \in Calls : Bumped(c) => CallWrite[c] \in dir
            BY DEF BumpedLanded
        <3> SUFFICES ASSUME NEW g \in Fetches, Holds(g)'
                     PROVE  /\ since'[g] <= watch'[fkey'[g]].counter
                            /\ since'[g] = watch'[fkey'[g]].counter =>
                                 \A c \in Calls : Bumped(c) /\ fkey'[g] \in scope[c] =>
                                                     CallWrite[c] \in result'[g]
            BY <2>0 DEF CurrentFetches, Bumped
        <3>5. CASE g = f
            BY <2>0, <3>2, <3>4, <3>5
        <3>6. CASE g # f
            BY <2>0, <3>1, <3>6 DEF CurrentFetches
        <3> QED
            BY <3>5, <3>6
    <2> QED
        BY <2>1, <2>2, <2>3
<1>2. ASSUME NEW f \in Fetches, Scan(f) PROVE CurrencyInv'
    <2>1. BumpedLanded'
        BY <1>2 DEF Scan, BumpedLanded, Bumped
    <2>2. SoundEntries' /\ SoundReads'
        <3>1. NameIsFree(f)
            BY <1>2, NameUnused DEF Scan, Inserted
        <3> QED
            BY <1>0, <1>2, <3>1, EntriesKept DEF Scan
    <2>3. /\ \A g \in Fetches : result[g] \subseteq result'[g]
          /\ \A g \in Fetches : Holds(g)' => Holds(g)
          /\ UNCHANGED <<fkey, since, watch, cpc, scope>>
        BY <1>0, <1>2 DEF Scan, Holds
    <2>4. CurrentFetches'
        BY <2>3 DEF CurrentFetches, Bumped
    <2> QED
        BY <2>1, <2>2, <2>4
<1>3. ASSUME NEW f \in Fetches, Abandon(f) \/ Decline(f) PROVE CurrencyInv'
    BY <1>3, CurrencyFinish DEF Abandon, Decline, Inserted
<1>4. ASSUME NEW f \in Fetches, Peek(f) PROVE CurrencyInv'
    <2>0. ~ Inserted(f) /\ UNCHANGED <<dir, entry, callVars>>
        BY <1>4 DEF Peek, Inserted
    <2>1. CASE Finish(f) /\ watch' = DroppedGuard(f)
        BY <2>0, <2>1, CurrencyFinish
    <2>2. CASE /\ Holds(f) /\ fpc' = [fpc EXCEPT ![f] = "checked"]
               /\ UNCHANGED <<watch, fkey, since, result>>
        <3>1. BumpedLanded'
            BY <2>0 DEF BumpedLanded, Bumped
        <3>2. SoundEntries' /\ SoundReads'
            <4>1. NameIsFree(f)
                BY <2>0, NameUnused
            <4> QED
                BY <1>0, <2>0, <2>2, <4>1, EntriesKept
        <3>3. \A g \in Fetches : Holds(g)' => Holds(g)
            BY <1>0, <2>2 DEF Holds
        <3>4. CurrentFetches'
            BY <2>0, <2>2, <3>3 DEF CurrentFetches, Bumped
        <3> QED
            BY <3>1, <3>2, <3>4
    <2> QED
        BY <1>4, <2>1, <2>2 DEF Peek
<1>6. ASSUME NEW f \in Fetches, Store(f) PROVE CurrencyInv'
    <2> DEFINE k == fkey[f]
    <2>0. fpc[f] = "checked" /\ ~ Inserted(f) /\ fpc'[f] = "stored"
          /\ (\A g \in Fetches \ {f} : fpc'[g] = fpc[g])
          /\ UNCHANGED <<dir, watch, fkey, since, result, callVars>>
        BY <1>0, <1>6 DEF Store, Inserted
    <2>1. BumpedLanded'
        BY <2>0 DEF BumpedLanded, Bumped
    <2>2. CurrentFetches'
        BY <2>0 DEF CurrentFetches, Bumped, Holds
    <2>3. \A a \in Allocs : (Spent(a) => a # f /\ Spent(a)') /\ Spent(f)'
        BY <2>0, ConstantsAssumption DEF Spent, Inserted, Allocs
    <2>4. \A j \in Keys : entry'[j] # NoEntry =>
             \/ j = k /\ entry'[j] = [content |-> result[f], stamp |-> f, alloc |-> f]
             \/ entry'[j] = entry[j]
        BY <1>6 DEF Store
    <2>5. SoundEntries'
        <3> SUFFICES ASSUME NEW j \in Keys, entry'[j] # NoEntry
                     PROVE  LET g == entry'[j].stamp IN
                            /\ fpc'[g] \in {"stored", "rollback", "idle"}
                            /\ fpc'[g] # "idle" => fkey[g] = j
                            /\ \A a \in Allocs : a = entry'[j].alloc => Spent(a)'
                            /\ fpc'[g] = "stored" => result[g] \subseteq entry'[j].content
                            /\ fpc'[g] = "idle" =>
                                 \A c \in Calls : Settled(c, j) => CallWrite[c] \in entry'[j].content
            BY <2>0 DEF SoundEntries, Settled, Bumped
        <3>1. CASE j = k /\ entry'[j] = [content |-> result[f], stamp |-> f, alloc |-> f]
            BY <2>0, <2>3, <3>1 DEF Allocs
        <3>2. CASE entry'[j] = entry[j]
            <4>1. entry[j].stamp \in Fetches /\ entry[j].alloc \in Allocs
                BY <1>0, <3>2 DEF Entry
            <4>2. entry[j].stamp # f
                BY <2>0, <3>2 DEF SoundEntries
            <4> QED
                BY <2>0, <2>3, <3>2, <4>1, <4>2 DEF SoundEntries
        <3> QED
            BY <2>4, <3>1, <3>2
    <2>7. \A c \in Calls : PatchKey(c)' = PatchKey(c)
        BY <2>0 DEF PatchKey
    <2>6. SoundReads'
        <3> SUFFICES ASSUME NEW c \in Calls, cpc[c] = "apply"
                     PROVE  /\ \A a \in Allocs : a = read[c].alloc => Spent(a)'
                            /\ SameAlloc(c)' => entry'[PatchKey(c)].content = read[c].content
            BY <2>0, <2>7 DEF SoundReads
        <3>1. read[c].alloc \in Allocs /\ Spent(read[c].alloc)
            BY DEF SoundReads, TypeInv, PatchLocals, Entry
        <3>2. PatchKey(c) \in Keys
            BY PatchKeyIsScope
        <3>3. ASSUME SameAlloc(c)' PROVE entry'[PatchKey(c)] = entry[PatchKey(c)]
            BY <2>0, <2>3, <2>4, <2>7, <3>1, <3>2, <3>3 DEF SameAlloc
        <3> QED
            BY <2>0, <2>3, <2>7, <3>1, <3>3 DEF SoundReads, SameAlloc
    <2> QED
        BY <2>1, <2>2, <2>5, <2>6
<1>7. ASSUME NEW f \in Fetches, Release(f) PROVE CurrencyInv'
    <2> DEFINE k == fkey[f]
    <2>0. /\ fpc[f] = "stored" /\ fpc'[f] \in {"idle", "rollback"}
          /\ fpc'[f] = "idle" => watch[k].counter = since[f]
          /\ fpc'[f] = "rollback" => fkey'[f] = k
          /\ \A g \in Fetches \ {f} : /\ fpc'[g] = fpc[g] /\ fkey'[g] = fkey[g]
                                       /\ since'[g] = since[g] /\ result'[g] = result[g]
          /\ UNCHANGED <<dir, entry, callVars>>
        <3>0. /\ fpc[f] = "stored" /\ UNCHANGED <<dir, entry, callVars>>
              /\ \/ watch[k].counter = since[f] /\ Finish(f)
                 \/ fpc' = [fpc EXCEPT ![f] = "rollback"] /\ LetGo(f) /\ UNCHANGED fkey
            BY <1>7 DEF Release
        <3>1. CASE watch[k].counter = since[f] /\ Finish(f)
            BY <3>0, <3>1, FinishLocals DEF TypeInv
        <3>2. CASE fpc' = [fpc EXCEPT ![f] = "rollback"] /\ LetGo(f) /\ UNCHANGED fkey
            BY <1>0, <3>0, <3>2 DEF LetGo
        <3> QED
            BY <3>0, <3>1, <3>2
    <2>9. /\ Holds(f) /\ ~ Holds(f)'
          /\ \A g \in Fetches \ {f} : Holds(g)' <=> Holds(g)
          /\ watch' = DroppedGuard(f)
        BY <1>7, <2>0 DEF Release, Holds, DroppedGuard, TypeInv, FetchLocals
    <2>1. BumpedLanded'
        BY <2>0 DEF BumpedLanded, Bumped
    <2>2. CurrentFetches'
        BY <2>0, <2>9, FetchesKept
    <2>3. \A a \in Allocs : Spent(a) => Spent(a)'
        BY <2>0 DEF Spent, Inserted, Allocs
    <2>4. SoundEntries'
        <3> SUFFICES ASSUME NEW j \in Keys, entry[j] # NoEntry
                     PROVE  LET g == entry[j].stamp IN
                            /\ fpc'[g] \in {"stored", "rollback", "idle"}
                            /\ fpc'[g] # "idle" => fkey'[g] = j
                            /\ \A a \in Allocs : a = entry[j].alloc => Spent(a)'
                            /\ fpc'[g] = "stored" => result'[g] \subseteq entry[j].content
                            /\ fpc'[g] = "idle" =>
                                 \A c \in Calls : Settled(c, j) => CallWrite[c] \in entry[j].content
            BY <2>0 DEF SoundEntries, Settled, Bumped
        <3>1. entry[j].stamp \in Fetches /\ entry[j].alloc \in Allocs
            BY <1>0 DEF Entry
        <3>2. CASE entry[j].stamp = f
            <4>1. fkey[f] = j /\ result[f] \subseteq entry[j].content
                  /\ \A a \in Allocs : a = entry[j].alloc => Spent(a)
                BY <2>0, <3>2 DEF SoundEntries
            <4>2. ASSUME fpc'[f] = "idle", NEW c \in Calls, Settled(c, j)
                  PROVE  CallWrite[c] \in result[f]
                BY <2>0, <2>9, <4>1, <4>2 DEF CurrentFetches, Settled
            <4> QED
                BY <2>0, <2>3, <3>1, <3>2, <4>1, <4>2
        <3>3. CASE entry[j].stamp # f
            BY <2>0, <2>3, <3>1, <3>3 DEF SoundEntries
        <3> QED
            BY <3>2, <3>3
    <2>5. SoundReads'
        <3>1. \A c \in Calls : cpc[c] = "apply" => read[c].alloc \in Allocs
            BY DEF TypeInv, PatchLocals, Entry
        <3>2. \A c \in Calls : PatchKey(c)' = PatchKey(c)
            BY <2>0 DEF PatchKey
        <3> QED
            BY <2>0, <2>3, <3>1, <3>2 DEF SoundReads, SameAlloc
    <2> QED
        BY <2>1, <2>2, <2>4, <2>5
<1>8. ASSUME NEW f \in Fetches, Rollback(f) PROVE CurrencyInv'
    <2>0. /\ fpc[f] = "rollback" /\ fpc'[f] = "idle"
          /\ \A g \in Fetches \ {f} : /\ fpc'[g] = fpc[g] /\ fkey'[g] = fkey[g]
                                       /\ since'[g] = since[g] /\ result'[g] = result[g]
          /\ UNCHANGED <<dir, watch, callVars>>
        BY <1>8, FinishLocals DEF Rollback, TypeInv
    <2>1. BumpedLanded'
        BY <2>0 DEF BumpedLanded, Bumped
    <2>2. CurrentFetches'
        <3>1. ~ Holds(f)' /\ \A g \in Fetches \ {f} : Holds(g)' <=> Holds(g)
            BY <2>0 DEF Holds
        <3>2. watch' = DroppedGuard(f)
            BY <2>0 DEF DroppedGuard, Holds
        <3> QED
            BY <2>0, <3>1, <3>2, FetchesKept
    <2>3. \A a \in Allocs : Spent(a) => Spent(a)'
        BY <2>0 DEF Spent, Inserted, Allocs
    <2>4. \A j \in Keys : entry'[j] # NoEntry => entry'[j] = entry[j] /\ entry[j].stamp # f
        BY <1>0, <1>8, <2>0 DEF Rollback, SoundEntries
    <2>5. SoundEntries'
        <3> SUFFICES ASSUME NEW j \in Keys, entry'[j] # NoEntry
                     PROVE  LET g == entry[j].stamp IN
                            /\ fpc'[g] \in {"stored", "rollback", "idle"}
                            /\ fpc'[g] # "idle" => fkey'[g] = j
                            /\ \A a \in Allocs : a = entry[j].alloc => Spent(a)'
                            /\ fpc'[g] = "stored" => result'[g] \subseteq entry[j].content
                            /\ fpc'[g] = "idle" =>
                                 \A c \in Calls : Settled(c, j) => CallWrite[c] \in entry[j].content
            BY <2>0, <2>4 DEF SoundEntries, Settled, Bumped
        <3>1. entry[j] # NoEntry /\ entry[j].stamp \in Fetches \ {f} /\ entry[j].alloc \in Allocs
            BY <1>0, <2>4 DEF Entry
        <3> QED
            BY <2>0, <2>3, <3>1 DEF SoundEntries
    <2>6. SoundReads'
        <3>1. \A c \in Calls : cpc[c] = "apply" => read[c].alloc \in Allocs /\ PatchKey(c) \in Keys
            BY PatchKeyIsScope DEF TypeInv, PatchLocals, Entry
        <3>2. \A c \in Calls : PatchKey(c)' = PatchKey(c)
            BY <2>0 DEF PatchKey
        <3> QED
            BY <2>0, <2>3, <2>4, <3>1, <3>2 DEF SoundReads, SameAlloc
    <2> QED
        BY <2>1, <2>2, <2>5, <2>6
<1>9. ASSUME NEW w \in Writes, Land(w) PROVE CurrencyInv'
    <2>0. dir \subseteq dir' /\ UNCHANGED <<entry, watch, fetchVars, callVars>>
        BY <1>9 DEF Land
    <2>1. BumpedLanded'
        BY <2>0 DEF BumpedLanded, Bumped
    <2>2. CurrentFetches'
        BY <2>0 DEF CurrentFetches, Bumped, Holds
    <2>3. SoundEntries' /\ SoundReads'
        BY <2>0 DEF SoundEntries, SoundReads, Spent, Inserted, Settled, Bumped, SameAlloc,
                    PatchKey
    <2> QED
        BY <2>1, <2>2, <2>3
<1>10. ASSUME NEW c \in Calls, NEW keys \in SUBSET Keys, NEW to \in {"dropping", "read"},
              Bump(c, keys, to)
       PROVE  CurrencyInv'
    <2>0. /\ cpc[c] = "idle" /\ cpc'[c] \in {"read", "dropping"}
          /\ left'[c] = keys /\ scope'[c] = keys
          /\ \A d \in Calls \ {c} : cpc'[d] = cpc[d] /\ left'[d] = left[d] /\ scope'[d] = scope[d]
          /\ CallWrite[c] \in dir /\ watch' = BumpedWatches(keys)
          /\ UNCHANGED <<dir, entry, fetchVars, read>>
        BY <1>0, <1>10 DEF Bump
    <2>1. BumpedLanded'
        BY <2>0 DEF BumpedLanded, Bumped
    <2>2. CurrentFetches'
        <3> SUFFICES ASSUME NEW g \in Fetches, Holds(g)
                     PROVE  /\ since[g] <= watch'[fkey[g]].counter
                            /\ since[g] = watch'[fkey[g]].counter =>
                                 \A d \in Calls : Bumped(d)' /\ fkey[g] \in scope'[d] =>
                                                     CallWrite[d] \in result[g]
            BY <2>0 DEF CurrentFetches, Holds
        <3>1. /\ since[g] \in Nat /\ fkey[g] \in Keys
              /\ watch[fkey[g]].refs > 0
              /\ watch[fkey[g]].counter \in Nat
            BY <1>0, HolderHasRow DEF Holds, WatchType
        <3>2. since[g] <= watch[fkey[g]].counter
            BY DEF CurrentFetches
        <3>3. CASE fkey[g] \in keys
            <4>1. watch'[fkey[g]].counter = watch[fkey[g]].counter + 1
                BY <1>0, <2>0, <3>1, <3>3, BumpedWatchRow
            <4> QED
                BY <3>1, <3>2, <4>1
        <3>4. CASE fkey[g] \notin keys
            <4>1. watch'[fkey[g]].counter = watch[fkey[g]].counter
                BY <1>0, <2>0, <3>1, <3>4, BumpedWatchRow
            <4> QED
                BY <2>0, <3>2, <3>4, <4>1 DEF CurrentFetches, Bumped
        <3> QED
            BY <3>3, <3>4
    <2>3. \A k \in Keys, d \in Calls : Settled(d, k)' => Settled(d, k)
        BY <2>0 DEF Settled, Bumped
    <2>4. SoundEntries' /\ \A a \in Allocs : Spent(a) => Spent(a)'
        BY <2>0, <2>3, EntriesThinned
    <2>5. SoundReads'
        <3>1. \A d \in Calls : cpc'[d] = "apply" => cpc[d] = "apply" /\ PatchKey(d)' = PatchKey(d)
            BY <2>0 DEF PatchKey
        <3> QED
            BY <2>0, <2>4, <3>1 DEF SoundReads, SameAlloc
    <2> QED
        BY <2>1, <2>2, <2>4, <2>5
<1>11. ASSUME NEW c \in Calls, NEW kind \in Kinds, DropKind(c, kind) PROVE CurrencyInv'
    <2>0. /\ cpc[c] = "dropping" /\ cpc'[c] \in {"dropping", "done"}
          /\ \A d \in Calls \ {c} : cpc'[d] = cpc[d] /\ left'[d] = left[d]
          /\ UNCHANGED <<dir, watch, fetchVars, scope, read>>
        BY <1>0, <1>11 DEF DropKind
    <2>1. BumpedLanded'
        BY <2>0 DEF BumpedLanded, Bumped
    <2>2. CurrentFetches'
        BY <2>0 DEF CurrentFetches, Bumped, Holds
    <2>3. \A k \in Keys : entry'[k] # NoEntry =>
             entry'[k] = entry[k] /\ \A d \in Calls : Settled(d, k)' => Settled(d, k)
        <3> SUFFICES ASSUME NEW k \in Keys, entry'[k] # NoEntry
                     PROVE  entry'[k] = entry[k] /\ \A d \in Calls : Settled(d, k)' => Settled(d, k)
            OBVIOUS
        <3>1. entry'[k] = entry[k] /\ (k \in left[c] => k \in left'[c])
            BY <1>0, <1>11 DEF DropKind
        <3> QED
            BY <2>0, <3>1 DEF Settled, Bumped
    <2>4. SoundEntries' /\ \A a \in Allocs : Spent(a) => Spent(a)'
        BY <2>0, <2>3, EntriesThinned
    <2>5. SoundReads'
        <3>1. \A d \in Calls : cpc'[d] = "apply" => cpc[d] = "apply" /\ PatchKey(d) \in Keys
            BY <2>0, PatchKeyIsScope
        <3>2. \A d \in Calls : PatchKey(d)' = PatchKey(d)
            BY <2>0 DEF PatchKey
        <3> QED
            BY <2>0, <2>3, <2>4, <3>1, <3>2 DEF SoundReads, SameAlloc
    <2> QED
        BY <2>1, <2>2, <2>4, <2>5
<1>12. ASSUME NEW c \in Calls, PatchLost(c) \/ PatchRefuse(c)
       PROVE CurrencyInv'
    <2>0. /\ cpc[c] = "apply" /\ cpc'[c] \in {"read", "dropping"}
          /\ \A d \in Calls \ {c} : cpc'[d] = cpc[d] /\ read'[d] = read[d]
          /\ UNCHANGED <<dir, entry, watch, fetchVars, scope, left>>
        BY <1>0, <1>12 DEF PatchLost, PatchRefuse, LoopEnds
    <2>1. BumpedLanded'
        BY <2>0 DEF BumpedLanded, Bumped
    <2>2. CurrentFetches'
        BY <2>0 DEF CurrentFetches, Bumped, Holds
    <2>3. \A k \in Keys, d \in Calls : Settled(d, k)' => Settled(d, k)
        BY <2>0 DEF Settled, Bumped
    <2>4. SoundEntries' /\ \A a \in Allocs : Spent(a) => Spent(a)'
        BY <2>0, <2>3, EntriesThinned
    <2>5. SoundReads'
        <3>1. \A d \in Calls : PatchKey(d)' = PatchKey(d)
            BY <2>0 DEF PatchKey
        <3> QED
            BY <2>0, <2>4, <3>1 DEF SoundReads, SameAlloc
    <2> QED
        BY <2>1, <2>2, <2>4, <2>5
<1>13. ASSUME NEW c \in Calls, PatchRead(c) PROVE CurrencyInv'
    <2>0. /\ cpc[c] = "read" /\ cpc'[c] \in {"apply", "dropping"}
          /\ cpc'[c] = "apply" => entry[PatchKey(c)] # NoEntry /\ read'[c] = entry[PatchKey(c)]
          /\ \A d \in Calls \ {c} : cpc'[d] = cpc[d] /\ read'[d] = read[d]
          /\ UNCHANGED <<dir, entry, watch, fetchVars, scope, left>>
        BY <1>0, <1>13 DEF PatchRead, LoopEnds
    <2>1. BumpedLanded'
        BY <2>0 DEF BumpedLanded, Bumped
    <2>2. CurrentFetches'
        BY <2>0 DEF CurrentFetches, Bumped, Holds
    <2>3. \A k \in Keys, d \in Calls : Settled(d, k)' => Settled(d, k)
        BY <2>0 DEF Settled, Bumped
    <2>4. SoundEntries' /\ \A a \in Allocs : Spent(a) => Spent(a)'
        BY <2>0, <2>3, EntriesThinned
    <2>5. SoundReads'
        <3>1. PatchKey(c) \in Keys
            BY <2>0, PatchKeyIsScope
        <3>4. \A d \in Calls : PatchKey(d)' = PatchKey(d)
            BY <2>0 DEF PatchKey
        <3>2. cpc'[c] = "apply" =>
                 /\ \A a \in Allocs : a = read'[c].alloc => Spent(a)'
                 /\ entry'[PatchKey(c)].content = read'[c].content
            BY <2>0, <2>4, <3>1 DEF SoundEntries
        <3>3. \A d \in Calls \ {c} : cpc'[d] = "apply" =>
                 /\ \A a \in Allocs : a = read'[d].alloc => Spent(a)'
                 /\ SameAlloc(d)' => entry'[PatchKey(d)].content = read'[d].content
            BY <2>0, <2>4, <3>4 DEF SoundReads, SameAlloc
        <3> QED
            BY <3>2, <3>3, <3>4 DEF SoundReads
    <2> QED
        BY <2>1, <2>2, <2>4, <2>5
<1>14. ASSUME NEW c \in Calls, PatchLand(c) PROVE CurrencyInv'
    <2> DEFINE k == PatchKey(c)
    <2>0. /\ cpc[c] = "apply" /\ cpc'[c] = "done" /\ left'[c] = {}
          /\ \A d \in Calls \ {c} : cpc'[d] = cpc[d] /\ left'[d] = left[d] /\ read'[d] = read[d]
          /\ UNCHANGED <<dir, watch, fetchVars, scope>>
        BY <1>0, <1>14 DEF PatchLand, LoopEnds
    <2>1. BumpedLanded'
        BY <2>0 DEF BumpedLanded, Bumped
    <2>2. CurrentFetches'
        BY <2>0 DEF CurrentFetches, Bumped, Holds
    <2>3. k \in Keys /\ scope[c] = {k} /\ entry[k] # NoEntry /\ SameAlloc(c)
        BY <2>0, <1>14, PatchKeyIsScope DEF PatchLand, SameAlloc, TypeInv, PatchLocals
    <2>4. entry[k].content = read[c].content
        BY <2>0, <2>3 DEF SoundReads
    <2>5. /\ \A j \in Keys \ {k} : entry'[j] = entry[j]
          /\ entry'[k] # NoEntry /\ entry'[k].stamp = entry[k].stamp
          /\ entry'[k].content = entry[k].content \cup {CallWrite[c]}
          /\ entry'[k].alloc = c \/ entry' = entry
        <3>1. CASE entry' = entry
            <4>1. CallWrite[c] \in read[c].content
                <5>1. CASE UNCHANGED entry /\ CallWrite[c] \in read[c].content
                    BY <5>1
                <5>2. CASE ~ (CallWrite[c] \in read[c].content)
                    <6>1. entry'[k].content = read[c].content \cup {CallWrite[c]}
                        BY <1>0, <1>14, <2>3, <5>2 DEF PatchLand
                    <6> QED
                        BY <2>4, <3>1, <6>1
                <5> QED
                    BY <5>1, <5>2
            <4> QED
                BY <2>3, <2>4, <3>1, <4>1
        <3>2. CASE entry' # entry
            <4>1. entry' = [entry EXCEPT ![k] = [content |-> read[c].content \cup {CallWrite[c]},
                                                 stamp |-> entry[k].stamp, alloc |-> c]]
                BY <1>14, <3>2 DEF PatchLand
            <4>2. [content |-> read[c].content \cup {CallWrite[c]},
                   stamp |-> entry[k].stamp, alloc |-> c] \in Entry
                <5>1. read[c].content \subseteq Writes /\ CallWrite[c] \in Writes
                    BY <2>0, ConstantsAssumption DEF TypeInv, PatchLocals, Entry
                <5>2. entry[k].stamp \in Fetches
                    BY <1>0, <2>3 DEF Entry
                <5> QED
                    BY <5>1, <5>2 DEF Entry, Allocs
            <4> QED
                BY <1>0, <2>3, <2>4, <4>1, <4>2, BoundsAssumption
        <3> QED
            BY <3>1, <3>2
    <2>6. \A a \in Allocs : (Spent(a) => Spent(a)') /\ (a = c => Spent(a)')
        BY <2>0, ConstantsAssumption DEF Spent, Inserted, Allocs
    <2>7. SoundEntries'
        <3> SUFFICES ASSUME NEW j \in Keys, entry'[j] # NoEntry
                     PROVE  LET f == entry'[j].stamp IN
                            /\ fpc[f] \in {"stored", "rollback", "idle"}
                            /\ fpc[f] # "idle" => fkey[f] = j
                            /\ \A a \in Allocs : a = entry'[j].alloc => Spent(a)'
                            /\ fpc[f] = "stored" => result[f] \subseteq entry'[j].content
                            /\ fpc[f] = "idle" =>
                                 \A d \in Calls : Settled(d, j)' => CallWrite[d] \in entry'[j].content
            BY <2>0 DEF SoundEntries
        <3>1. \A d \in Calls : Settled(d, j)' => Settled(d, j) \/ (d = c /\ j = k)
            BY <2>0, <2>3 DEF Settled, Bumped
        <3>2. CASE j = k
            BY <2>3, <2>5, <2>6, <3>1, <3>2 DEF SoundEntries
        <3>3. CASE j # k
            BY <2>5, <2>6, <3>1, <3>3 DEF SoundEntries
        <3> QED
            BY <3>2, <3>3
    <2>9. \A d \in Calls : PatchKey(d)' = PatchKey(d)
        BY <2>0 DEF PatchKey
    <2>8. SoundReads'
        <3> SUFFICES ASSUME NEW d \in Calls, cpc'[d] = "apply"
                     PROVE  /\ \A a \in Allocs : a = read[d].alloc => Spent(a)'
                            /\ SameAlloc(d)' => entry'[PatchKey(d)].content = read[d].content
            BY <2>0, <2>9 DEF SoundReads
        <3>1. d # c /\ cpc[d] = "apply" /\ read[d].alloc \in Allocs /\ PatchKey(d) \in Keys
            BY <2>0, PatchKeyIsScope DEF TypeInv, PatchLocals, Entry
        <3>2. read[d].alloc # c
            BY <2>0, <3>1, ConstantsAssumption DEF SoundReads, Spent
        <3>3. ASSUME SameAlloc(d)' PROVE entry'[PatchKey(d)] = entry[PatchKey(d)]
            BY <2>0, <2>3, <2>5, <2>9, <3>1, <3>2, <3>3 DEF SameAlloc
        <3> QED
            BY <2>0, <2>6, <2>9, <3>1, <3>3 DEF SoundReads, SameAlloc
    <2> QED
        BY <2>1, <2>2, <2>7, <2>8
<1>15. ASSUME NEW k \in Keys, Expire(k) PROVE CurrencyInv'
    <2>0. /\ \A j \in Keys : entry'[j] # NoEntry => entry'[j] = entry[j]
          /\ UNCHANGED <<dir, watch, fetchVars, callVars>>
        BY <1>0, <1>15 DEF Expire
    <2>1. BumpedLanded' /\ CurrentFetches'
        BY <2>0 DEF BumpedLanded, CurrentFetches, Bumped, Holds
    <2>2. \A j \in Keys, d \in Calls : Settled(d, j)' => Settled(d, j)
        BY <2>0 DEF Settled, Bumped
    <2>3. SoundEntries' /\ \A a \in Allocs : Spent(a) => Spent(a)'
        BY <2>0, <2>2, EntriesThinned
    <2>4. SoundReads'
        <3>1. \A d \in Calls : cpc[d] = "apply" => PatchKey(d) \in Keys
            BY PatchKeyIsScope
        <3>2. \A d \in Calls : PatchKey(d)' = PatchKey(d)
            BY <2>0 DEF PatchKey
        <3> QED
            BY <2>0, <2>3, <3>1, <3>2 DEF SoundReads, SameAlloc
    <2> QED
        BY <2>1, <2>3, <2>4
<1>16. CASE UNCHANGED <<dir, entry, watch, fetchVars, callVars>>
    BY <1>16 DEF BumpedLanded, CurrentFetches, SoundEntries, SoundReads,
                 Spent, Inserted, Settled, Bumped, Holds, SameAlloc, PatchKey
<1>17. ASSUME NEW f \in Fetches, FetchStep(f) PROVE CurrencyInv'
    BY <1>2, <1>3, <1>4, <1>6, <1>7, <1>8, <1>17 DEF FetchStep
<1>18. ASSUME NEW c \in Calls, CallStep(c) PROVE CurrencyInv'
    BY <1>11, <1>12, <1>13, <1>14, <1>18 DEF CallStep
<1> HIDE DEF CurrencyInv
<1> QED
    BY <1>1, <1>9, <1>10, <1>15, <1>16, <1>17, <1>18, StartsAreKeys DEF Next, vars

-----------------------------------------------------------------------------
(* The theorems.                                                           *)

\* The inductive invariant.
THEOREM Invariance == Spec => []Inv
<1>1. Init => Inv
    <2>1. Init => WatchRefsExact
        <3> SUFFICES ASSUME Init, NEW k \in Keys PROVE watch[k].refs = Cardinality(Holders(k))
            BY DEF WatchRefsExact, Holders
        <3>1. Holders(k) = {}
            BY DEF Init, Holders, Holds
        <3> QED
            BY <3>1, FS_EmptySet DEF Init
    <2> QED
        BY <2>1, TypeInit, CurrencyInit DEF Inv
<1>2. Inv /\ [Next]_vars => Inv'
    BY TypeStep, RefsStep, CurrencyStep DEF Inv
<1> QED
    BY <1>1, <1>2, PTL DEF Spec

\* Store-after-invalidate is impossible: whatever fetches, invalidations,
\* patches and evictions run, in whatever order, an entry that misses a write
\* whose invalidation of its key is over belongs to a store in flight.
THEOREM NoStaleEntry == Spec => []NoStaleEntryAtRest
<1>1. Inv => NoStaleEntryAtRest
    BY DEF Inv, CurrencyInv, SoundEntries, NoStaleEntryAtRest, Stale, InFlight
<1> QED
    BY <1>1, Invariance, PTL

\* A stale store in flight has already lost: its second look will see a
\* counter other than the one it started from.
THEOREM StaleStoreDoomed == Spec => []StaleStoreIsDoomed
<1>1. Inv => StaleStoreIsDoomed
    <2> SUFFICES ASSUME Inv, NEW k \in Keys, Stale(k), fpc[entry[k].stamp] = "stored"
                 PROVE  watch[k].counter # since[entry[k].stamp]
        BY DEF StaleStoreIsDoomed
    <2> DEFINE f == entry[k].stamp
    <2>1. f \in Fetches /\ fkey[f] = k /\ result[f] \subseteq entry[k].content
        BY DEF Inv, TypeInv, TypeOK, Entry, CurrencyInv, SoundEntries, Stale
    <2>2. Holds(f)
        BY <2>1 DEF Inv, TypeInv, FetchLocals, Holds
    <2>3. PICK c \in Calls : Settled(c, k) /\ CallWrite[c] \notin entry[k].content
        BY DEF Stale
    <2> QED
        BY <2>1, <2>2, <2>3 DEF Inv, CurrencyInv, CurrentFetches, Settled
<1> QED
    BY <1>1, Invariance, PTL

\* The watch table counts the live guards exactly, so it drains and a fetch
\* never loses the row its proof of currency rests on.
THEOREM WatchTableExact == Spec => []WatchRefsExact
<1>1. Inv => WatchRefsExact
    BY DEF Inv
<1> QED
    BY <1>1, Invariance, PTL

-----------------------------------------------------------------------------
(* What a step may not do.                                                 *)

\* A rollback removes the entry its own store made and no other, whatever other
\* fetch has stored under the key since (Bucket::remove_if_stamp).
THEOREM RollbacksSpareOthers == Spec => RollbackSparesOthers
<1>1. TypeInv /\ [Next]_vars =>
        [\A f \in Fetches : fpc[f] = "rollback" /\ fpc'[f] # "rollback" =>
            \A k \in Keys : entry[k] # NoEntry /\ entry[k].stamp # f =>
                                entry'[k] = entry[k]]_vars
    <2> SUFFICES ASSUME TypeInv, [Next]_vars, NEW f \in Fetches,
                        fpc[f] = "rollback", fpc'[f] # "rollback",
                        NEW k \in Keys, entry[k] # NoEntry, entry[k].stamp # f
                 PROVE  entry'[k] = entry[k]
        OBVIOUS
    <2>1. fpc \in [Fetches -> FetchPC] /\ entry \in [Keys -> Entry \cup {NoEntry}]
        BY DEF TypeInv, TypeOK
    <2>2. \A g \in Fetches : FetchStep(g) \/ (\E j \in FetchKeys[g] : GenerationFor(g, j))
                               => g = f
        BY <2>1 DEF FetchStep, GenerationFor, Scan, Abandon, Peek, Store, Decline,
                    Release, Rollback, Finish
    <2>3. Rollback(f)
        BY <2>1, <2>2 DEF Next, FetchStep, GenerationFor, Scan, Abandon, Peek,
              Store, Decline, Release, CallStep, Land, Bump, DropKind, PatchRead,
              PatchLand, PatchLost, PatchRefuse, Expire, vars, fetchVars
    <2> QED
        BY <2>1, <2>3 DEF Rollback
<1>2. Spec => []TypeInv
    BY TypeInit, TypeStep, PTL DEF Spec
<1> QED
    BY <1>1, <1>2, PTL DEF Spec, RollbackSparesOthers

\* A patch that lands swaps the allocation it read, so that no entry loses what
\* it reflected, and the patched one keeps the stamp of its store.
THEOREM PatchesLoseNothing == Spec => PatchLosesNothing
<1>1. Inv /\ [Next]_vars =>
        [\A c \in Calls : cpc[c] = "apply" /\ cpc'[c] = "done" =>
            \A k \in Keys : entry[k] # NoEntry =>
                /\ entry'[k] # NoEntry
                /\ entry[k].content \subseteq entry'[k].content
                /\ entry[k].stamp = entry'[k].stamp]_vars
    <2> SUFFICES ASSUME Inv, [Next]_vars, NEW c \in Calls,
                        cpc[c] = "apply", cpc'[c] = "done",
                        NEW k \in Keys, entry[k] # NoEntry
                 PROVE  /\ entry'[k] # NoEntry
                        /\ entry[k].content \subseteq entry'[k].content
                        /\ entry[k].stamp = entry'[k].stamp
        OBVIOUS
    <2>1. /\ cpc \in [Calls -> CallPC] /\ entry \in [Keys -> Entry \cup {NoEntry}]
          /\ read[c] \in Entry /\ CallWrite[c] \in Writes
        BY ConstantsAssumption DEF Inv, TypeInv, TypeOK, PatchLocals
    <2>2. PatchLand(c)
        <3>1. \A d \in Calls : CallStep(d) => d = c
            BY <2>1 DEF CallStep, DropKind, PatchRead, PatchLand, PatchLost, PatchRefuse
        <3> QED
            BY <2>1, <3>1 DEF Next, FetchStep, GenerationFor, Scan, Abandon, Peek,
                  Store, Decline, Release, Rollback, CallStep, Land, Bump, DropKind,
                  PatchRead, PatchLost, PatchRefuse, Expire, vars, callVars
    <2>3. PatchKey(c) \in Keys
        BY PatchKeyIsScope DEF Inv
    <2>4. SameAlloc(c) /\ entry[PatchKey(c)].content = read[c].content
        BY <2>1, <2>2 DEF PatchLand, Inv, CurrencyInv, SoundReads
    <2>5. entry[PatchKey(c)] \in Entry
        BY <2>1, <2>3, <2>4 DEF SameAlloc
    <2>6. CASE entry' = entry
        BY <2>6
    <2>7. CASE entry' = [entry EXCEPT ![PatchKey(c)] =
                           [content |-> read[c].content \cup {CallWrite[c]},
                            stamp |-> @.stamp, alloc |-> c]]
        <3> DEFINE e == [content |-> read[c].content \cup {CallWrite[c]},
                         stamp |-> entry[PatchKey(c)].stamp, alloc |-> c]
        <3>1. e \in Entry
            BY <2>1, <2>5 DEF Entry, Allocs
        <3>2. e # NoEntry
            BY <3>1, BoundsAssumption
        <3>3. entry'[PatchKey(c)] = e /\ (k # PatchKey(c) => entry'[k] = entry[k])
            BY <2>1, <2>3, <2>7
        <3>4. CASE k = PatchKey(c)
            BY <2>4, <3>2, <3>3, <3>4
        <3>5. CASE k # PatchKey(c)
            BY <3>3, <3>5
        <3> QED
            BY <3>4, <3>5
    <2> QED
        BY <2>2, <2>6, <2>7 DEF PatchLand
<1> QED
    BY <1>1, Invariance, PTL DEF Spec, PatchLosesNothing

-----------------------------------------------------------------------------
(* The refinement.                                                         *)

\* What a call has yet to drop is in its scope.
LeftInScope == \A c \in Calls : left[c] \subseteq scope[c]

LEMMA LeftStep == TypeInv /\ LeftInScope /\ [Next]_vars => LeftInScope'
<1> SUFFICES ASSUME TypeInv, LeftInScope, [Next]_vars, NEW c \in Calls
             PROVE  left'[c] \subseteq scope'[c]
    BY DEF LeftInScope
<1>1. /\ left \in [Calls -> SUBSET Keys] /\ scope \in [Calls -> SUBSET Keys]
      /\ left[c] \subseteq scope[c]
    BY DEF TypeInv, TypeOK, LeftInScope
<1>2. ASSUME NEW d \in Calls, NEW keys, NEW to, Bump(d, keys, to)
      PROVE  left'[c] \subseteq scope'[c]
    BY <1>1, <1>2 DEF Bump
<1>3. ASSUME NEW d \in Calls, NEW kind \in Kinds, DropKind(d, kind)
      PROVE  left'[c] \subseteq scope'[c]
    BY <1>1, <1>3 DEF DropKind
<1>4. ASSUME NEW d \in Calls, PatchLand(d) PROVE left'[c] \subseteq scope'[c]
    BY <1>1, <1>4 DEF PatchLand
<1>5. CASE UNCHANGED <<scope, left>>
    BY <1>1, <1>5
<1> QED
    BY <1>2, <1>3, <1>4, <1>5
    DEF Next, FetchStep, GenerationFor, Scan, Abandon, Peek, Store, Decline, Release,
        Rollback, CallStep, Land, PatchRead, PatchLost, PatchRefuse,
        Expire, vars, callVars

\* A step that settles nothing leaves the acknowledged writes as they are.
LEMMA AckedKept ==
    ASSUME \A c \in Calls, k \in Keys : Settled(c, k)' <=> Settled(c, k)
    PROVE  Acked' = Acked
BY DEF Acked

\* A call that finishes with some keys acknowledges its write there.
LEMMA AckedGrows ==
    ASSUME NEW c \in Calls, NEW S,
           \A d \in Calls, k \in Keys :
              Settled(d, k)' <=> Settled(d, k) \/ (d = c /\ k \in S)
    PROVE  Acked' = [k \in Keys |-> IF k \in S THEN Acked[k] \cup {CallWrite[c]}
                                              ELSE Acked[k]]
<1> SUFFICES ASSUME NEW k \in Keys
             PROVE  Acked'[k] = IF k \in S THEN Acked[k] \cup {CallWrite[c]} ELSE Acked[k]
    BY DEF Acked
<1>1. CASE k \in S
    <2>1. {d \in Calls : Settled(d, k)'} = {d \in Calls : Settled(d, k)} \cup {c}
        BY <1>1
    <2> QED
        BY <1>1, <2>1 DEF Acked
<1>2. CASE k \notin S
    BY <1>2 DEF Acked
<1> QED
    BY <1>1, <1>2

\* Entries that stay, of stores that are as far as they were, show the same.
LEMMA ShownKept ==
    ASSUME \A k \in Keys : entry'[k] = entry[k],
           \A k \in Keys : entry[k] # NoEntry => (InFlight(entry[k])' <=> InFlight(entry[k]))
    PROVE  Shown' = Shown
BY DEF Shown, InFlight

\* A step of a fetch whose name nothing carries is not seen.
LEMMA QuietFetch ==
    ASSUME Inv, NEW f \in Fetches, NameIsFree(f), UNCHANGED <<entry, cpc, scope, left>>,
           \A g \in Fetches \ {f} : fpc'[g] = fpc[g]
    PROVE  UNCHANGED <<Shown, Acked>>
<1>1. \A k \in Keys : entry[k] # NoEntry => entry[k].stamp \in Fetches \ {f}
    BY DEF Inv, TypeInv, TypeOK, Entry, NameIsFree
<1>2. Shown' = Shown
    BY <1>1, ShownKept DEF InFlight
<1>3. Acked' = Acked
    BY AckedKept DEF Settled, Bumped
<1> QED
    BY <1>2, <1>3

\* Every step of the guarded cache is a step of the abstract one, or not seen.
LEMMA CurrencySteps ==
    Inv /\ LeftInScope /\ Inv' /\ [Next]_vars => [Currency!CNext]_Currency!cvars
<1> SUFFICES ASSUME Inv, LeftInScope, Inv', [Next]_vars
             PROVE  Currency!CNext \/ UNCHANGED <<Shown, Acked>>
    BY DEF Currency!cvars
<1> USE DEF fetchVars, callVars
<1>0. /\ fpc \in [Fetches -> FetchPC] /\ cpc \in [Calls -> CallPC]
      /\ left \in [Calls -> SUBSET Keys] /\ fkey \in [Fetches -> Keys]
      /\ scope \in [Calls -> SUBSET Keys]
      /\ entry \in [Keys -> Entry \cup {NoEntry}]
      /\ entry' \in [Keys -> Entry \cup {NoEntry}]
      /\ \A k \in Keys : entry[k] # NoEntry =>
            /\ entry[k].stamp \in Fetches
            /\ fpc[entry[k].stamp] \in {"stored", "rollback", "idle"}
            /\ fpc[entry[k].stamp] # "idle" => fkey[entry[k].stamp] = k
            /\ entry[k].content \subseteq Writes
    BY DEF Inv, TypeInv, TypeOK, Entry, CurrencyInv, SoundEntries
<1>1. ASSUME NEW f \in Fetches,
             \/ \E k \in FetchKeys[f] : GenerationFor(f, k)
             \/ Scan(f) \/ Abandon(f) \/ Peek(f) \/ Decline(f)
      PROVE  UNCHANGED <<Shown, Acked>>
    <2>1. /\ UNCHANGED <<entry, cpc, scope, left>>
          /\ \A g \in Fetches \ {f} : fpc'[g] = fpc[g]
        BY <1>0, <1>1 DEF GenerationFor, Scan, Abandon, Peek, Decline, Finish
    <2>2. CASE \E k \in FetchKeys[f] : GenerationFor(f, k)
        BY <2>1, <2>2, QuietFetch DEF GenerationFor
    <2>3. CASE Scan(f) \/ Abandon(f) \/ Peek(f) \/ Decline(f)
        <3>1. NameIsFree(f)
            BY <2>3, NameUnused DEF Scan, Abandon, Peek, Decline, Inserted, Inv, CurrencyInv
        <3> QED
            BY <2>1, <3>1, QuietFetch
    <2> QED
        BY <1>1, <2>2, <2>3
<1>2. ASSUME NEW f \in Fetches, Store(f) PROVE Currency!Evict
    <2> DEFINE k == fkey[f]
    <2>1. PICK gone \in SUBSET {j \in Keys : KindOf[j] = KindOf[k]} :
            entry' = [j \in Keys |->
                        IF j \in gone THEN NoEntry
                        ELSE IF j = k
                             THEN [content |-> result[f], stamp |-> f, alloc |-> f]
                             ELSE entry[j]]
        BY <1>2 DEF Store
    <2>2. /\ fpc[f] = "checked" /\ fpc'[f] = "stored" /\ UNCHANGED <<cpc, scope, left>>
          /\ \A g \in Fetches \ {f} : fpc'[g] = fpc[g]
        BY <1>0, <1>2 DEF Store
    <2>3. \A j \in Keys : Shown'[j] = IF j \in gone \cup {k} THEN NoEntry ELSE Shown[j]
        <3> TAKE j \in Keys
        <3>1. CASE j \in gone
            BY <2>1, <3>1 DEF Shown
        <3>2. CASE j = k /\ j \notin gone
            BY <2>1, <2>2, <3>2 DEF Shown, InFlight
        <3>3. CASE j # k /\ j \notin gone
            BY <1>0, <2>1, <2>2, <3>3 DEF Shown, InFlight
        <3> QED
            BY <3>1, <3>2, <3>3
    <2>4. Shown' = [j \in Keys |-> IF j \in gone \cup {k} THEN NoEntry ELSE Shown[j]]
        BY <2>3 DEF Shown
    <2>5. gone \cup {k} \in SUBSET Keys
        BY <1>0
    <2>6. Acked' = Acked
        BY <2>2, AckedKept DEF Settled, Bumped
    <2> QED
        BY <2>4, <2>5, <2>6 DEF Currency!Evict
<1>3. ASSUME NEW f \in Fetches, Release(f)
      PROVE  UNCHANGED <<Shown, Acked>> \/ Currency!Fill(fkey[f])
    <2> DEFINE k == fkey[f]
    <2>1. /\ k \in Keys /\ UNCHANGED <<entry, cpc, scope, left>>
          /\ fpc[f] = "stored" /\ fpc'[f] \in {"idle", "rollback"}
          /\ \A g \in Fetches \ {f} : fpc'[g] = fpc[g]
        BY <1>0, <1>3 DEF Release, Finish
    <2>2. Acked' = Acked
        BY <2>1, AckedKept DEF Settled, Bumped
    <2>3. CASE fpc'[f] = "idle" /\ entry[k] # NoEntry /\ entry[k].stamp = f
        <3>1. \A j \in Keys : Shown'[j] = IF j = k THEN entry[k].content ELSE Shown[j]
            BY <1>0, <2>1, <2>3 DEF Shown, InFlight
        <3>2. Shown' = [Shown EXCEPT ![k] = entry[k].content]
            BY <2>1, <3>1 DEF Shown
        <3>3. Acked[k] \subseteq entry[k].content
            <4>1. \A c \in Calls : Settled(c, k) => CallWrite[c] \in entry[k].content
                BY <2>1, <2>3 DEF Inv, CurrencyInv, SoundEntries, Settled, Bumped
            <4> QED
                BY <2>1, <4>1 DEF Acked
        <3> QED
            BY <1>0, <2>1, <2>2, <2>3, <3>2, <3>3 DEF Currency!Fill
    <2>4. CASE ~(fpc'[f] = "idle" /\ entry[k] # NoEntry /\ entry[k].stamp = f)
        <3>1. ASSUME NEW j \in Keys, entry[j] # NoEntry
              PROVE  InFlight(entry[j])' <=> InFlight(entry[j])
            <4>1. entry'[j] = entry[j]
                BY <2>1
            <4>2. CASE entry[j].stamp # f
                BY <1>0, <2>1, <3>1, <4>1, <4>2 DEF InFlight
            <4>3. CASE entry[j].stamp = f
                <5>1. j = k /\ fpc[f] = "stored"
                    BY <1>0, <2>1, <3>1, <4>3
                <5>2. fpc'[f] = "rollback"
                    BY <2>1, <2>4, <3>1, <4>3, <5>1
                <5> QED
                    BY <4>1, <4>3, <5>1, <5>2 DEF InFlight
            <4> QED
                BY <4>2, <4>3
        <3> QED
            BY <2>1, <2>2, <3>1, ShownKept
    <2> QED
        BY <2>3, <2>4
<1>4. ASSUME NEW f \in Fetches, Rollback(f) PROVE UNCHANGED <<Shown, Acked>>
    <2>1. /\ fpc[f] = "rollback" /\ UNCHANGED <<cpc, scope, left>>
          /\ fpc'[f] = "idle"
          /\ \A g \in Fetches \ {f} : fpc'[g] = fpc[g]
          /\ \A j \in Keys : entry'[j] = IF entry[j] # NoEntry /\ entry[j].stamp = f
                                         THEN NoEntry ELSE entry[j]
        BY <1>0, <1>4 DEF Rollback, Finish
    <2>2. \A j \in Keys : Shown'[j] = Shown[j]
        BY <1>0, <2>1 DEF Shown, InFlight
    <2>3. Shown' = Shown
        BY <2>2 DEF Shown
    <2>4. Acked' = Acked
        BY <2>1, AckedKept DEF Settled, Bumped
    <2> QED
        BY <2>3, <2>4
<1>5. ASSUME NEW c \in Calls, NEW kind \in Kinds, DropKind(c, kind)
      PROVE  Currency!Invalidate
    <2> DEFINE mine == {k \in left[c] : KindOf[k] = kind}
    <2>1. /\ mine \subseteq Keys /\ UNCHANGED <<fpc, scope>>
          /\ left' = [left EXCEPT ![c] = @ \ mine]
          /\ cpc[c] = "dropping" /\ cpc'[c] # "idle"
          /\ \A d \in Calls \ {c} : cpc'[d] = cpc[d]
          /\ entry' = [k \in Keys |-> IF k \in mine THEN NoEntry ELSE entry[k]]
        BY <1>0, <1>5 DEF DropKind
    <2>2. mine \subseteq scope[c]
        BY DEF LeftInScope
    <2>3. \A d \in Calls, k \in Keys :
             Settled(d, k)' <=> Settled(d, k) \/ (d = c /\ k \in mine)
        BY <1>0, <2>1, <2>2 DEF Settled, Bumped
    <2>4. Acked' = [k \in Keys |-> IF k \in mine THEN Acked[k] \cup {CallWrite[c]}
                                                ELSE Acked[k]]
        BY <2>3, AckedGrows
    <2>5. Shown' = [k \in Keys |-> IF k \in mine THEN NoEntry ELSE Shown[k]]
        BY <2>1 DEF Shown, InFlight
    <2>6. CallWrite[c] \in Writes /\ mine \in SUBSET Keys
        BY <2>1, ConstantsAssumption
    <2> QED
        BY <2>4, <2>5, <2>6 DEF Currency!Invalidate
<1>6. ASSUME NEW c \in Calls,
             PatchRead(c) \/ PatchLost(c) \/ PatchRefuse(c)
      PROVE  UNCHANGED <<Shown, Acked>>
    <2>1. /\ UNCHANGED <<entry, fpc, scope, left>>
          /\ \A d \in Calls : cpc'[d] = "idle" <=> cpc[d] = "idle"
        BY <1>0, <1>6 DEF PatchRead, PatchLost, PatchRefuse
    <2>2. Shown' = Shown
        BY <2>1 DEF Shown, InFlight
    <2>3. Acked' = Acked
        BY <2>1, AckedKept DEF Settled, Bumped
    <2> QED
        BY <2>2, <2>3
<1>7. ASSUME NEW c \in Calls, NEW keys, NEW to, Bump(c, keys, to)
      PROVE  UNCHANGED <<Shown, Acked>>
    <2>1. /\ UNCHANGED <<entry, fpc>>
          /\ cpc[c] = "idle" /\ left'[c] = keys /\ scope'[c] = keys
          /\ \A d \in Calls \ {c} : cpc'[d] = cpc[d] /\ left'[d] = left[d] /\ scope'[d] = scope[d]
        BY <1>0, <1>7 DEF Bump
    <2>2. Shown' = Shown
        BY <2>1 DEF Shown, InFlight
    <2>3. Acked' = Acked
        BY <2>1, AckedKept DEF Settled, Bumped
    <2> QED
        BY <2>2, <2>3
<1>8. ASSUME NEW c \in Calls, PatchLand(c)
      PROVE  Currency!Invalidate \/ Currency!Patch(PatchKey(c))
    <2> DEFINE k == PatchKey(c)
    <2>0. cpc[c] = "apply" /\ SameAlloc(c)
        BY <1>8 DEF PatchLand
    <2>1. /\ k \in Keys /\ scope[c] = {k} /\ left[c] = {k}
          /\ read[c] \in Entry /\ entry[k].content = read[c].content
        BY <2>0, PatchKeyIsScope
        DEF Inv, TypeInv, PatchLocals, CurrencyInv, SoundReads
    <2>2. /\ UNCHANGED <<fpc, scope>> /\ left'[c] = {} /\ cpc'[c] = "done"
          /\ \A d \in Calls \ {c} : cpc'[d] = cpc[d] /\ left'[d] = left[d]
        BY <1>0, <1>8 DEF PatchLand
    <2>3. /\ \A j \in Keys \ {k} : entry'[j] = entry[j]
          /\ entry[k] # NoEntry /\ entry'[k] # NoEntry
          /\ entry'[k].stamp = entry[k].stamp
          /\ entry'[k].content = entry[k].content \cup {CallWrite[c]}
        <3>1. CASE entry' = entry /\ CallWrite[c] \in read[c].content
            BY <2>0, <2>1, <3>1 DEF SameAlloc
        <3>2. CASE entry' = [entry EXCEPT ![k] =
                               [content |-> read[c].content \cup {CallWrite[c]},
                                stamp |-> @.stamp, alloc |-> c]]
            <4> DEFINE e == [content |-> read[c].content \cup {CallWrite[c]},
                             stamp |-> entry[k].stamp, alloc |-> c]
            <4>1. e \in Entry
                BY <1>0, <2>0, <2>1, ConstantsAssumption DEF Entry, Allocs, SameAlloc
            <4>2. e # NoEntry /\ entry'[k] = e
                BY <1>0, <2>1, <3>2, <4>1, BoundsAssumption
            <4> QED
                BY <1>0, <2>0, <2>1, <3>2, <4>2 DEF SameAlloc
        <3> QED
            BY <1>8, <3>1, <3>2 DEF PatchLand
    <2>4. \A d \in Calls, j \in Keys :
             Settled(d, j)' <=> Settled(d, j) \/ (d = c /\ j \in {k})
        BY <1>0, <2>0, <2>1, <2>2 DEF Settled, Bumped
    <2>5. Acked' = [j \in Keys |-> IF j \in {k} THEN Acked[j] \cup {CallWrite[c]}
                                              ELSE Acked[j]]
        BY <2>4, AckedGrows
    <2>6. CallWrite[c] \in Writes
        BY ConstantsAssumption
    <2>7. CASE InFlight(entry[k])
        <3>1. \A j \in Keys : Shown'[j] = IF j \in {k} THEN NoEntry ELSE Shown[j]
            BY <2>2, <2>3, <2>7 DEF Shown, InFlight
        <3>2. Shown' = [j \in Keys |-> IF j \in {k} THEN NoEntry ELSE Shown[j]]
            BY <3>1 DEF Shown
        <3> QED
            BY <2>1, <2>5, <2>6, <3>2 DEF Currency!Invalidate
    <2>8. CASE ~InFlight(entry[k])
        <3>1. \A j \in Keys : Shown'[j] = IF j = k THEN Shown[k] \cup {CallWrite[c]}
                                                   ELSE Shown[j]
            BY <2>1, <2>2, <2>3, <2>8 DEF Shown, InFlight
        <3>2. Shown' = [Shown EXCEPT ![k] = @ \cup {CallWrite[c]}]
            BY <2>1, <3>1 DEF Shown
        <3>3. Acked' = [Acked EXCEPT ![k] = @ \cup {CallWrite[c]}]
            BY <2>1, <2>5 DEF Acked
        <3>4. Shown[k] # NoEntry
            BY <1>0, <2>1, <2>3, <2>8, BoundsAssumption DEF Shown
        <3> QED
            BY <2>6, <3>2, <3>3, <3>4 DEF Currency!Patch
    <2> QED
        BY <2>7, <2>8
<1>9. ASSUME NEW k \in Keys, Expire(k) PROVE Currency!Evict
    <2>1. UNCHANGED <<fpc, cpc, scope, left>> /\ entry' = [entry EXCEPT ![k] = NoEntry]
        BY <1>9 DEF Expire
    <2>2. \A j \in Keys : Shown'[j] = IF j \in {k} THEN NoEntry ELSE Shown[j]
        BY <1>0, <2>1 DEF Shown, InFlight
    <2>3. Shown' = [j \in Keys |-> IF j \in {k} THEN NoEntry ELSE Shown[j]]
        BY <2>2 DEF Shown
    <2>4. Acked' = Acked
        BY <2>1, AckedKept DEF Settled, Bumped
    <2> QED
        BY <2>3, <2>4 DEF Currency!Evict
<1>10. CASE UNCHANGED <<entry, fpc, cpc, scope, left>>
    BY <1>10, ShownKept, AckedKept DEF InFlight, Settled, Bumped
<1>11. \A f \in Fetches : fkey[f] \in Keys
    BY <1>0
<1>12. \A c \in Calls : PatchLand(c) => PatchKey(c) \in Keys
    BY PatchKeyIsScope DEF PatchLand, Inv, TypeInv, PatchLocals
<1>13. ASSUME NEW f \in Fetches,
             FetchStep(f) \/ \E k \in FetchKeys[f] : GenerationFor(f, k)
       PROVE  Currency!CNext \/ UNCHANGED <<Shown, Acked>>
    BY <1>1, <1>2, <1>3, <1>4, <1>11, <1>13 DEF FetchStep, Currency!CNext
<1>14. ASSUME NEW c \in Calls,
             \/ CallStep(c)
             \/ \E keys \in Sweeps[c] : Bump(c, keys, "dropping")
             \/ \E k \in Patches[c] : Bump(c, {k}, "read")
       PROVE  Currency!CNext \/ UNCHANGED <<Shown, Acked>>
    BY <1>5, <1>6, <1>7, <1>8, <1>12, <1>14 DEF CallStep, Currency!CNext
<1>15. ASSUME NEW k \in Keys, Expire(k) PROVE Currency!CNext
    BY <1>9, <1>15 DEF Currency!CNext
<1>16. CASE (\E w \in Writes : Land(w)) \/ UNCHANGED vars
    BY <1>10, <1>16 DEF Land, vars
<1> QED
    BY <1>13, <1>14, <1>15, <1>16 DEF Next

\* The guarded store, the invalidations and the patches implement a cache that
\* never shows anything older than an invalidation that is over.
THEOREM CacheIsCurrent == Spec => ImplementsCurrency
<1>1. Init => Currency!CInit
    <2> SUFFICES ASSUME Init PROVE Currency!CInit
        OBVIOUS
    <2>1. Shown = [k \in Keys |-> NoEntry]
        BY DEF Init, Shown
    <2>2. \A k \in Keys, c \in Calls : ~Settled(c, k)
        BY DEF Init, Settled, Bumped
    <2>3. Acked = [k \in Keys |-> {}]
        BY <2>2 DEF Acked
    <2> QED
        BY <2>1, <2>3 DEF Currency!CInit
<1>2. Spec => []LeftInScope
    <2>1. Init => LeftInScope
        BY DEF Init, LeftInScope
    <2>2. Inv => TypeInv
        BY DEF Inv
    <2> QED
        BY <2>1, <2>2, LeftStep, Invariance, PTL DEF Spec
<1> QED
    BY <1>1, <1>2, CurrencySteps, Invariance, PTL
    DEF Spec, ImplementsCurrency, Currency!CSpec

=============================================================================
