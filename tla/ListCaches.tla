----------------------------- MODULE ListCaches -----------------------------
(***************************************************************************)
(* The tenant-wide lists of the desktop back end and what keeps them       *)
(* current: commands/applications/cache.rs, scan_app_list, and the lists   *)
(* built from its indexes (Enterprise Applications, the search corpus,     *)
(* Managed Identities).                                                    *)
(*                                                                         *)
(* Two collections of the directory are scanned, /servicePrincipals and    *)
(* /applications.  Four cache entries come from a scan; three more are     *)
(* derived from the indexes.  A reader is one command that wants one list. *)
(* Its accessors call each other, so a reader is a tree of nodes, and the  *)
(* children of a node run concurrently (futures::join):                    *)
(*                                                                         *)
(*     main --+-- sp              (sp_index_cached)                        *)
(*            +-- app --- pair    (app_name_index_cached, and the          *)
(*                                 sp_index_cached that its scan joins)    *)
(*                                                                         *)
(* A mutation is a write to the directory followed by one tier of          *)
(* invalidation, key by key.  The guarded store and the patch are those of *)
(* IndexCache; here a watch is the set of its keys that were bumped, and a *)
(* patch that lands does so in one step.                                   *)
(*                                                                         *)
(* A definition whose comment begins with "Fault:" is a seeded bug, never  *)
(* part of Next.                                                           *)
(***************************************************************************)
EXTENDS Naturals, Sequences

CONSTANTS
    Readers,      \* commands that read lists, one read at a time
    Requests,     \* [Readers -> SUBSET Keys]: the lists each may ask for
    Mutations,    \* directory writes that returned Ok
    Tiers,        \* the invalidation tiers that may follow one
    Base,         \* what the directory held at launch
    MaxFailures,  \* scans that may fail
    NoEntry,      \* no entry under a key
    Free          \* nobody holds a gate

Scanned == {"apps_pairing", "app_name_index", "credential_expirations"}
Derived == {"enterprise", "search_corpus", "mi"}
Keys == Scanned \cup Derived \cup {"sp_index"}
Gates == {"sp_index", "apps_pairing", "search_corpus"}
Roles == {"main", "sp", "app", "pair"}
Nodes == Readers \X Roles
Effects == Mutations \cup {Base}
Entries == [seen : SUBSET Effects, by : Nodes \cup {Free}, tainted : BOOLEAN]

ASSUME ListsAssumption ==
    /\ Requests \in [Readers -> SUBSET Keys]
    /\ Tiers \subseteq {"lists", "credentials", "created", "deleted", "renamed"}
    /\ Base \notin Mutations
    /\ MaxFailures \in Nat
    /\ Free \notin Nodes
    /\ NoEntry \notin Entries

VARIABLES
    dir,      \* the effects that have landed in the directory
    cache,    \* [Keys -> Entries or NoEntry]; by is the node whose store may
              \* still be taken back
    gate,     \* [Gates -> Nodes or Free]: AppState::single_flight
    want,     \* the list each reader asks for
    pc,       \* where each node is
    seen,     \* the effects a node's result reflects
    tainted,  \* the node was served an entry that lacked a landed write
    moved,    \* keys bumped since the node took its watches
    todo,     \* keys the node has yet to store
    tier,     \* the tier of each mutation
    mpc,      \* where each mutation is
    left,     \* keys its tier has yet to treat
    known,    \* record_deleted_apps resolved every appId
    patched,  \* the App Registrations rows were patched, not dropped
    scans,    \* scans begun of each collection
    failures  \* scans that failed

readerVars == <<want, pc, seen, tainted, todo>>
mutationVars == <<tier, mpc, left, known, patched>>
vars == <<dir, cache, gate, want, pc, seen, tainted, moved, todo,
          tier, mpc, left, known, patched, scans, failures>>

-----------------------------------------------------------------------------
(* Which collections a write changes, and which lists show it.             *)

TierOf(e) == IF e = Base THEN "lists" ELSE tier[e]

\* A credential write and a rename change /applications only; the service
\* principal's copy of a name follows eventually and is left alone.
Touches(e) ==
    IF TierOf(e) \in {"credentials", "renamed"}
    THEN {"applications"} ELSE {"applications", "servicePrincipals"}

Shows(k, e) ==
    CASE TierOf(e) = "credentials" -> k \in {"apps_pairing", "credential_expirations"}
      [] TierOf(e) = "renamed"     -> k \in Scanned \cup {"search_corpus"}
      [] OTHER                     -> TRUE

\* What a join of the two indexes reflects: an effect that each collection it
\* touches contributes.
Joined(sps, apps) ==
    {e \in Effects : /\ "servicePrincipals" \in Touches(e) => e \in sps
                     /\ "applications" \in Touches(e) => e \in apps}

-----------------------------------------------------------------------------
(* The nodes of a reader.                                                  *)

Kid(n, role) == <<n[1], role>>

Children(n) ==
    CASE n[2] = "main" -> IF want[n[1]] = "mi" THEN {Kid(n, "sp")}
                          ELSE {Kid(n, "sp"), Kid(n, "app")}
      [] n[2] = "app"  -> {Kid(n, "pair")}
      [] OTHER         -> {}

Root(k) == CASE k \in Derived -> "main" [] k \in Scanned -> "app" [] OTHER -> "sp"

\* The key a node looks up.
Wanted(n) ==
    IF n[2] = Root(want[n[1]]) THEN want[n[1]]
    ELSE IF n[2] = "app" THEN "app_name_index" ELSE "sp_index"

\* The single-flight gate a node queues on; Enterprise Applications and
\* Managed Identities have none of their own.
GateOf(n) ==
    CASE n[2] = "main" -> IF want[n[1]] = "search_corpus" THEN {"search_corpus"} ELSE {}
      [] n[2] = "app"  -> {"apps_pairing"}
      [] OTHER         -> {"sp_index"}

Ended(n) == pc[n] \in {"ok", "err"}
Idle == [n \in Nodes |-> "off"]

\* The gates without the ones the nodes hold: a dropped guard releases.
Released(ns) == [g \in Gates |-> IF gate[g] \in ns THEN Free ELSE gate[g]]

\* What a node stores under a key: the pairing rows and the derived lists
\* are joins, the rest comes from the node's own scan.
Value(n, k) ==
    CASE k = "apps_pairing"       -> Joined(seen[Kid(n, "pair")], seen[n])
      [] k = "mi"                 -> seen[Kid(n, "sp")]
      [] k \in Derived \ {"mi"}   -> Joined(seen[Kid(n, "sp")], seen[Kid(n, "app")])
      [] OTHER                    -> seen[n]

\* The entries a value is made of that came from the cache.
Taint(n, k) ==
    \/ k \in Derived \cup {"apps_pairing"} /\ \E c \in Children(n) : tainted[c]
    \/ k \notin Derived \cup {"apps_pairing"} /\ tainted[n]

Init ==
    /\ dir = {Base}
    /\ cache = [k \in Keys |-> NoEntry]
    /\ gate = [g \in Gates |-> Free]
    /\ want = [r \in Readers |-> "sp_index"]
    /\ pc = Idle
    /\ seen = [n \in Nodes |-> {}]
    /\ tainted = [n \in Nodes |-> FALSE]
    /\ moved = [n \in Nodes |-> {}]
    /\ todo = [n \in Nodes |-> {}]
    /\ tier = [w \in Mutations |-> "lists"]
    /\ mpc = [w \in Mutations |-> "idle"]
    /\ left = [w \in Mutations |-> <<>>]
    /\ known = [w \in Mutations |-> FALSE]
    /\ patched = [w \in Mutations |-> FALSE]
    /\ scans = [c \in {"applications", "servicePrincipals"} |-> 0]
    /\ failures = 0

-----------------------------------------------------------------------------
(* Reading.  A step ends where the code awaits or where another thread can *)
(* see what it did.                                                        *)

\* A command asks for a list.
Request(r, k) ==
    /\ \A role \in Roles : pc[<<r, role>>] = "off"
    /\ want' = [want EXCEPT ![r] = k]
    /\ pc' = [pc EXCEPT ![<<r, Root(k)>>] = "look"]
    /\ UNCHANGED <<dir, cache, gate, seen, tainted, moved, todo, scans, failures>>
    /\ UNCHANGED mutationVars

\* The node returns.  With the root of a reader its other nodes go, and the
\* gates they hold.
Returned(n, result, val) ==
    IF n[2] = Root(want[n[1]])
    THEN /\ pc' = [m \in Nodes |-> IF m[1] = n[1] THEN "off" ELSE pc[m]]
         /\ seen' = [m \in Nodes |-> IF m[1] = n[1] THEN {} ELSE seen[m]]
         /\ tainted' = [m \in Nodes |-> m[1] # n[1] /\ tainted[m]]
         /\ moved' = [m \in Nodes |-> IF m[1] = n[1] THEN {} ELSE moved[m]]
         /\ todo' = [m \in Nodes |-> IF m[1] = n[1] THEN {} ELSE todo[m]]
         /\ gate' = Released({m \in Nodes : m[1] = n[1]})
    ELSE /\ pc' = [pc EXCEPT ![n] = result]
         /\ seen' = [seen EXCEPT ![n] = val]
         /\ moved' = [moved EXCEPT ![n] = {}]
         /\ todo' = [todo EXCEPT ![n] = {}]
         /\ gate' = Released({n})
         /\ UNCHANGED tainted

\* An entry lacks a write that has landed.
Behind(k) == \E w \in dir \ cache[k].seen : Shows(k, w)

\* The node answers from the cache.
Serve(n) ==
    LET e == cache[Wanted(n)] IN
    /\ e # NoEntry
    /\ IF n[2] = Root(want[n[1]])
         THEN Returned(n, "ok", {})
         ELSE /\ pc' = [pc EXCEPT ![n] = "ok"]
              /\ seen' = [seen EXCEPT ![n] = e.seen]
              /\ tainted' = [tainted EXCEPT ![n] = e.tainted \/ Behind(Wanted(n))]
              /\ UNCHANGED <<gate, moved, todo>>

Collection(n) == IF n[2] = "app" THEN "applications" ELSE "servicePrincipals"

\* Scans are counted until a mutation or a failure makes another one due.
Counted(n) ==
    IF n[2] = "main" \/ dir # {Base} \/ failures > 0 THEN scans
    ELSE [scans EXCEPT ![Collection(n)] = @ + 1]

\* The node takes its watches, then starts its scan and its children.
Start(n) ==
    /\ moved' = [moved EXCEPT ![n] = {}]
    /\ pc' = [m \in Nodes |-> CASE m \in Children(n) -> "look"
                                [] m = n -> IF n[2] = "main" THEN "join" ELSE "scan"
                                [] OTHER -> pc[m]]
    /\ seen' = [seen EXCEPT ![n] = IF n[2] = "main" THEN {} ELSE dir]
    /\ scans' = Counted(n)
    /\ UNCHANGED <<tainted, todo>>

\* The check before the gate, or before the watch where there is no gate.
Look(n) ==
    /\ pc[n] = "look"
    /\ \/ Serve(n) /\ UNCHANGED scans
       \/ /\ cache[Wanted(n)] = NoEntry /\ GateOf(n) # {}
          /\ pc' = [pc EXCEPT ![n] = "wait"]
          /\ UNCHANGED <<seen, tainted, moved, todo, gate, scans>>
       \/ /\ cache[Wanted(n)] = NoEntry /\ GateOf(n) = {}
          /\ Start(n)
          /\ UNCHANGED gate
    /\ UNCHANGED <<dir, cache, want, failures, mutationVars>>

\* Fault: the gate is taken and the cache not looked at again.
EnterBlind(n) ==
    /\ pc[n] = "wait"
    /\ \A g \in GateOf(n) : gate[g] = Free
    /\ gate' = [g \in Gates |-> IF g \in GateOf(n) THEN n ELSE gate[g]]
    /\ Start(n)
    /\ UNCHANGED <<dir, cache, want, failures, mutationVars>>

\* The gate is acquired and the cache checked again under it.
Enter(n) ==
    /\ pc[n] = "wait"
    /\ \A g \in GateOf(n) : gate[g] = Free
    /\ \/ Serve(n) /\ UNCHANGED scans
       \/ /\ cache[Wanted(n)] = NoEntry
          /\ gate' = [g \in Gates |-> IF g \in GateOf(n) THEN n ELSE gate[g]]
          /\ Start(n)
    /\ UNCHANGED <<dir, cache, want, failures, mutationVars>>

\* The App Registrations list needs its pairs; every other read has its result.
Result(n) ==
    IF Wanted(n) = "apps_pairing" /\ pc[Kid(n, "pair")] = "err" THEN "err" ELSE "ok"

\* put_typed_index_if_current looks at the watch of each key: what was bumped
\* is not stored, and a node that stores nothing more returns.
StoreOrReturn(n, keys, val) ==
    LET current == keys \ moved[n] IN
    IF current = {}
    THEN Returned(n, Result(n), val)
    ELSE /\ pc' = [pc EXCEPT ![n] = "put"]
         /\ todo' = [todo EXCEPT ![n] = current]
         /\ seen' = [seen EXCEPT ![n] = val]
         /\ UNCHANGED <<gate, tainted, moved>>

\* What a scan stores; an unreadable SP index costs its join the rows only.
Stores(n) ==
    IF n[2] = "app"
    THEN {"credential_expirations", "app_name_index"}
         \cup (IF pc[Kid(n, "pair")] = "ok" THEN {"apps_pairing"} ELSE {})
    ELSE {"sp_index"}

\* The order in which scan_app_list stores them.
First(keys) ==
    IF "credential_expirations" \in keys THEN "credential_expirations"
    ELSE IF "app_name_index" \in keys THEN "app_name_index"
    ELSE CHOOSE k \in keys : TRUE

\* The last page has arrived, and scan_app_list has joined the SP index.  A
\* write that landed while the pages were read may or may not be in them.
Scan(n) ==
    /\ pc[n] = "scan"
    /\ \A c \in Children(n) : Ended(c)
    /\ \E more \in SUBSET (dir \ seen[n]) : StoreOrReturn(n, Stores(n), seen[n] \cup more)
    /\ UNCHANGED <<dir, cache, want, scans, failures, mutationVars>>

\* Graph answers a scan with an error; the /applications side still waits for
\* the other side of its join.
ScanFails(n) ==
    /\ pc[n] = "scan" /\ failures < MaxFailures
    /\ \A c \in Children(n) : Ended(c)
    /\ Returned(n, "err", {})
    /\ failures' = failures + 1
    /\ scans' = [c \in DOMAIN scans |-> 0]
    /\ UNCHANGED <<dir, cache, want, mutationVars>>

AllOk(n) == \A c \in Children(n) : pc[c] = "ok"

\* Fault: the corpus is cached with a half that failed to load.
JoinIndexesPartial(n) ==
    /\ pc[n] = "join"
    /\ \A c \in Children(n) : Ended(c)
    /\ AllOk(n) \/ want[n[1]] = "search_corpus"
    /\ StoreOrReturn(n, {want[n[1]]}, {})
    /\ UNCHANGED <<dir, cache, want, scans, failures, mutationVars>>

\* Fault: the derived list's watch is taken when its indexes are there.
JoinIndexesLateWatch(n) ==
    /\ pc[n] = "join"
    /\ AllOk(n)
    /\ pc' = [pc EXCEPT ![n] = "put"]
    /\ todo' = [todo EXCEPT ![n] = {want[n[1]]}]
    /\ moved' = [moved EXCEPT ![n] = {}]
    /\ UNCHANGED <<dir, cache, gate, want, seen, tainted, scans, failures, mutationVars>>

\* A derived list has its indexes.  The corpus is built from what loaded, and
\* stored only if both halves did.
JoinIndexes(n) ==
    /\ pc[n] = "join"
    /\ \A c \in Children(n) : Ended(c)
    /\ AllOk(n) \/ want[n[1]] = "search_corpus"
    /\ StoreOrReturn(n, IF AllOk(n) THEN {want[n[1]]} ELSE {}, {})
    /\ UNCHANGED <<dir, cache, want, scans, failures, mutationVars>>

\* The places where a node awaits, and so where it can be dropped.
Awaiting == {"off", "wait", "scan", "join", "ok", "err"}

\* Fault: one failed index is not enough to end the read.
JoinAbortsBothDown(n) ==
    /\ pc[n] = "join" /\ want[n[1]] # "search_corpus"
    /\ \A c \in Children(n) : pc[c] = "err"
    /\ Returned(n, "err", {})
    /\ UNCHANGED <<dir, cache, want, scans, failures, mutationVars>>

\* try_join: the first error ends the read and drops what its sibling was
\* doing, gates and watches included.
JoinAborts(n) ==
    /\ pc[n] = "join" /\ want[n[1]] # "search_corpus"
    /\ \E c \in Children(n) : pc[c] = "err"
    /\ \A m \in Nodes : m[1] = n[1] => pc[m] \in Awaiting
    /\ Returned(n, "err", {})
    /\ UNCHANGED <<dir, cache, want, scans, failures, mutationVars>>

\* put_typed_index_if_current inserts the entry,
Put(n) ==
    LET k == First(todo[n]) IN
    /\ pc[n] = "put"
    /\ cache' = [cache EXCEPT ![k] =
                   [seen |-> Value(n, k), by |-> n, tainted |-> Taint(n, k)]]
    /\ pc' = [pc EXCEPT ![n] = "verify"]
    /\ UNCHANGED <<dir, gate, want, seen, tainted, moved, todo, scans, failures, mutationVars>>

\* Fault: no second look.
VerifyNothing(n) ==
    /\ pc[n] = "verify"
    /\ StoreOrReturn(n, todo[n] \ {First(todo[n])}, seen[n])
    /\ UNCHANGED <<dir, cache, want, scans, failures, mutationVars>>

\* looks at the watch once more and takes back its own entry if the key moved.
Verify(n) ==
    LET k == First(todo[n]) IN
    /\ pc[n] = "verify"
    /\ cache' = IF cache[k] = NoEntry \/ cache[k].by # n THEN cache
                ELSE IF k \in moved[n] THEN [cache EXCEPT ![k] = NoEntry]
                ELSE [cache EXCEPT ![k].by = Free]
    /\ StoreOrReturn(n, todo[n] \ {First(todo[n])}, seen[n])
    /\ UNCHANGED <<dir, want, scans, failures, mutationVars>>

-----------------------------------------------------------------------------
(* Mutations.                                                              *)

\* The order in which each tier treats its keys; the projections come last.
PlanOf(t) ==
    CASE t = "lists" ->
           <<"apps_pairing", "enterprise", "sp_index", "app_name_index",
             "search_corpus", "mi", "credential_expirations">>
      [] t = "credentials" -> <<"apps_pairing", "credential_expirations">>
      [] t \in {"created", "deleted"} ->
           <<"apps_pairing", "app_name_index", "credential_expirations", "sp_index",
             "enterprise", "search_corpus", "mi">>
      [] t = "renamed" ->
           <<"apps_pairing", "app_name_index", "credential_expirations",
             "enterprise", "search_corpus", "mi">>

\* Whether a tier rewrites the entry under a key or drops it.
Patches(w, k) ==
    CASE k = "credential_expirations" ->
           \/ tier[w] = "renamed"
           \/ tier[w] \in {"created", "deleted"} /\ patched[w]
      [] k = "sp_index" ->
           \/ tier[w] = "created"
           \/ tier[w] = "deleted" /\ known[w]
      [] k \in {"apps_pairing", "app_name_index"} ->
           tier[w] \in {"created", "deleted", "renamed"}
      [] OTHER -> FALSE

\* Graph accepts the write.
Land(w, t) ==
    /\ mpc[w] = "idle"
    /\ dir' = dir \cup {w}
    /\ tier' = [tier EXCEPT ![w] = t]
    /\ left' = [left EXCEPT ![w] = PlanOf(t)]
    /\ mpc' = [mpc EXCEPT ![w] = IF t = "deleted" THEN "resolve" ELSE "bump"]
    /\ scans' = [c \in DOMAIN scans |-> 0]
    /\ UNCHANGED <<cache, gate, readerVars, moved, known, patched, failures>>

\* record_deleted_apps first resolves the deleted app's appId from the cached
\* rows that still hold it.
Resolve(w) ==
    /\ mpc[w] = "resolve"
    /\ known' = [known EXCEPT ![w] =
                   \E k \in {"app_name_index", "apps_pairing"} :
                      cache[k] # NoEntry /\ w \notin cache[k].seen]
    /\ mpc' = [mpc EXCEPT ![w] = "bump"]
    /\ UNCHANGED <<dir, cache, gate, readerVars, moved, tier, left, patched, scans, failures>>

\* The keys a node's watches are on.
Watches(n) ==
    IF pc[n] \notin {"scan", "join", "put", "verify"} THEN {}
    ELSE CASE n[2] = "main" -> {want[n[1]]}
           [] n[2] = "app"  -> Scanned
           [] OTHER         -> {"sp_index"}

\* Every invalidation, patch or drop, bumps the watches of its key first.
Bump(w) ==
    /\ mpc[w] = "bump"
    /\ moved' = [n \in Nodes |-> moved[n] \cup (Watches(n) \cap {Head(left[w])})]
    /\ mpc' = [mpc EXCEPT ![w] = "apply"]
    /\ UNCHANGED <<dir, cache, gate, readerVars, tier, left, known, patched, scans, failures>>

\* Then the entry is rewritten, or dropped.  A patch falls back to dropping an
\* entry at the row cap, and when other writers keep replacing it.  After the
\* last key the command returns.  patched and known are kept until their last
\* use, at credential_expirations and sp_index.
Apply(w) ==
    LET k == Head(left[w])
        rest == Tail(left[w])
    IN
    /\ mpc[w] = "apply"
    /\ \/ /\ cache' = [cache EXCEPT ![k] = NoEntry]
          /\ patched' = [patched EXCEPT ![w] = @ /\ k = "app_name_index"]
       \/ /\ Patches(w, k) /\ cache[k] # NoEntry
          /\ cache' = [cache EXCEPT ![k].seen = @ \cup {w}]
          /\ patched' = [patched EXCEPT ![w] = \/ k = "apps_pairing"
                                               \/ @ /\ k = "app_name_index"]
    /\ known' = [known EXCEPT ![w] = @ /\ k # "sp_index"]
    /\ left' = [left EXCEPT ![w] = rest]
    /\ mpc' = [mpc EXCEPT ![w] = IF rest = <<>> THEN "done" ELSE "bump"]
    /\ UNCHANGED <<dir, gate, readerVars, moved, tier, scans, failures>>

-----------------------------------------------------------------------------

Progress(n) ==
    \/ Look(n) \/ Enter(n) \/ Scan(n)
    \/ JoinIndexes(n) \/ JoinAborts(n)
    \/ Put(n) \/ Verify(n)

Invalidate(w) == Resolve(w) \/ Bump(w) \/ Apply(w)

Next ==
    \/ \E r \in Readers : \E k \in Requests[r] : Request(r, k)
    \/ \E n \in Nodes : Progress(n) \/ ScanFails(n)
    \/ \E w \in Mutations : (\E t \in Tiers : Land(w, t)) \/ Invalidate(w)

Spec == Init /\ [][Next]_vars

\* A started command runs on: Graph answers or its client gives up, and tokio
\* polls a task that can make progress.
FairSpec ==
    /\ Spec
    /\ \A n \in Nodes : WF_vars(Progress(n))
    /\ \A w \in Mutations : WF_vars(Invalidate(w))

-----------------------------------------------------------------------------
(* Properties.                                                             *)

\* No invalidation is under way and no store of the key is still to be
\* checked a second time.
AtRest(k) ==
    /\ \A w \in Mutations : mpc[w] \in {"idle", "done"}
    /\ \A n \in Nodes : pc[n] = "verify" => First(todo[n]) # k

\* The entry lacks a write whose command has returned.
Stale(k) == cache[k] # NoEntry /\ Behind(k)

\* The three entries that come from one scan alone never hold a snapshot older
\* than a mutation that returned (cache.rs:557-570, mod.rs:165-270).
IndexesAreFresh ==
    \A k \in {"sp_index", "app_name_index", "credential_expirations"} :
        AtRest(k) => ~Stale(k)

\* A list that joins entries can be out of date only because one of them was,
\* while it was read: its own watch catches every other race.
OnlyInheritedStaleness ==
    \A k \in Keys : AtRest(k) /\ Stale(k) => cache[k].tainted

\* However the readers meet, a cold tenant is scanned once (cache.rs:588-592,
\* mod.rs:147-155).
ColdReadersShareOneScan ==
    dir = {Base} /\ failures = 0 => \A c \in DOMAIN scans : scans[c] <= 1

\* A result that misses a half that failed to load is served and never cached
\* (search.rs:95-100, 214-220).
NoPartialEntry == \A k \in Keys : cache[k] # NoEntry => Base \in cache[k].seen

\* Every read returns, so nobody waits for a gate for ever: the scan's gate and
\* the SP index's are taken in one order.
EveryReadReturns ==
    \A r \in Readers :
        (\E role \in Roles : pc[<<r, role>>] = "look")
            ~> \A role \in Roles : pc[<<r, role>>] = "off"

\* enterprise_rows_cached's comment: re-pinning the rows a mutation dropped
\* must not happen, so no pinned Enterprise Applications list is out of date.
EnterpriseIsFresh == AtRest("enterprise") => ~Stale("enterprise")

=============================================================================
