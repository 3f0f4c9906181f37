-------------------------- MODULE ListCachesProofs --------------------------
(***************************************************************************)
(* Proofs about ListCaches, for any number of readers, whatever lists they *)
(* ask for, and for any number of mutations of any tier.                   *)
(*                                                                         *)
(* Between two mutations an entry may be behind: it is patched or dropped  *)
(* later, or its store is about to be taken back.  The inductive invariant *)
(* says which write an entry may lack (EntryInv), and which write a scan   *)
(* or a join under way may have missed (RaceInv): one that has yet to bump *)
(* the watch, or has bumped it.                                            *)
(***************************************************************************)
EXTENDS ListCaches, TLAPS

AllTiers == {"lists", "credentials", "created", "deleted", "renamed"}
Indexes == {"sp_index", "app_name_index", "credential_expirations"}
Collections == {"applications", "servicePrincipals"}

\* The node is at work, with its watches taken; it has a result.
Live == {"scan", "join", "put", "verify"}
Seeing == {"scan", "put", "verify", "ok"}

\* The part of the state that the nodes write.
NodeTypes ==
    /\ gate \in [Gates -> Nodes \cup {Free}]
    /\ pc \in [Nodes -> {"off", "look", "wait", "ok", "err"} \cup Live]
    /\ seen \in [Nodes -> SUBSET Effects]
    /\ tainted \in [Nodes -> BOOLEAN]
    /\ moved \in [Nodes -> SUBSET Keys]
    /\ todo \in [Nodes -> SUBSET Keys]

Types ==
    /\ dir \subseteq Effects
    /\ cache \in [Keys -> Entries \cup {NoEntry}]
    /\ want \in [Readers -> Keys]
    /\ NodeTypes
    /\ tier \in [Mutations -> AllTiers]
    /\ mpc \in [Mutations -> {"idle", "resolve", "bump", "apply", "done"}]
    /\ left \in [Mutations -> Seq(Keys)]
    /\ scans \in [Collections -> Nat]
    /\ failures \in Nat

\* A mutation has landed once it is under way, and has keys to treat until it
\* is done.
MutationInv ==
    /\ Base \in dir
    /\ \A w \in Mutations :
          /\ mpc[w] = "idle" <=> w \notin dir
          /\ mpc[w] \in {"resolve", "bump", "apply"} => left[w] # <<>>
          /\ mpc[w] = "done" => left[w] = <<>>

\* The nodes a read may use.
InTree(n) ==
    LET k == want[n[1]] IN
    CASE n[2] = "main" -> k \in Derived
      [] n[2] = "sp"   -> k \in Derived \cup {"sp_index"}
      [] OTHER         -> k \in Scanned \cup (Derived \ {"mi"})

\* A node's children run while it waits for them, and at no other time.
TreeInv(n) ==
    /\ ~InTree(n) => pc[n] = "off"
    /\ InTree(n) /\ pc[n] \in {"off", "look", "wait"} => \A c \in Children(n) : pc[c] = "off"
    /\ pc[n] \in {"put", "verify", "ok", "err"} =>
          \A c \in Children(n) : pc[c] \in {"off", "ok", "err"}
    /\ pc[n] = "join" => n[2] = "main"
    /\ pc[n] = "scan" => n[2] # "main"

\* Who holds a gate is at work under it.
GateInv ==
    \A g \in Gates : gate[g] # Free => pc[gate[g]] \in Live /\ g \in GateOf(gate[g])

\* What a node has yet to store is watched, and its parts are there.
TodoInv(n) ==
    /\ pc[n] \in {"put", "verify"} => todo[n] # {} /\ todo[n] \subseteq Watches(n)
    /\ pc[n] \in {"put", "verify"} /\ n[2] = "main" => AllOk(n)
    /\ pc[n] \in {"put", "verify"} /\ n[2] = "app" /\ "apps_pairing" \in todo[n] =>
          pc[Kid(n, "pair")] = "ok"

SeenInv(n) ==
    /\ n[2] # "main" /\ pc[n] \in Seeing => Base \in seen[n]
    /\ tainted[n] => pc[n] = "ok"

\* Mutation w has yet to treat key k; and has not even bumped its watches.
Pending(w, k) == \E i \in DOMAIN left[w] : left[w][i] = k
Unbumped(w, k) == Pending(w, k) /\ ~(mpc[w] = "apply" /\ Head(left[w]) = k)

\* Node n will hear, or has heard, that w changed k.
Hears(n, k, w) == Unbumped(w, k) \/ k \in moved[n]

\* Node n hears of every write that its scan, or a child it joins, has missed.
RaceInv(n) ==
    \A k \in Watches(n), w \in dir \ {Base} : Shows(k, w) =>
        /\ n[2] # "main" /\ w \notin seen[n] => Hears(n, k, w)
        /\ \A c \in Children(n) :
              /\ pc[c] \in Seeing /\ ~tainted[c]
              /\ Shows(Wanted(c), w) /\ w \notin seen[c]
              => Hears(n, k, w)

\* The entry under k is its writer's, who is about to take it back.
Doomed(k) ==
    LET n == cache[k].by IN
    n \in Nodes /\ pc[n] = "verify" /\ First(todo[n]) = k /\ k \in moved[n]

\* An entry lacks a write that has yet to treat it, or it will be taken back, or
\* it was made of one that was behind.
EntryInv(k) ==
    cache[k] # NoEntry =>
        /\ Base \in cache[k].seen
        /\ k \in Indexes => ~cache[k].tainted
        /\ \A w \in dir \ {Base} : Shows(k, w) /\ w \notin cache[k].seen =>
              Pending(w, k) \/ cache[k].tainted \/ Doomed(k)

\* Before the first write and the first failure, a scan under way holds its gate
\* and one that is over has left its entries.
Cold ==
    /\ \A n \in Nodes : moved[n] = {} /\ pc[n] # "err"
    /\ \A n \in Nodes : pc[n] = "verify" => cache[First(todo[n])] # NoEntry
    /\ \A n \in Nodes : n[2] = "app" /\ pc[n] \in {"put", "verify"} =>
          \A k \in Scanned \ todo[n] : cache[k] # NoEntry
    /\ scans["applications"] = 0 \/
          /\ scans["applications"] = 1
          /\ gate["apps_pairing"] # Free \/ \A k \in Scanned : cache[k] # NoEntry
    /\ scans["servicePrincipals"] = 0 \/
          /\ scans["servicePrincipals"] = 1
          /\ gate["sp_index"] # Free \/ cache["sp_index"] # NoEntry

ColdInv == dir = {Base} /\ failures = 0 => Cold

ListsInv ==
    /\ Types
    /\ MutationInv
    /\ \A n \in Nodes : TreeInv(n) /\ TodoInv(n) /\ SeenInv(n) /\ RaceInv(n)
    /\ GateInv
    /\ \A k \in Keys : EntryInv(k)
    /\ ColdInv

-----------------------------------------------------------------------------
(* Nodes, lists and plans.                                                 *)

LEMMA NodeFacts ==
    /\ \A n \in Nodes : n[1] \in Readers /\ n[2] \in Roles
    /\ \A n, m \in Nodes : n[1] = m[1] /\ n[2] = m[2] => n = m
    /\ \A n \in Nodes, role \in Roles :
          Kid(n, role) \in Nodes /\ Kid(n, role)[1] = n[1] /\ Kid(n, role)[2] = role
BY DEF Nodes, Kid

LEMMA ChildFacts ==
    ASSUME Types
    PROVE  /\ \A n \in Nodes : \A c \in Children(n) :
                 c \in Nodes /\ c[1] = n[1] /\ c # n /\ c[2] # "main"
           /\ \A n, m \in Nodes : \A c \in Children(n) : c \in Children(m) => n = m
           /\ \A n \in Nodes :
                 /\ n[2] = "main" => /\ Kid(n, "sp") \in Children(n)
                                     /\ want[n[1]] # "mi" => Kid(n, "app") \in Children(n)
                                     /\ \A c \in Children(n) : c[2] \in {"sp", "app"}
                 /\ n[2] = "app" => Children(n) = {Kid(n, "pair")}
                 /\ n[2] \in {"sp", "pair"} => Children(n) = {}
<1>1. ASSUME NEW n \in Nodes
      PROVE  /\ n[2] = "main" => Children(n) = IF want[n[1]] = "mi" THEN {Kid(n, "sp")}
                                               ELSE {Kid(n, "sp"), Kid(n, "app")}
             /\ n[2] = "app" => Children(n) = {Kid(n, "pair")}
             /\ n[2] \in {"sp", "pair"} => Children(n) = {}
    BY DEF Children
<1>2. \A n \in Nodes : n[2] \in {"main", "app", "sp", "pair"}
    BY NodeFacts DEF Roles
<1>3. ASSUME NEW n \in Nodes, NEW role \in {"sp", "app", "pair"}
      PROVE  Kid(n, role) \in Nodes /\ Kid(n, role)[1] = n[1] /\ Kid(n, role)[2] = role
    BY NodeFacts DEF Roles
<1>4. ASSUME NEW n \in Nodes, NEW c \in Children(n)
      PROVE  /\ c \in Nodes /\ c[1] = n[1] /\ c # n /\ c[2] # "main"
             /\ n[2] = "main" => c[2] \in {"sp", "app"}
             /\ c[2] \in {"sp", "app"} => n[2] = "main"
             /\ c[2] = "pair" => n[2] = "app"
    BY <1>1, <1>2, <1>3
<1>5. ASSUME NEW n \in Nodes, NEW m \in Nodes, NEW c \in Children(n), c \in Children(m)
      PROVE  n = m
    <2>1. n[1] = m[1] /\ n[2] = m[2]
        BY <1>2, <1>4, <1>5
    <2> QED
        BY <2>1, NodeFacts
<1> QED
    BY <1>1, <1>4, <1>5

\* What a node in a tree looks up.
LEMMA WantedFacts ==
    ASSUME Types, NEW n \in Nodes, InTree(n)
    PROVE  /\ n[2] = "main" => Wanted(n) = want[n[1]] /\ want[n[1]] \in Derived
           /\ n[2] = "app" => Wanted(n) \in Scanned
           /\ n[2] \in {"sp", "pair"} => Wanted(n) = "sp_index"
           /\ n[2] = "app" /\ n[2] # Root(want[n[1]]) => Wanted(n) = "app_name_index"
           /\ Wanted(n) \in Keys
<1>1. want[n[1]] \in Keys /\ n[2] \in {"main", "sp", "app", "pair"}
    BY NodeFacts DEF Types, Roles
<1>2. /\ want[n[1]] \in Derived => Root(want[n[1]]) = "main"
      /\ want[n[1]] \in Scanned => Root(want[n[1]]) = "app"
      /\ want[n[1]] = "sp_index" => Root(want[n[1]]) = "sp"
    BY DEF Root, Derived, Scanned
<1>3. n[2] = "main" => want[n[1]] \in Derived
    BY DEF InTree
<1> QED
    BY <1>1, <1>2, <1>3 DEF Wanted, Keys, Scanned, Derived

\* A child in a tree is in the tree, and looks up an index.
LEMMA ChildInTree ==
    ASSUME Types, NEW n \in Nodes, InTree(n), NEW c \in Children(n)
    PROVE  /\ InTree(c) /\ c[2] # Root(want[c[1]])
           /\ c[2] \in {"sp", "pair"} => Wanted(c) = "sp_index"
           /\ c[2] = "app" => Wanted(c) = "app_name_index"
<1>1. c \in Nodes /\ c[1] = n[1] /\ n[2] \in {"main", "app", "sp", "pair"}
    BY ChildFacts, NodeFacts DEF Roles
<1>2. want[n[1]] \in Keys
    BY NodeFacts DEF Types
<1>3. /\ want[n[1]] \in Derived => Root(want[n[1]]) = "main"
      /\ want[n[1]] \in Scanned => Root(want[n[1]]) = "app"
    BY DEF Root, Derived, Scanned
<1>4. CASE n[2] = "main"
    <2>1. want[n[1]] \in Derived
        BY <1>4 DEF InTree
    <2>2. c[2] = "sp" \/ (c[2] = "app" /\ want[n[1]] # "mi")
        <3>1. Children(n) = IF want[n[1]] = "mi" THEN {Kid(n, "sp")}
                            ELSE {Kid(n, "sp"), Kid(n, "app")}
            BY <1>4 DEF Children
        <3>2. Kid(n, "sp")[2] = "sp" /\ Kid(n, "app")[2] = "app"
            BY NodeFacts DEF Roles
        <3> QED
            BY <3>1, <3>2
    <2> QED
        BY <1>1, <1>3, <2>1, <2>2 DEF InTree, Wanted
<1>5. CASE n[2] = "app"
    <2>1. c[2] = "pair" /\ want[n[1]] \in Scanned \cup (Derived \ {"mi"})
        BY <1>5, ChildFacts, NodeFacts DEF Roles, InTree
    <2> QED
        BY <1>1, <1>3, <2>1 DEF InTree, Wanted
<1>6. CASE n[2] \in {"sp", "pair"}
    BY <1>6, ChildFacts
<1> QED
    BY <1>1, <1>4, <1>5, <1>6

LEMMA FirstIsThere ==
    ASSUME NEW keys, keys # {}
    PROVE  First(keys) \in keys
BY DEF First

\* Which tiers show where.
LEMMA ShowsFacts ==
    ASSUME Types, NEW w \in Mutations, NEW k \in Keys, Shows(k, w)
    PROVE  /\ "servicePrincipals" \in Touches(w) => Shows("sp_index", w)
           /\ k \in Derived => Shows("app_name_index", w)
           /\ k = "mi" => Shows("sp_index", w)
           /\ TierOf(w) = tier[w]
<1>1. w # Base
    BY ListsAssumption
<1>2. TierOf(w) = tier[w] /\ tier[w] \in AllTiers
    BY <1>1 DEF TierOf, Types
<1>3. CASE tier[w] = "credentials"
    BY <1>2, <1>3 DEF Shows, Touches, Derived
<1>4. CASE tier[w] = "renamed"
    BY <1>2, <1>4 DEF Shows, Touches, Derived, Scanned
<1>5. CASE tier[w] \in {"lists", "created", "deleted"}
    BY <1>2, <1>5 DEF Shows
<1> QED
    BY <1>2, <1>3, <1>4, <1>5 DEF AllTiers

\* A tier treats every key that shows its write.
LEMMA PlanIsComplete ==
    ASSUME NEW t \in AllTiers, NEW k \in Keys,
           t = "credentials" => k \in {"apps_pairing", "credential_expirations"},
           t = "renamed" => k \in Scanned \cup {"search_corpus"}
    PROVE  /\ PlanOf(t) \in Seq(Keys) /\ PlanOf(t) # <<>>
           /\ \E i \in DOMAIN PlanOf(t) : PlanOf(t)[i] = k
<1> USE DEF Keys, Scanned, Derived
<1>1. CASE t = "lists"
    <2> DEFINE p == <<"apps_pairing", "enterprise", "sp_index", "app_name_index",
                      "search_corpus", "mi", "credential_expirations">>
    <2>1. PlanOf(t) = p
        BY <1>1 DEF PlanOf
    <2>2. p \in Seq(Keys) /\ p # <<>> /\ DOMAIN p = 1..7
        OBVIOUS
    <2>3. \E i \in 1..7 : p[i] = k
        OBVIOUS
    <2> QED
        BY <2>1, <2>2, <2>3
<1>2. CASE t = "credentials"
    <2> DEFINE p == <<"apps_pairing", "credential_expirations">>
    <2>1. PlanOf(t) = p
        BY <1>2 DEF PlanOf
    <2>2. p \in Seq(Keys) /\ p # <<>> /\ DOMAIN p = 1..2
        OBVIOUS
    <2>3. \E i \in 1..2 : p[i] = k
        BY <1>2
    <2> QED
        BY <2>1, <2>2, <2>3
<1>3. CASE t \in {"created", "deleted"}
    <2> DEFINE p == <<"apps_pairing", "app_name_index", "credential_expirations", "sp_index",
                      "enterprise", "search_corpus", "mi">>
    <2>1. PlanOf(t) = p
        BY <1>3 DEF PlanOf
    <2>2. p \in Seq(Keys) /\ p # <<>> /\ DOMAIN p = 1..7
        OBVIOUS
    <2>3. \E i \in 1..7 : p[i] = k
        OBVIOUS
    <2> QED
        BY <2>1, <2>2, <2>3
<1>4. CASE t = "renamed"
    <2> DEFINE p == <<"apps_pairing", "app_name_index", "credential_expirations",
                      "enterprise", "search_corpus", "mi">>
    <2>1. PlanOf(t) = p
        BY <1>4 DEF PlanOf
    <2>2. p \in Seq(Keys) /\ p # <<>> /\ DOMAIN p = 1..6
        OBVIOUS
    <2>3. \E i \in 1..6 : p[i] = k
        BY <1>4
    <2> QED
        BY <2>1, <2>2, <2>3
<1> QED
    BY <1>1, <1>2, <1>3, <1>4 DEF AllTiers

-----------------------------------------------------------------------------
(* What the steps of a node do.                                            *)

Same(m) ==
    /\ pc'[m] = pc[m] /\ seen'[m] = seen[m] /\ tainted'[m] = tainted[m]
    /\ moved'[m] = moved[m] /\ todo'[m] = todo[m]

\* No other node is touched.
Alone(n) == \A m \in Nodes \ {n} : Same(m)

\* The read is over: its nodes are off and hold nothing.
RootGone(n) ==
    /\ \A m \in Nodes : m[1] # n[1] => Same(m)
    /\ \A m \in Nodes : m[1] = n[1] =>
          /\ pc'[m] = "off" /\ seen'[m] = {} /\ ~tainted'[m] /\ moved'[m] = {}
          /\ todo'[m] = {}
    /\ \A g \in Gates : /\ gate'[g] # Free => gate'[g] = gate[g] /\ gate[g][1] # n[1]
                        /\ gate'[g] = Free => \/ gate[g] = Free
                                              \/ gate[g][1] = n[1]

\* A node below has its result.
KidDone(n, result, val) ==
    /\ Alone(n)
    /\ pc'[n] = result /\ seen'[n] = val /\ tainted'[n] = tainted[n]
    /\ moved'[n] = {} /\ todo'[n] = {}
    /\ \A g \in Gates : /\ gate'[g] # Free => gate'[g] = gate[g] /\ gate[g] # n
                        /\ gate'[g] = Free => gate[g] \in {Free, n}

LEMMA RootReturns ==
    ASSUME Types, NEW n \in Nodes, n[2] = Root(want[n[1]]), NEW result, NEW val,
           Returned(n, result, val)
    PROVE  RootGone(n) /\ NodeTypes'
<1>1. /\ pc' = [m \in Nodes |-> IF m[1] = n[1] THEN "off" ELSE pc[m]]
      /\ seen' = [m \in Nodes |-> IF m[1] = n[1] THEN {} ELSE seen[m]]
      /\ tainted' = [m \in Nodes |-> m[1] # n[1] /\ tainted[m]]
      /\ moved' = [m \in Nodes |-> IF m[1] = n[1] THEN {} ELSE moved[m]]
      /\ todo' = [m \in Nodes |-> IF m[1] = n[1] THEN {} ELSE todo[m]]
      /\ gate' = [g \in Gates |-> IF gate[g] \in {m \in Nodes : m[1] = n[1]} THEN Free
                                  ELSE gate[g]]
    BY DEF Returned, Released
<1>2. \A m \in Nodes : tainted[m] \in BOOLEAN
    BY DEF Types, NodeTypes
<1>3. \A m \in Nodes : m[1] # n[1] => Same(m)
    BY <1>1, <1>2 DEF Same
<1>4. \A m \in Nodes : m[1] = n[1] =>
         /\ pc'[m] = "off" /\ seen'[m] = {} /\ ~tainted'[m] /\ moved'[m] = {}
         /\ todo'[m] = {}
    BY <1>1
<1>5. \A g \in Gates : gate[g] \in Nodes \cup {Free}
    BY DEF Types, NodeTypes
<1>6. \A g \in Gates : /\ gate'[g] # Free => gate'[g] = gate[g] /\ gate[g][1] # n[1]
                       /\ gate'[g] = Free => gate[g] = Free \/ gate[g][1] = n[1]
    BY <1>1, <1>5
<1>7. NodeTypes'
    <2>1. /\ pc' \in [Nodes -> {"off", "look", "wait", "ok", "err"} \cup Live]
          /\ seen' \in [Nodes -> SUBSET Effects] /\ tainted' \in [Nodes -> BOOLEAN]
          /\ moved' \in [Nodes -> SUBSET Keys] /\ todo' \in [Nodes -> SUBSET Keys]
        BY <1>1 DEF Types, NodeTypes
    <2>2. gate' \in [Gates -> Nodes \cup {Free}]
        BY <1>1, <1>5
    <2> QED
        BY <2>1, <2>2 DEF NodeTypes
<1> QED
    BY <1>3, <1>4, <1>6, <1>7 DEF RootGone

LEMMA KidReturns ==
    ASSUME Types, NEW n \in Nodes, n[2] # Root(want[n[1]]), NEW result \in {"ok", "err"},
           NEW val \in SUBSET Effects, Returned(n, result, val)
    PROVE  KidDone(n, result, val) /\ NodeTypes'
<1>1. /\ pc' = [pc EXCEPT ![n] = result] /\ seen' = [seen EXCEPT ![n] = val]
      /\ moved' = [moved EXCEPT ![n] = {}] /\ todo' = [todo EXCEPT ![n] = {}]
      /\ tainted' = tainted
      /\ gate' = [g \in Gates |-> IF gate[g] \in {n} THEN Free ELSE gate[g]]
    BY DEF Returned, Released
<1>2. /\ gate \in [Gates -> Nodes \cup {Free}]
      /\ pc \in [Nodes -> {"off", "look", "wait", "ok", "err"} \cup Live]
      /\ seen \in [Nodes -> SUBSET Effects]
      /\ tainted \in [Nodes -> BOOLEAN]
      /\ moved \in [Nodes -> SUBSET Keys]
      /\ todo \in [Nodes -> SUBSET Keys]
    BY DEF Types, NodeTypes
<1>3. NodeTypes'
    BY <1>1, <1>2 DEF NodeTypes
<1>4. Alone(n)
    BY <1>1, <1>2 DEF Alone, Same
<1>5. /\ pc'[n] = result /\ seen'[n] = val /\ tainted'[n] = tainted[n]
      /\ moved'[n] = {} /\ todo'[n] = {}
    BY <1>1, <1>2
<1>6. \A g \in Gates : /\ gate'[g] # Free => gate'[g] = gate[g] /\ gate[g] # n
                       /\ gate'[g] = Free => gate[g] \in {Free, n}
    BY <1>1, <1>2
<1> QED
    BY <1>3, <1>4, <1>5, <1>6 DEF KidDone

\* A node below answers from the cache.
KidServed(n) ==
    /\ Alone(n) /\ gate' = gate
    /\ cache[Wanted(n)] # NoEntry
    /\ pc'[n] = "ok" /\ seen'[n] = cache[Wanted(n)].seen
    /\ tainted'[n] <=> cache[Wanted(n)].tainted \/ Behind(Wanted(n))
    /\ moved'[n] = moved[n] /\ todo'[n] = todo[n]

LEMMA Serves ==
    ASSUME Types, NEW n \in Nodes, InTree(n), Serve(n)
    PROVE  /\ NodeTypes'
           /\ \/ n[2] = Root(want[n[1]]) /\ RootGone(n)
              \/ n[2] # Root(want[n[1]]) /\ KidServed(n)
<1>1. CASE n[2] = Root(want[n[1]])
    BY <1>1, RootReturns DEF Serve
<1>2. CASE n[2] # Root(want[n[1]])
    <2> DEFINE e == cache[Wanted(n)]
               b == e.tainted \/ Behind(Wanted(n))
    <2>1. /\ e # NoEntry /\ pc' = [pc EXCEPT ![n] = "ok"]
          /\ seen' = [seen EXCEPT ![n] = e.seen]
          /\ tainted' = [tainted EXCEPT ![n] = b]
          /\ UNCHANGED <<gate, moved, todo>>
        BY <1>2 DEF Serve
    <2>2. e \in Entries
        BY <2>1, WantedFacts DEF Types
    <2>3. e.seen \in SUBSET Effects /\ e.tainted \in BOOLEAN
        BY <2>2 DEF Entries
    <2>4. b \in BOOLEAN
        OBVIOUS
    <2> HIDE DEF b
    <2>5. /\ gate \in [Gates -> Nodes \cup {Free}]
          /\ pc \in [Nodes -> {"off", "look", "wait", "ok", "err"} \cup Live]
          /\ seen \in [Nodes -> SUBSET Effects]
          /\ tainted \in [Nodes -> BOOLEAN]
          /\ moved \in [Nodes -> SUBSET Keys]
          /\ todo \in [Nodes -> SUBSET Keys]
        BY DEF Types, NodeTypes
    <2>6. NodeTypes'
        BY <2>1, <2>3, <2>4, <2>5 DEF NodeTypes
    <2>7. Alone(n)
        BY <2>1, <2>5 DEF Alone, Same
    <2>8. pc'[n] = "ok" /\ seen'[n] = e.seen /\ tainted'[n] = b
        BY <2>1, <2>5
    <2>9. KidServed(n)
        BY <2>1, <2>7, <2>8 DEF KidServed, b
    <2> QED
        BY <1>2, <2>6, <2>9
<1> QED
    BY <1>1, <1>2

\* A node starts its scan, or its children, with its watches taken.
Started(n) ==
    /\ \A m \in Nodes \ {n} : m \notin Children(n) => Same(m)
    /\ \A c \in Children(n) :
          /\ pc'[c] = "look" /\ seen'[c] = seen[c] /\ tainted'[c] = tainted[c]
          /\ moved'[c] = moved[c] /\ todo'[c] = todo[c]
    /\ pc'[n] = IF n[2] = "main" THEN "join" ELSE "scan"
    /\ n[2] # "main" => seen'[n] = dir
    /\ tainted'[n] = tainted[n] /\ todo'[n] = todo[n] /\ moved'[n] = {}
    /\ scans' = Counted(n)

LEMMA Starts ==
    ASSUME Types, NEW n \in Nodes, Start(n)
    PROVE  /\ Started(n)
           /\ pc' \in [Nodes -> {"off", "look", "wait", "ok", "err"} \cup Live]
           /\ seen' \in [Nodes -> SUBSET Effects] /\ tainted' \in [Nodes -> BOOLEAN]
           /\ moved' \in [Nodes -> SUBSET Keys] /\ todo' \in [Nodes -> SUBSET Keys]
<1> DEFINE at == IF n[2] = "main" THEN "join" ELSE "scan"
           sn == IF n[2] = "main" THEN {} ELSE dir
<1>0. /\ pc \in [Nodes -> {"off", "look", "wait", "ok", "err"} \cup Live]
      /\ seen \in [Nodes -> SUBSET Effects]
      /\ tainted \in [Nodes -> BOOLEAN]
      /\ moved \in [Nodes -> SUBSET Keys]
      /\ todo \in [Nodes -> SUBSET Keys]
      /\ dir \in SUBSET Effects
    BY DEF Types, NodeTypes
<1>1. \A c \in Children(n) : c \in Nodes /\ c # n
    BY ChildFacts
<1>2. /\ moved' = [moved EXCEPT ![n] = {}]
      /\ pc' = [m \in Nodes |-> CASE m \in Children(n) -> "look"
                                  [] m = n -> at
                                  [] OTHER -> pc[m]]
      /\ seen' = [seen EXCEPT ![n] = sn]
      /\ UNCHANGED <<tainted, todo>> /\ scans' = Counted(n)
    BY DEF Start
<1>3. /\ \A c \in Children(n) : pc'[c] = "look"
      /\ pc'[n] = at
      /\ \A m \in Nodes \ {n} : m \notin Children(n) => pc'[m] = pc[m]
    BY <1>1, <1>2
<1>4. pc' \in [Nodes -> {"off", "look", "wait", "ok", "err"} \cup Live]
    <2>1. \A m \in Nodes : pc'[m] \in {"off", "look", "wait", "ok", "err"} \cup Live
        BY <1>0, <1>3 DEF Live
    <2> QED
        BY <1>2, <2>1
<1>5. /\ seen' \in [Nodes -> SUBSET Effects] /\ tainted' \in [Nodes -> BOOLEAN]
      /\ moved' \in [Nodes -> SUBSET Keys] /\ todo' \in [Nodes -> SUBSET Keys]
    BY <1>0, <1>2
<1>6. /\ seen'[n] = sn /\ moved'[n] = {} /\ UNCHANGED <<tainted, todo>>
      /\ \A m \in Nodes \ {n} : seen'[m] = seen[m] /\ moved'[m] = moved[m]
    BY <1>0, <1>2
<1>7. Started(n)
    BY <1>1, <1>2, <1>3, <1>6 DEF Started, Same
<1> QED
    BY <1>4, <1>5, <1>7

\* A node has something to store.
Storing(n, keys, val) ==
    /\ Alone(n) /\ gate' = gate
    /\ keys \ moved[n] # {}
    /\ pc'[n] = "put" /\ todo'[n] = keys \ moved[n] /\ seen'[n] = val
    /\ tainted'[n] = tainted[n] /\ moved'[n] = moved[n]

LEMMA StoresOrReturns ==
    ASSUME Types, NEW n \in Nodes, NEW keys \in SUBSET Keys, NEW val \in SUBSET Effects,
           StoreOrReturn(n, keys, val)
    PROVE  /\ NodeTypes'
           /\ \/ Storing(n, keys, val)
              \/ /\ keys \ moved[n] = {}
                 /\ \/ n[2] = Root(want[n[1]]) /\ RootGone(n)
                    \/ n[2] # Root(want[n[1]]) /\ KidDone(n, Result(n), val)
<1>1. CASE keys \ moved[n] = {}
    <2>1. Returned(n, Result(n), val)
        BY <1>1 DEF StoreOrReturn
    <2>2. Result(n) \in {"ok", "err"}
        BY DEF Result
    <2>3. CASE n[2] = Root(want[n[1]])
        BY <1>1, <2>1, <2>3, RootReturns
    <2>4. CASE n[2] # Root(want[n[1]])
        BY <1>1, <2>1, <2>2, <2>4, KidReturns
    <2> QED
        BY <2>3, <2>4
<1>2. CASE keys \ moved[n] # {}
    <2>1. /\ pc' = [pc EXCEPT ![n] = "put"]
          /\ todo' = [todo EXCEPT ![n] = keys \ moved[n]]
          /\ seen' = [seen EXCEPT ![n] = val]
          /\ UNCHANGED <<gate, tainted, moved>>
        BY <1>2 DEF StoreOrReturn
    <2>2. /\ gate \in [Gates -> Nodes \cup {Free}]
          /\ pc \in [Nodes -> {"off", "look", "wait", "ok", "err"} \cup Live]
          /\ seen \in [Nodes -> SUBSET Effects]
          /\ tainted \in [Nodes -> BOOLEAN]
          /\ moved \in [Nodes -> SUBSET Keys]
          /\ todo \in [Nodes -> SUBSET Keys]
        BY DEF Types, NodeTypes
    <2>3. NodeTypes'
        BY <2>1, <2>2 DEF NodeTypes, Live
    <2>4. Alone(n)
        BY <2>1, <2>2 DEF Alone, Same
    <2>5. pc'[n] = "put" /\ todo'[n] = keys \ moved[n] /\ seen'[n] = val
        BY <2>1, <2>2
    <2>6. Storing(n, keys, val)
        BY <1>2, <2>1, <2>4, <2>5 DEF Storing
    <2> QED
        BY <2>3, <2>6
<1> QED
    BY <1>1, <1>2

-----------------------------------------------------------------------------
(* What the steps of a node preserve.                                      *)

\* No mutation makes a step and no reader asks for another list.
Quiet == UNCHANGED <<dir, want, tier, mpc, left>>

LEMMA QuietFacts ==
    ASSUME Quiet
    PROVE  /\ \A n : /\ Children(n)' = Children(n) /\ Wanted(n)' = Wanted(n)
                     /\ GateOf(n)' = GateOf(n) /\ (InTree(n)' <=> InTree(n))
           /\ \A k, w : /\ Shows(k, w)' <=> Shows(k, w)
                        /\ Pending(w, k)' <=> Pending(w, k)
                        /\ Unbumped(w, k)' <=> Unbumped(w, k)
           /\ \A c, w : Shows(Wanted(c), w)' <=> Shows(Wanted(c), w)
<1>1. \A n : Children(n)' = Children(n)
    BY DEF Quiet, Children
<1>2. \A n : Wanted(n)' = Wanted(n)
    BY DEF Quiet, Wanted
<1>3. \A n : GateOf(n)' = GateOf(n)
    BY DEF Quiet, GateOf
<1>4. \A n : InTree(n)' <=> InTree(n)
    BY DEF Quiet, InTree
<1>5. \A k, w : Shows(k, w)' <=> Shows(k, w)
    BY DEF Quiet, Shows, TierOf
<1>6. \A k, w : /\ Pending(w, k)' <=> Pending(w, k)
                /\ Unbumped(w, k)' <=> Unbumped(w, k)
    BY DEF Quiet, Pending, Unbumped
<1>7. \A c, w : Shows(Wanted(c), w)' <=> Shows(Wanted(c), w)
    BY DEF Quiet, Shows, TierOf, Wanted
<1> QED
    BY <1>1, <1>2, <1>3, <1>4, <1>5, <1>6, <1>7

LocalInv(n) == TreeInv(n) /\ TodoInv(n) /\ SeenInv(n) /\ RaceInv(n)

NodesInv == GateInv /\ \A n \in Nodes : LocalInv(n)

LEMMA Apart ==
    ASSUME ListsInv
    PROVE  /\ Types /\ MutationInv /\ GateInv /\ ColdInv
           /\ \A n \in Nodes : TreeInv(n) /\ TodoInv(n) /\ SeenInv(n) /\ RaceInv(n)
           /\ \A k \in Keys : EntryInv(k)
BY DEF ListsInv

\* What is behind in a child's result is not news to the parent.
ChildOk(c) ==
    pc'[c] \in Seeing /\ ~tainted'[c] =>
        \/ pc[c] \in Seeing /\ ~tainted[c] /\ seen[c] \subseteq seen'[c]
        \/ \A w \in dir \ {Base} : Shows(Wanted(c), w) => w \in seen'[c]

LEMMA RaceKept ==
    ASSUME ListsInv, Quiet, NEW m \in Nodes, Watches(m)' \subseteq Watches(m),
           moved[m] \subseteq moved'[m], m[2] # "main" => seen[m] \subseteq seen'[m],
           \A c \in Children(m) : ChildOk(c)
    PROVE  RaceInv(m)'
<1> SUFFICES ASSUME NEW k \in Watches(m)', NEW w \in dir \ {Base}, Shows(k, w)
             PROVE  /\ m[2] # "main" /\ w \notin seen'[m] => Hears(m, k, w)'
                    /\ \A c \in Children(m) :
                          /\ pc'[c] \in Seeing /\ ~tainted'[c]
                          /\ Shows(Wanted(c), w) /\ w \notin seen'[c]
                          => Hears(m, k, w)'
    BY QuietFacts DEF RaceInv, Quiet
<1>1. RaceInv(m) /\ k \in Watches(m)
    BY Apart
<1>2. Hears(m, k, w) => Hears(m, k, w)'
    BY QuietFacts DEF Hears
<1>3. ASSUME m[2] # "main", w \notin seen'[m] PROVE Hears(m, k, w)'
    BY <1>1, <1>2, <1>3 DEF RaceInv
<1>4. ASSUME NEW c \in Children(m), pc'[c] \in Seeing, ~tainted'[c],
             Shows(Wanted(c), w), w \notin seen'[c]
      PROVE  Hears(m, k, w)'
    <2>1. pc[c] \in Seeing /\ ~tainted[c] /\ w \notin seen[c]
        BY <1>4 DEF ChildOk
    <2> QED
        BY <1>1, <1>2, <1>4, <2>1 DEF RaceInv
<1> QED
    BY <1>3, <1>4

\* A node that rests, with its children, keeps what is known of it.
LEMMA FarKept ==
    ASSUME ListsInv, Quiet, NEW m \in Nodes, Same(m), \A c \in Children(m) : Same(c)
    PROVE  LocalInv(m)'
<1>0. Types
    BY Apart
<1>1. TreeInv(m)'
    BY Apart, QuietFacts DEF TreeInv, Same
<1>2. Watches(m)' = Watches(m)
    BY DEF Watches, Same, Quiet
<1>3. TodoInv(m)'
    <2>1. m[2] = "app" => Same(Kid(m, "pair"))
        BY <1>0, ChildFacts
    <2>2. AllOk(m) => AllOk(m)'
        BY QuietFacts DEF AllOk, Same
    <2> QED
        BY <1>2, <2>1, <2>2, Apart DEF TodoInv, Same, Kid
<1>4. SeenInv(m)'
    BY Apart DEF SeenInv, Same
<1>5. RaceInv(m)'
    BY <1>2, RaceKept DEF Same, ChildOk
<1> QED
    BY <1>1, <1>3, <1>4, <1>5 DEF LocalInv

LEMMA RootGoneKeeps ==
    ASSUME ListsInv, Quiet, NEW n \in Nodes, RootGone(n)
    PROVE  NodesInv'
<1>0. Types
    BY Apart
<1>1. ASSUME NEW m \in Nodes, m[1] # n[1] PROVE LocalInv(m)'
    <2>1. Same(m) /\ \A c \in Children(m) : Same(c)
        BY <1>0, <1>1, ChildFacts DEF RootGone
    <2> QED
        BY <2>1, FarKept
<1>2. ASSUME NEW m \in Nodes, m[1] = n[1] PROVE LocalInv(m)'
    <2>1. pc'[m] = "off" /\ ~tainted'[m]
        BY <1>2 DEF RootGone
    <2>2. \A c \in Children(m) : pc'[c] = "off"
        BY <1>0, <1>2, ChildFacts DEF RootGone
    <2>3. TreeInv(m)'
        BY <2>1, <2>2, QuietFacts DEF TreeInv
    <2>4. TodoInv(m)' /\ SeenInv(m)'
        BY <2>1 DEF TodoInv, SeenInv, Seeing
    <2>5. RaceInv(m)'
        <3>1. Watches(m)' = {}
            BY <2>1 DEF Watches
        <3> QED
            BY <3>1 DEF RaceInv
    <2> QED
        BY <2>3, <2>4, <2>5 DEF LocalInv
<1>3. GateInv'
    <2> SUFFICES ASSUME NEW g \in Gates, gate'[g] # Free
                 PROVE  pc'[gate'[g]] \in Live /\ g \in GateOf(gate'[g])
        BY QuietFacts DEF GateInv
    <2>1. gate'[g] = gate[g] /\ gate[g][1] # n[1] /\ gate[g] \in Nodes
        BY <1>0 DEF RootGone, Types, NodeTypes
    <2>2. pc'[gate[g]] = pc[gate[g]]
        BY <2>1 DEF RootGone, Same
    <2> QED
        BY <2>1, <2>2, Apart DEF GateInv
<1> QED
    BY <1>1, <1>2, <1>3 DEF NodesInv

\* A node that moves by itself.
LEMMA KidMoved ==
    ASSUME ListsInv, Quiet, NEW n \in Nodes, Alone(n), pc[n] \notin {"off", "ok", "err"},
           pc'[n] \in {"wait", "put", "verify", "ok", "err"},
           pc'[n] = "wait" => \A c \in Children(n) : pc[c] = "off",
           pc'[n] # "wait" => \A c \in Children(n) : pc[c] \in {"off", "ok", "err"},
           n[2] # "main" => ChildOk(n), TodoInv(n)', SeenInv(n)', RaceInv(n)',
           \A g \in Gates : gate'[g] # Free => gate'[g] = gate[g],
           \A g \in Gates : gate'[g] = n => pc'[n] \in Live
    PROVE  NodesInv'
<1>0. Types /\ InTree(n)
    BY Apart DEF TreeInv
<1>1. \A m \in Nodes \ {n} : Same(m) /\ pc'[m] = pc[m]
    BY DEF Alone, Same
<1>2. ASSUME NEW m \in Nodes, m # n, n \notin Children(m) PROVE LocalInv(m)'
    <2>1. \A c \in Children(m) : c \in Nodes \ {n}
        BY <1>0, <1>2, ChildFacts
    <2> QED
        BY <1>1, <1>2, <2>1, FarKept
<1>3. ASSUME NEW m \in Nodes, m # n, n \in Children(m) PROVE LocalInv(m)'
    <2>1. TreeInv(m) /\ pc'[m] = pc[m] /\ Same(m)
        BY <1>1, <1>3, Apart
    <2>2. pc[m] \notin {"put", "verify", "ok", "err"}
        BY <1>3, <2>1 DEF TreeInv
    <2>3. InTree(m) => pc[m] \notin {"off", "look", "wait"}
        BY <1>3, <2>1 DEF TreeInv
    <2>4. TreeInv(m)'
        BY <2>1, <2>2, <2>3, QuietFacts DEF TreeInv
    <2>5. TodoInv(m)'
        BY <2>1, <2>2 DEF TodoInv
    <2>6. SeenInv(m)'
        BY <2>1, Apart DEF SeenInv, Same
    <2>7. RaceInv(m)'
        <3>1. ChildOk(n) /\ \A c \in Children(m) : c = n \/ Same(c)
            BY <1>0, <1>1, <1>3, ChildFacts
        <3>2. \A c \in Children(m) : ChildOk(c)
            BY <3>1 DEF ChildOk, Same
        <3>3. Watches(m)' = Watches(m)
            BY <2>1 DEF Watches, Quiet
        <3> QED
            BY <2>1, <3>2, <3>3, RaceKept DEF Same
    <2> QED
        BY <2>4, <2>5, <2>6, <2>7 DEF LocalInv
<1>4. LocalInv(n)'
    <2>1. \A c \in Children(n) : pc'[c] = pc[c]
        BY <1>0, <1>1, ChildFacts
    <2>2. TreeInv(n)'
        BY <1>0, <2>1, QuietFacts DEF TreeInv
    <2> QED
        BY <2>2 DEF LocalInv
<1>5. GateInv'
    <2> SUFFICES ASSUME NEW g \in Gates, gate'[g] # Free
                 PROVE  pc'[gate'[g]] \in Live /\ g \in GateOf(gate'[g])
        BY QuietFacts DEF GateInv
    <2>1. gate'[g] = gate[g] /\ gate[g] \in Nodes
        BY <1>0 DEF Types, NodeTypes
    <2>2. pc[gate[g]] \in Live /\ g \in GateOf(gate[g])
        BY <2>1, Apart DEF GateInv
    <2> QED
        BY <1>1, <2>1, <2>2
<1> QED
    BY <1>2, <1>3, <1>4, <1>5 DEF NodesInv

LEMMA StartedKeeps ==
    ASSUME ListsInv, Quiet, NEW n \in Nodes, Started(n), pc[n] \in {"look", "wait"},
           \A g \in Gates : gate'[g] = gate[g] \/ (gate'[g] = n /\ g \in GateOf(n))
    PROVE  NodesInv'
<1>0. Types /\ InTree(n) /\ ~tainted[n] /\ \A c \in Children(n) : pc[c] = "off"
    BY Apart DEF TreeInv, SeenInv
<1>1. \A c \in Children(n) : c \in Nodes /\ c # n /\ InTree(c)
    BY <1>0, ChildFacts, ChildInTree
<1>2. ASSUME NEW m \in Nodes \ {n}, m \notin Children(n), n \notin Children(m)
      PROVE  LocalInv(m)'
    <2>1. \A c \in Children(m) : c \in Nodes \ {n} /\ c \notin Children(n)
        BY <1>0, <1>2, ChildFacts
    <2> QED
        BY <1>2, <2>1, FarKept DEF Started
<1>3. ASSUME NEW m \in Children(n) PROVE LocalInv(m)'
    <2>1. pc'[m] = "look" /\ tainted'[m] = tainted[m] /\ pc[m] = "off" /\ m \in Nodes
        BY <1>0, <1>1 DEF Started
    <2>2. \A c \in Children(m) : pc[c] = "off" /\ c \in Nodes \ {n} /\ c \notin Children(n)
        <3>1. \A c \in Children(m) : pc[c] = "off"
            BY <1>1, <2>1, Apart DEF TreeInv
        <3>2. \A c \in Children(m) : c \in Nodes /\ c # n /\ c \notin Children(n)
            BY <1>0, <1>1, <2>1, ChildFacts, NodeFacts DEF Roles
        <3> QED
            BY <3>1, <3>2
    <2>3. TreeInv(m)'
        BY <1>1, <2>1, <2>2, QuietFacts DEF TreeInv, Started, Same
    <2>4. TodoInv(m)' /\ SeenInv(m)'
        BY <2>1, Apart DEF TodoInv, SeenInv, Seeing
    <2>5. Watches(m)' = {}
        BY <2>1 DEF Watches
    <2> QED
        BY <2>3, <2>4, <2>5 DEF LocalInv, RaceInv
<1>4. ASSUME NEW m \in Nodes, n \in Children(m) PROVE LocalInv(m)'
    <2>0. m # n /\ m \notin Children(n) /\ Same(m) /\ n[2] # "main"
        BY <1>0, <1>1, <1>4, ChildFacts, NodeFacts DEF Roles, Started
    <2>1. TreeInv(m) /\ pc'[m] = pc[m]
        BY <1>4, <2>0, Apart DEF Same
    <2>2. pc[m] \notin {"put", "verify", "ok", "err"}
        BY <1>4, <2>1 DEF TreeInv
    <2>3. InTree(m) => pc[m] \notin {"off", "look", "wait"}
        BY <1>4, <2>1 DEF TreeInv
    <2>4. TreeInv(m)'
        BY <2>1, <2>2, <2>3, QuietFacts DEF TreeInv
    <2>5. TodoInv(m)'
        BY <2>1, <2>2 DEF TodoInv
    <2>6. SeenInv(m)'
        BY <2>0, Apart DEF SeenInv, Same
    <2>7. RaceInv(m)'
        <3>1. \A c \in Children(m) : c = n \/ Same(c)
            <4>1. \A c \in Children(m) : c \notin Children(n) /\ c \in Nodes
                BY <1>0, <2>0, ChildFacts
            <4> QED
                BY <4>1 DEF Started
        <3>2. ChildOk(n)
            BY <2>0 DEF ChildOk, Started
        <3>3. \A c \in Children(m) : ChildOk(c)
            BY <3>1, <3>2 DEF ChildOk, Same
        <3>4. Watches(m)' = Watches(m)
            BY <2>1 DEF Watches, Quiet
        <3> QED
            BY <2>0, <3>3, <3>4, RaceKept DEF Same
    <2> QED
        BY <2>4, <2>5, <2>6, <2>7 DEF LocalInv
<1>5. LocalInv(n)'
    <2>1. pc'[n] = IF n[2] = "main" THEN "join" ELSE "scan"
        BY DEF Started
    <2>2. TreeInv(n)'
        BY <1>0, <2>1, QuietFacts DEF TreeInv
    <2>3. TodoInv(n)'
        BY <2>1 DEF TodoInv
    <2>4. SeenInv(n)'
        BY <1>0, <2>1, Apart DEF SeenInv, Started, MutationInv
    <2>5. RaceInv(n)'
        <3>1. \A c \in Children(n)' : pc'[c] \notin Seeing
            BY QuietFacts DEF Started, Seeing
        <3>2. n[2] # "main" => \A w \in dir' : w \in seen'[n]
            BY DEF Started, Quiet
        <3> QED
            BY <3>1, <3>2 DEF RaceInv
    <2> QED
        BY <2>2, <2>3, <2>4, <2>5 DEF LocalInv
<1>6. GateInv'
    <2> SUFFICES ASSUME NEW g \in Gates, gate'[g] # Free
                 PROVE  pc'[gate'[g]] \in Live /\ g \in GateOf(gate'[g])
        BY QuietFacts DEF GateInv
    <2>1. CASE gate'[g] = n /\ g \in GateOf(n)
        BY <2>1 DEF Started, Live
    <2>2. CASE gate'[g] = gate[g]
        <3>1. pc[gate[g]] \in Live /\ g \in GateOf(gate[g]) /\ gate[g] \in Nodes
            BY <1>0, <2>2, Apart DEF GateInv, Types, NodeTypes
        <3>2. gate[g] # n /\ gate[g] \notin Children(n)
            BY <1>0, <3>1 DEF Live
        <3> QED
            BY <2>2, <3>1, <3>2 DEF Started, Same
    <2> QED
        BY <2>1, <2>2
<1> QED
    BY <1>2, <1>3, <1>4, <1>5, <1>6 DEF NodesInv

-----------------------------------------------------------------------------
(* What a step of a node leaves alone.                                     *)

LEMMA Assembled ==
    ASSUME Types', MutationInv', NodesInv', \A k \in Keys : EntryInv(k)', ColdInv'
    PROVE  ListsInv'
BY DEF ListsInv, NodesInv, LocalInv

LEMMA QuietKeeps ==
    ASSUME ListsInv, Quiet, NodeTypes', cache' \in [Keys -> Entries \cup {NoEntry}],
           scans' \in [Collections -> Nat], failures' \in Nat
    PROVE  Types' /\ MutationInv'
<1>1. Types'
    BY Apart DEF Types, Quiet
<1>2. MutationInv'
    BY Apart DEF MutationInv, Quiet
<1> QED
    BY <1>1, <1>2

\* When the root of a reader has no child at work, no other node of it is.
LEMMA RestOfTree ==
    ASSUME ListsInv, NEW n \in Nodes, n[2] = Root(want[n[1]]),
           \A c \in Children(n) : pc[c] \in {"off", "ok", "err"}
    PROVE  \A m \in Nodes \ {n} : m[1] = n[1] => pc[m] \in {"off", "ok", "err"}
<1> SUFFICES ASSUME NEW m \in Nodes \ {n}, m[1] = n[1], InTree(m), m \notin Children(n)
             PROVE  pc[m] \in {"off", "ok", "err"}
    BY Apart DEF TreeInv
<1>0. Types /\ want[n[1]] \in Keys /\ m[2] # n[2] /\ m[2] \in Roles
    BY Apart, NodeFacts DEF Types
<1>1. /\ want[n[1]] \in Derived => n[2] = "main"
      /\ want[n[1]] \in Scanned => n[2] = "app"
      /\ want[n[1]] = "sp_index" => n[2] = "sp"
    BY DEF Root, Derived, Scanned
<1>2. Kid(n, "pair") \in Nodes /\ Kid(n, "app") \in Nodes /\ Kid(n, "sp") \in Nodes
    BY NodeFacts DEF Roles
<1>3. m = Kid(n, m[2])
    BY <1>0, NodeFacts
<1>4. CASE want[n[1]] \in Derived
    <2>1. n[2] = "main" /\ m[2] # "sp"
        BY <1>0, <1>1, <1>3, <1>4, ChildFacts
    <2>2. want[n[1]] # "mi"
        BY <1>0, <2>1 DEF InTree, Roles, Derived, Scanned
    <2>3. m[2] = "pair" /\ Kid(n, "app") \in Children(n)
        BY <1>0, <1>3, <2>1, <2>2, ChildFacts DEF Roles
    <2>4. m \in Children(Kid(n, "app"))
        BY <1>0, <1>2, <1>3, <2>3, ChildFacts, NodeFacts DEF Roles, Kid
    <2>5. InTree(Kid(n, "app"))
        BY <1>4, <2>2, NodeFacts DEF InTree, Roles
    <2>6. TreeInv(Kid(n, "app")) /\ pc[Kid(n, "app")] \in {"off", "ok", "err"}
        BY <1>2, <2>3, Apart
    <2> QED
        BY <2>4, <2>5, <2>6 DEF TreeInv
<1>5. CASE want[n[1]] \in Scanned
    <2>1. n[2] = "app" /\ m[2] # "pair"
        BY <1>0, <1>1, <1>3, <1>5, ChildFacts
    <2> QED
        BY <1>0, <1>5, <2>1 DEF InTree, Roles, Derived, Scanned
<1>6. CASE want[n[1]] = "sp_index"
    BY <1>0, <1>1, <1>6 DEF InTree, Roles, Derived, Scanned
<1> QED
    BY <1>0, <1>4, <1>5, <1>6 DEF Keys

\* An entry stays accounted for while the checks of its store go on.
LEMMA EntriesKept ==
    ASSUME ListsInv, Quiet, cache' = cache,
           \A n \in Nodes : pc[n] = "verify" =>
              pc'[n] = "verify" /\ todo'[n] = todo[n] /\ moved[n] \subseteq moved'[n]
    PROVE  \A k \in Keys : EntryInv(k)'
<1> SUFFICES ASSUME NEW k \in Keys PROVE EntryInv(k)'
    OBVIOUS
<1>1. EntryInv(k)
    BY Apart
<1>2. Doomed(k) => Doomed(k)'
    BY DEF Doomed
<1> QED
    BY <1>1, <1>2, QuietFacts DEF EntryInv, Quiet

LEMMA ColdKept ==
    ASSUME Cold, UNCHANGED scans,
           \A k \in Keys : cache[k] # NoEntry => cache'[k] # NoEntry,
           \A n \in Nodes : moved'[n] = {} /\ pc'[n] # "err",
           \A n \in Nodes : pc'[n] = "verify" => cache'[First(todo'[n])] # NoEntry,
           \A n \in Nodes : n[2] = "app" /\ pc'[n] \in {"put", "verify"} =>
              \A k \in Scanned \ todo'[n] : cache'[k] # NoEntry,
           gate'["apps_pairing"] # Free \/ gate["apps_pairing"] = Free
              \/ \A k \in Scanned : cache'[k] # NoEntry,
           gate'["sp_index"] # Free \/ gate["sp_index"] = Free
              \/ cache'["sp_index"] # NoEntry
    PROVE  Cold'
BY DEF Cold, Scanned, Keys

\* Who holds the two gates of the scans.
LEMMA Holders ==
    ASSUME ListsInv, NEW g \in {"apps_pairing", "sp_index"}, gate[g] # Free
    PROVE  /\ gate[g] \in Nodes /\ pc[gate[g]] \in Live
           /\ gate[g][2] # "main"
           /\ gate[g][2] = "app" => g = "apps_pairing"
           /\ gate[g][2] # "app" => g = "sp_index"
<1>1. g \in Gates /\ gate[g] \in Nodes
    BY Apart DEF Gates, Types, NodeTypes
<1>2. pc[gate[g]] \in Live /\ g \in GateOf(gate[g])
    BY <1>1, Apart DEF GateInv
<1>3. gate[g][2] \in {"main", "sp", "app", "pair"}
    BY <1>1, NodeFacts DEF Roles
<1> QED
    BY <1>1, <1>2, <1>3 DEF GateOf

-----------------------------------------------------------------------------
(* The steps of a node.                                                    *)

\* A read that leaves the cache as it was, and whose nodes are not checking.
LEMMA RootGoneIsSafe ==
    ASSUME ListsInv, Quiet, NEW n \in Nodes, RootGone(n), NodeTypes',
           UNCHANGED <<cache, scans, failures>>,
           \A m \in Nodes : m[1] = n[1] => pc[m] # "verify",
           Cold => \A m \in Nodes : m[1] = n[1] /\ pc[m] \in Live => m[2] = "main"
    PROVE  ListsInv'
<1>1. Types' /\ MutationInv'
    BY QuietKeeps, Apart DEF Types
<1>2. NodesInv'
    BY RootGoneKeeps
<1>3. \A k \in Keys : EntryInv(k)'
    <2>1. \A m \in Nodes : pc[m] = "verify" => Same(m)
        BY DEF RootGone
    <2> QED
        BY <2>1, EntriesKept DEF Same
<1>4. ASSUME Cold PROVE Cold'
    <2>1. \A m \in Nodes : moved'[m] = {} /\ pc'[m] # "err"
        BY <1>4 DEF RootGone, Same, Cold
    <2>2. \A m \in Nodes : pc'[m] \in {"put", "verify"} =>
             pc[m] = pc'[m] /\ todo'[m] = todo[m]
        BY DEF RootGone, Same
    <2>3. ASSUME NEW g \in {"apps_pairing", "sp_index"}, gate[g] # Free
          PROVE  gate'[g] # Free
        <3>1. gate[g] \in Nodes /\ pc[gate[g]] \in Live /\ gate[g][2] # "main"
            BY <2>3, Holders
        <3>2. gate[g][1] # n[1]
            BY <1>4, <3>1
        <3> QED
            BY <2>3, <3>2 DEF RootGone, Gates
    <2>4. \A m \in Nodes : pc'[m] = "verify" => cache'[First(todo'[m])] # NoEntry
        BY <1>4, <2>2 DEF Cold
    <2>5. \A m \in Nodes : m[2] = "app" /\ pc'[m] \in {"put", "verify"} =>
             \A k \in Scanned \ todo'[m] : cache'[k] # NoEntry
        BY <1>4, <2>2 DEF Cold
    <2> QED
        BY <1>4, <2>1, <2>3, <2>4, <2>5, ColdKept
<1>5. ColdInv'
    BY <1>4, Apart DEF ColdInv, Quiet
<1> QED
    BY <1>1, <1>2, <1>3, <1>5, Assembled

\* A node that has looked, found or not, with nothing else moving.
LEMMA KidMovedIsSafe ==
    ASSUME ListsInv, Quiet, NEW n \in Nodes, Alone(n), NodesInv', NodeTypes', gate' = gate,
           UNCHANGED <<cache, scans, failures>>, moved'[n] = moved[n],
           pc[n] # "verify", pc'[n] \in {"wait", "ok"}
    PROVE  ListsInv'
<1>1. Types' /\ MutationInv'
    BY QuietKeeps, Apart DEF Types
<1>2. \A m \in Nodes : pc'[m] \in {"put", "verify"} =>
         pc[m] = pc'[m] /\ todo'[m] = todo[m]
    BY DEF Alone, Same
<1>3. \A k \in Keys : EntryInv(k)'
    <2>1. \A m \in Nodes : pc[m] = "verify" => Same(m)
        BY DEF Alone
    <2> QED
        BY <2>1, EntriesKept DEF Same
<1>4. ASSUME Cold PROVE Cold'
    <2>1. \A m \in Nodes : moved'[m] = {} /\ pc'[m] # "err"
        BY <1>4 DEF Alone, Same, Cold
    <2>2. \A m \in Nodes : pc'[m] = "verify" => cache'[First(todo'[m])] # NoEntry
        BY <1>2, <1>4 DEF Cold
    <2>3. \A m \in Nodes : m[2] = "app" /\ pc'[m] \in {"put", "verify"} =>
             \A k \in Scanned \ todo'[m] : cache'[k] # NoEntry
        BY <1>2, <1>4 DEF Cold
    <2> QED
        BY <1>4, <2>1, <2>2, <2>3, ColdKept
<1>5. ColdInv'
    BY <1>4, Apart DEF ColdInv, Quiet
<1> QED
    BY <1>1, <1>3, <1>5, Assembled

LEMMA ServeKeeps ==
    ASSUME ListsInv, NEW n \in Nodes, pc[n] \in {"look", "wait"}, Serve(n),
           UNCHANGED <<dir, cache, want, failures, mutationVars, scans>>
    PROVE  ListsInv'
<1>0. Types /\ InTree(n) /\ Quiet /\ \A c \in Children(n) : pc[c] = "off"
    BY Apart DEF TreeInv, Quiet, mutationVars
<1>1. NodeTypes'
    BY <1>0, Serves
<1>2. CASE n[2] = Root(want[n[1]]) /\ RootGone(n)
    <2>1. \A m \in Nodes : m[1] = n[1] => pc[m] \in {"off", "ok", "err", "look", "wait"}
        BY <1>0, <1>2, RestOfTree
    <2> QED
        BY <1>0, <1>1, <1>2, <2>1, RootGoneIsSafe DEF Live
<1>3. CASE n[2] # Root(want[n[1]]) /\ KidServed(n)
    <2>1. ~tainted[n]
        BY Apart DEF SeenInv
    <2>2. Wanted(n) \in Keys /\ EntryInv(Wanted(n))
        BY <1>0, WantedFacts, Apart
    <2>3. ChildOk(n)
        BY <1>3 DEF ChildOk, KidServed, Behind
    <2>4. TodoInv(n)' /\ RaceInv(n)'
        <3>1. pc'[n] = "ok"
            BY <1>3 DEF KidServed
        <3>2. Watches(n)' = {}
            BY <3>1 DEF Watches
        <3> QED
            BY <3>1, <3>2 DEF TodoInv, RaceInv
    <2>5. SeenInv(n)'
        BY <1>3, <2>2 DEF SeenInv, KidServed, EntryInv
    <2>6. \A g \in Gates : gate[g] # n
        BY <1>0, Apart, ListsAssumption DEF GateInv, Live
    <2>7. NodesInv'
        <3>1. /\ Alone(n) /\ pc'[n] = "ok" /\ gate' = gate
              /\ pc[n] \notin {"off", "ok", "err"}
            BY <1>3 DEF KidServed
        <3> QED
            BY <1>0, <2>3, <2>4, <2>5, <2>6, <3>1, KidMoved
    <2> QED
        BY <1>0, <1>1, <1>3, <2>7, KidMovedIsSafe DEF KidServed
<1> QED
    BY <1>0, <1>2, <1>3, Serves

LEMMA WaitKeeps ==
    ASSUME ListsInv, NEW n \in Nodes, pc[n] = "look",
           pc' = [pc EXCEPT ![n] = "wait"],
           UNCHANGED <<seen, tainted, moved, todo, gate, scans>>,
           UNCHANGED <<dir, cache, want, failures, mutationVars>>
    PROVE  ListsInv'
<1>0. Types /\ InTree(n) /\ Quiet /\ \A c \in Children(n) : pc[c] = "off"
    BY Apart DEF TreeInv, Quiet, mutationVars
<1>1. NodeTypes'
    BY <1>0 DEF Types, NodeTypes
<1>2. Alone(n) /\ pc'[n] = "wait"
    BY <1>0 DEF Types, NodeTypes, Alone, Same
<1>3. ChildOk(n) /\ TodoInv(n)'
    BY <1>2 DEF ChildOk, Seeing, TodoInv
<1>4. RaceInv(n)'
    <2>1. Watches(n)' = {}
        BY <1>2 DEF Watches
    <2> QED
        BY <2>1 DEF RaceInv
<1>5. SeenInv(n)'
    BY <1>2, Apart DEF SeenInv, Seeing
<1>6. \A g \in Gates : gate[g] # n
    BY <1>0, Apart, ListsAssumption DEF GateInv, Live
<1>7. NodesInv'
    BY <1>0, <1>2, <1>3, <1>4, <1>5, <1>6, KidMoved
<1> QED
    BY <1>0, <1>1, <1>2, <1>7, KidMovedIsSafe

\* A scan that starts in the cold is the first of its collection.
LEMMA StartKeeps ==
    ASSUME ListsInv, NEW n \in Nodes, pc[n] \in {"look", "wait"}, Start(n),
           cache[Wanted(n)] = NoEntry,
           \A g \in GateOf(n) : gate[g] = Free,
           gate' = [g \in Gates |-> IF g \in GateOf(n) THEN n ELSE gate[g]],
           UNCHANGED <<dir, cache, want, failures, mutationVars>>
    PROVE  ListsInv'
<1>0. Types /\ InTree(n) /\ Quiet
    BY Apart DEF TreeInv, Quiet, mutationVars
<1>1. Started(n)
    BY <1>0, Starts
<1>2. gate \in [Gates -> Nodes \cup {Free}]
    BY <1>0 DEF Types, NodeTypes
<1>3. NodeTypes'
    <2>1. gate' \in [Gates -> Nodes \cup {Free}]
        BY <1>2
    <2> QED
        BY <1>0, <2>1, Starts DEF NodeTypes
<1>4. scans \in [Collections -> Nat] /\ failures \in Nat
    BY <1>0 DEF Types
<1>5. scans' = Counted(n) /\ Collection(n) \in Collections
    BY <1>1 DEF Started, Collection, Collections
<1>6. scans' \in [Collections -> Nat]
    BY <1>4, <1>5 DEF Counted
<1>7. Types' /\ MutationInv'
    BY <1>0, <1>3, <1>4, <1>6, QuietKeeps DEF Types
<1>8. NodesInv'
    BY <1>0, <1>1, <1>2, StartedKeeps
<1>9. \A k \in Keys : EntryInv(k)'
    <2>1. \A m \in Nodes : pc[m] = "verify" => m # n /\ m \notin Children(n)
        BY Apart, <1>0 DEF TreeInv
    <2>2. \A m \in Nodes : pc[m] = "verify" => Same(m)
        BY <1>1, <2>1 DEF Started
    <2> QED
        BY <1>0, <2>2, EntriesKept DEF Same
<1>10. ASSUME Cold, dir = {Base}, failures = 0 PROVE Cold'
    <2>0. \A c \in Children(n) : c \in Nodes /\ c # n
        BY <1>0, ChildFacts
    <2>1. \A m \in Nodes : moved'[m] = {} /\ pc'[m] # "err"
        BY <1>1, <1>10, <2>0 DEF Started, Same, Cold
    <2>2. \A m \in Nodes : pc'[m] \in {"put", "verify"} =>
             pc[m] = pc'[m] /\ todo'[m] = todo[m]
        BY <1>1, <2>0 DEF Started, Same
    <2>3. \A m \in Nodes : pc'[m] = "verify" => cache'[First(todo'[m])] # NoEntry
        BY <1>10, <2>2 DEF Cold
    <2>4. \A m \in Nodes : m[2] = "app" /\ pc'[m] \in {"put", "verify"} =>
             \A k \in Scanned \ todo'[m] : cache'[k] # NoEntry
        BY <1>10, <2>2 DEF Cold
    <2>5. \A g \in Gates : /\ gate[g] # Free => gate'[g] # Free
                           /\ g \in GateOf(n) => gate'[g] # Free
        BY <1>2, ListsAssumption
    <2>6. CASE n[2] = "main"
        <3>1. scans' = scans
            BY <1>5, <2>6 DEF Counted
        <3> QED
            BY <1>10, <2>1, <2>3, <2>4, <2>5, <3>1, ColdKept DEF Gates
    <2>7. CASE n[2] = "app"
        <3>1. "apps_pairing" \in GateOf(n) /\ "apps_pairing" \in Gates
            BY <2>7 DEF GateOf, Gates
        <3>2. Wanted(n) \in Scanned
            BY <1>0, <2>7, WantedFacts
        <3>3. scans["applications"] = 0
            BY <1>10, <3>1, <3>2 DEF Cold
        <3>4. scans' = [scans EXCEPT !["applications"] = @ + 1]
            BY <1>5, <1>10, <2>7 DEF Counted, Collection
        <3>5. scans'["applications"] = 1 /\ scans'["servicePrincipals"] = scans["servicePrincipals"]
            BY <1>4, <3>3, <3>4 DEF Collections
        <3>6. gate'["apps_pairing"] # Free /\ (gate["sp_index"] # Free => gate'["sp_index"] # Free)
            BY <2>5, <3>1 DEF Gates
        <3> QED
            BY <1>10, <2>1, <2>3, <2>4, <3>5, <3>6 DEF Cold
    <2>8. CASE n[2] \in {"sp", "pair"}
        <3>1. "sp_index" \in GateOf(n) /\ "sp_index" \in Gates
            BY <2>8 DEF GateOf, Gates
        <3>2. Wanted(n) = "sp_index"
            BY <1>0, <2>8, WantedFacts
        <3>3. scans["servicePrincipals"] = 0
            BY <1>10, <3>1, <3>2 DEF Cold
        <3>4. scans' = [scans EXCEPT !["servicePrincipals"] = @ + 1]
            <4>1. n[2] # "main" /\ Collection(n) = "servicePrincipals"
                BY <2>8 DEF Collection
            <4>2. scans' = [scans EXCEPT ![Collection(n)] = @ + 1]
                BY <1>5, <1>10, <4>1 DEF Counted
            <4> QED
                BY <4>1, <4>2
        <3>5. scans'["servicePrincipals"] = 1 /\ scans'["applications"] = scans["applications"]
            BY <1>4, <3>3, <3>4 DEF Collections
        <3>6. gate'["sp_index"] # Free
              /\ (gate["apps_pairing"] # Free => gate'["apps_pairing"] # Free)
            BY <2>5, <3>1 DEF Gates
        <3> QED
            BY <1>10, <2>1, <2>3, <2>4, <3>5, <3>6 DEF Cold
    <2> QED
        BY <2>6, <2>7, <2>8, NodeFacts DEF Roles
<1>11. ColdInv'
    BY <1>0, <1>10, Apart DEF ColdInv, Quiet
<1> QED
    BY <1>7, <1>8, <1>9, <1>11, Assembled

LEMMA LookKeeps ==
    ASSUME ListsInv, NEW n \in Nodes, Look(n)
    PROVE  ListsInv'
<1>1. CASE Serve(n) /\ UNCHANGED scans
    BY <1>1, ServeKeeps DEF Look
<1>2. CASE /\ cache[Wanted(n)] = NoEntry /\ GateOf(n) # {}
           /\ pc' = [pc EXCEPT ![n] = "wait"]
           /\ UNCHANGED <<seen, tainted, moved, todo, gate, scans>>
    BY <1>2, WaitKeeps DEF Look
<1>3. CASE cache[Wanted(n)] = NoEntry /\ GateOf(n) = {} /\ Start(n) /\ UNCHANGED gate
    <2>1. gate' = [g \in Gates |-> IF g \in GateOf(n) THEN n ELSE gate[g]]
        BY <1>3, Apart DEF Types, NodeTypes
    <2> QED
        BY <1>3, <2>1, StartKeeps DEF Look
<1> QED
    BY <1>1, <1>2, <1>3 DEF Look

LEMMA EnterKeeps ==
    ASSUME ListsInv, NEW n \in Nodes, Enter(n)
    PROVE  ListsInv'
<1>1. CASE Serve(n) /\ UNCHANGED scans
    BY <1>1, ServeKeeps DEF Enter
<1>2. CASE /\ cache[Wanted(n)] = NoEntry /\ Start(n)
           /\ gate' = [g \in Gates |-> IF g \in GateOf(n) THEN n ELSE gate[g]]
    BY <1>2, StartKeeps DEF Enter
<1> QED
    BY <1>1, <1>2 DEF Enter

\* A node below has its result, or none.
LEMMA KidDoneKeeps ==
    ASSUME ListsInv, Quiet, NEW n \in Nodes, n[2] # Root(want[n[1]]),
           pc[n] \in {"scan", "verify"}, \A c \in Children(n) : pc[c] \in {"off", "ok", "err"},
           NEW result \in {"ok", "err"}, NEW val, result = "ok" => seen[n] \subseteq val,
           KidDone(n, result, val)
    PROVE  NodesInv'
<1>0. Types /\ InTree(n) /\ ~tainted[n]
    BY Apart DEF TreeInv, SeenInv
<1>1. n[2] # "main"
    BY <1>0 DEF InTree, Root, Derived, Scanned
<1>2. Base \in seen[n]
    BY <1>1, Apart DEF SeenInv, Seeing
<1>3. pc'[n] = result /\ seen'[n] = val /\ tainted'[n] = tainted[n] /\ Alone(n)
    BY DEF KidDone
<1>4. ChildOk(n) /\ SeenInv(n)' /\ TodoInv(n)'
    BY <1>0, <1>2, <1>3 DEF ChildOk, SeenInv, TodoInv, Seeing
<1>5. RaceInv(n)'
    <2>1. Watches(n)' = {}
        BY <1>3 DEF Watches
    <2> QED
        BY <2>1 DEF RaceInv
<1>6. \A g \in Gates : gate'[g] # Free => gate'[g] = gate[g] /\ gate'[g] # n
    BY DEF KidDone
<1>7. \A g \in Gates : gate'[g] = n => pc'[n] \in Live
    BY <1>6, ListsAssumption
<1> QED
    BY <1>3, <1>4, <1>5, <1>6, <1>7, KidMoved

\* A node goes on to store what it has.
LEMMA StoringKeeps ==
    ASSUME ListsInv, Quiet, NEW n \in Nodes, NEW keys, NEW val, Storing(n, keys, val),
           pc[n] \in {"scan", "join", "verify"}, keys \subseteq Watches(n),
           \A c \in Children(n) : pc[c] \in {"off", "ok", "err"},
           n[2] = "main" => AllOk(n),
           n[2] = "app" /\ "apps_pairing" \in keys => pc[Kid(n, "pair")] = "ok",
           n[2] # "main" => seen[n] \subseteq val
    PROVE  NodesInv'
<1>0. Types /\ InTree(n) /\ ~tainted[n]
    BY Apart DEF TreeInv, SeenInv
<1>1. n[2] # "main" => pc[n] \in Seeing /\ Base \in seen[n]
    BY Apart DEF TreeInv, SeenInv, Seeing
<1>2. /\ Alone(n) /\ gate' = gate /\ keys \ moved[n] # {}
      /\ pc'[n] = "put" /\ todo'[n] = keys \ moved[n] /\ seen'[n] = val
      /\ tainted'[n] = tainted[n] /\ moved'[n] = moved[n]
    BY DEF Storing
<1>3. ASSUME NEW c \in Children(n) PROVE Same(c)
    BY <1>0, <1>2, ChildFacts DEF Alone
<1>4. Watches(n)' = Watches(n)
    BY <1>2 DEF Watches, Quiet
<1>5. TodoInv(n)'
    <2>1. AllOk(n) => AllOk(n)'
        BY <1>3, QuietFacts DEF AllOk, Same
    <2>2. n[2] = "app" => Same(Kid(n, "pair"))
        BY <1>0, <1>3, ChildFacts
    <2> QED
        BY <1>2, <1>4, <2>1, <2>2 DEF TodoInv, Same, Kid
<1>6. SeenInv(n)'
    BY <1>0, <1>1, <1>2 DEF SeenInv
<1>7. n[2] # "main" => ChildOk(n)
    BY <1>0, <1>1, <1>2 DEF ChildOk
<1>8. RaceInv(n)'
    <2>1. \A c \in Children(n) : ChildOk(c)
        BY <1>3 DEF Same, ChildOk
    <2> QED
        BY <1>2, <1>4, <2>1, RaceKept
<1>9. \A g \in Gates : gate'[g] = n => pc'[n] \in Live
    BY <1>2 DEF Live
<1> QED
    BY <1>2, <1>5, <1>6, <1>7, <1>8, <1>9, KidMoved

LEMMA StoringIsSafe ==
    ASSUME ListsInv, Quiet, NEW n \in Nodes, NEW keys, NEW val, Storing(n, keys, val),
           NodesInv', NodeTypes', UNCHANGED <<cache, scans, failures>>,
           pc[n] # "verify", Cold /\ n[2] = "app" => Scanned \subseteq keys
    PROVE  ListsInv'
<1>1. Types' /\ MutationInv'
    BY QuietKeeps, Apart DEF Types
<1>2. \A k \in Keys : EntryInv(k)'
    <2>1. \A m \in Nodes : pc[m] = "verify" => Same(m)
        BY DEF Storing, Alone
    <2> QED
        BY <2>1, EntriesKept DEF Same
<1>3. ASSUME Cold PROVE Cold'
    <2>1. \A m \in Nodes : moved'[m] = {} /\ pc'[m] # "err"
        BY <1>3 DEF Storing, Alone, Same, Cold
    <2>2. \A m \in Nodes \ {n} : pc[m] = pc'[m] /\ todo'[m] = todo[m]
        BY DEF Storing, Alone, Same
    <2>3. pc'[n] = "put" /\ todo'[n] = keys
        BY <1>3 DEF Storing, Cold
    <2>4. \A m \in Nodes : pc'[m] = "verify" => cache'[First(todo'[m])] # NoEntry
        BY <1>3, <2>2, <2>3 DEF Cold
    <2>5. \A m \in Nodes : m[2] = "app" /\ pc'[m] \in {"put", "verify"} =>
             \A k \in Scanned \ todo'[m] : cache'[k] # NoEntry
        BY <1>3, <2>2, <2>3 DEF Cold
    <2>6. gate' = gate
        BY DEF Storing
    <2> QED
        BY <1>3, <2>1, <2>4, <2>5, <2>6, ColdKept
<1>4. ColdInv'
    BY <1>3, Apart DEF ColdInv, Quiet
<1> QED
    BY <1>1, <1>2, <1>4, Assembled

LEMMA ScanKeeps ==
    ASSUME ListsInv, NEW n \in Nodes, Scan(n)
    PROVE  ListsInv'
<1>0. Types /\ InTree(n) /\ Quiet /\ n[2] \in {"app", "sp", "pair"} /\ pc[n] = "scan"
    BY Apart, NodeFacts DEF TreeInv, Quiet, mutationVars, Scan, Roles
<1>1. \A c \in Children(n) : pc[c] \in {"ok", "err"} /\ c \in Nodes
    BY <1>0, ChildFacts DEF Scan, Ended
<1>2. UNCHANGED <<cache, scans, failures>>
    BY DEF Scan
<1>3. PICK more \in SUBSET (dir \ seen[n]) : StoreOrReturn(n, Stores(n), seen[n] \cup more)
    BY DEF Scan
<1>4. /\ Stores(n) # {} /\ Stores(n) \in SUBSET Keys /\ Stores(n) \subseteq Watches(n)
      /\ n[2] = "app" /\ "apps_pairing" \in Stores(n) => pc[Kid(n, "pair")] = "ok"
    BY <1>0 DEF Stores, Keys, Scanned, Watches
<1>5. seen[n] \cup more \in SUBSET Effects
    BY <1>0 DEF Types, NodeTypes
<1>6. /\ NodeTypes'
      /\ \/ Storing(n, Stores(n), seen[n] \cup more)
         \/ /\ Stores(n) \ moved[n] = {}
            /\ \/ n[2] = Root(want[n[1]]) /\ RootGone(n)
               \/ n[2] # Root(want[n[1]]) /\ KidDone(n, Result(n), seen[n] \cup more)
    BY <1>0, <1>3, <1>4, <1>5, StoresOrReturns
<1>7. CASE Storing(n, Stores(n), seen[n] \cup more)
    <2>1. NodesInv'
        BY <1>0, <1>1, <1>4, <1>7, StoringKeeps
    <2>2. Cold /\ n[2] = "app" => Scanned \subseteq Stores(n)
        <3>1. n[2] = "app" => Kid(n, "pair") \in Children(n)
            BY <1>0, ChildFacts
        <3> QED
            BY <1>1, <3>1 DEF Cold, Stores, Scanned
    <2> QED
        BY <1>0, <1>2, <1>6, <1>7, <2>1, <2>2, StoringIsSafe
<1>8. CASE /\ Stores(n) \ moved[n] = {}
           /\ n[2] = Root(want[n[1]]) /\ RootGone(n)
    <2>1. ~Cold
        BY <1>4, <1>8 DEF Cold
    <2>2. \A m \in Nodes : m[1] = n[1] => pc[m] # "verify"
        BY <1>0, <1>1, <1>8, RestOfTree
    <2> QED
        BY <1>0, <1>2, <1>6, <1>8, <2>1, <2>2, RootGoneIsSafe
<1>9. CASE /\ Stores(n) \ moved[n] = {}
           /\ n[2] # Root(want[n[1]]) /\ KidDone(n, Result(n), seen[n] \cup more)
    <2>1. ~Cold
        BY <1>4, <1>9 DEF Cold
    <2>2. Result(n) \in {"ok", "err"}
        BY DEF Result
    <2>3. NodesInv'
        BY <1>0, <1>1, <1>9, <2>2, KidDoneKeeps
    <2>4. \A m \in Nodes : pc[m] = "verify" => Same(m)
        BY <1>0, <1>9 DEF KidDone, Alone
    <2>5. \A k \in Keys : EntryInv(k)'
        BY <1>0, <1>2, <2>4, EntriesKept DEF Same
    <2>6. Types' /\ MutationInv'
        BY <1>0, <1>2, <1>6, QuietKeeps DEF Types
    <2>7. ColdInv'
        BY <1>0, <1>2, <2>1, Apart DEF ColdInv, Quiet
    <2> QED
        BY <2>3, <2>5, <2>6, <2>7, Assembled
<1> QED
    BY <1>6, <1>7, <1>8, <1>9

LEMMA ScanFailsKeeps ==
    ASSUME ListsInv, NEW n \in Nodes, ScanFails(n)
    PROVE  ListsInv'
<1>0. Types /\ Quiet /\ pc[n] = "scan" /\ Returned(n, "err", {}) /\ cache' = cache
    BY Apart DEF Quiet, mutationVars, ScanFails
<1>1. \A c \in Children(n) : pc[c] \in {"ok", "err"}
    BY DEF ScanFails, Ended
<1>2. scans' \in [Collections -> Nat] /\ failures' \in Nat /\ failures' # 0
    BY <1>0 DEF ScanFails, Types
<1>3. NodeTypes' /\ NodesInv' /\ \A m \in Nodes : pc[m] = "verify" => Same(m)
    <2>1. CASE n[2] = Root(want[n[1]])
        <3>1. RootGone(n) /\ NodeTypes'
            BY <1>0, <2>1, RootReturns
        <3>2. \A m \in Nodes : pc[m] = "verify" => m[1] # n[1]
            BY <1>0, <1>1, <2>1, RestOfTree
        <3> QED
            BY <1>0, <3>1, <3>2, RootGoneKeeps DEF RootGone
    <2>2. CASE n[2] # Root(want[n[1]])
        <3>1. KidDone(n, "err", {}) /\ NodeTypes'
            BY <1>0, <2>2, KidReturns
        <3>2. NodesInv'
            BY <1>0, <1>1, <2>2, <3>1, KidDoneKeeps
        <3> QED
            BY <1>0, <3>1, <3>2 DEF KidDone, Alone
    <2> QED
        BY <2>1, <2>2
<1>4. \A k \in Keys : EntryInv(k)'
    BY <1>0, <1>3, EntriesKept DEF Same
<1>5. Types' /\ MutationInv'
    BY <1>0, <1>2, <1>3, QuietKeeps DEF Types
<1>6. ColdInv'
    BY <1>2 DEF ColdInv
<1> QED
    BY <1>3, <1>4, <1>5, <1>6, Assembled

\* A node that joins is the root of its read.
LEMMA Joining ==
    ASSUME ListsInv, NEW n \in Nodes, pc[n] = "join"
    PROVE  /\ n[2] = "main" /\ n[2] = Root(want[n[1]]) /\ InTree(n)
           /\ want[n[1]] \in Derived /\ Watches(n) = {want[n[1]]}
<1>1. n[2] = "main" /\ InTree(n)
    BY Apart DEF TreeInv
<1>2. want[n[1]] \in Derived
    BY <1>1 DEF InTree
<1>3. Root(want[n[1]]) = "main"
    BY <1>2 DEF Root, Derived, Scanned
<1> QED
    BY <1>1, <1>2, <1>3 DEF Watches

LEMMA JoinIndexesKeeps ==
    ASSUME ListsInv, NEW n \in Nodes, JoinIndexes(n)
    PROVE  ListsInv'
<1> DEFINE keys == IF AllOk(n) THEN {want[n[1]]} ELSE {}
<1>0. Types /\ Quiet /\ pc[n] = "join" /\ UNCHANGED <<cache, scans, failures>>
    BY Apart DEF Quiet, mutationVars, JoinIndexes
<1>1. \A c \in Children(n) : pc[c] \in {"ok", "err"}
    BY DEF JoinIndexes, Ended
<1>2. keys \in SUBSET Keys /\ keys \subseteq Watches(n) /\ {} \in SUBSET Effects
    BY <1>0, Joining DEF Keys
<1>3. /\ NodeTypes'
      /\ \/ Storing(n, keys, {})
         \/ RootGone(n)
    BY <1>0, <1>2, Joining, StoresOrReturns DEF JoinIndexes
<1>4. CASE Storing(n, keys, {})
    <2>1. AllOk(n)
        BY <1>4 DEF Storing
    <2>2. NodesInv'
        BY <1>0, <1>1, <1>2, <1>4, <2>1, Joining, StoringKeeps
    <2> QED
        BY <1>0, <1>3, <1>4, <2>2, Joining, StoringIsSafe
<1>5. CASE RootGone(n)
    <2>1. \A m \in Nodes : m[1] = n[1] => m = n \/ pc[m] \in {"off", "ok", "err"}
        BY <1>0, <1>1, Joining, RestOfTree
    <2>2. n[2] = "main"
        BY <1>0, Joining
    <2> QED
        BY <1>0, <1>3, <1>5, <2>1, <2>2, RootGoneIsSafe DEF Live
<1> QED
    BY <1>3, <1>4, <1>5

LEMMA JoinAbortsKeeps ==
    ASSUME ListsInv, NEW n \in Nodes, JoinAborts(n)
    PROVE  ListsInv'
<1>0. Types /\ Quiet /\ pc[n] = "join" /\ UNCHANGED <<cache, scans, failures>>
    BY Apart DEF Quiet, mutationVars, JoinAborts
<1>1. \A m \in Nodes : m[1] = n[1] => pc[m] # "verify"
    BY DEF JoinAborts, Awaiting
<1>2. ~Cold
    BY <1>0, ChildFacts DEF JoinAborts, Cold
<1>3. RootGone(n) /\ NodeTypes'
    BY <1>0, Joining, RootReturns DEF JoinAborts
<1> QED
    BY <1>0, <1>1, <1>2, <1>3, RootGoneIsSafe

\* What is stored reflects the launch, and every write that it ought to show and
\* does not has yet to bump its watch, has bumped it, or is missing from a part
\* that was behind.
LEMMA ValueFacts ==
    ASSUME ListsInv, NEW n \in Nodes, pc[n] = "put", NEW k \in todo[n]
    PROVE  /\ Value(n, k) \in SUBSET Effects /\ Base \in Value(n, k)
           /\ Taint(n, k) \in BOOLEAN
           /\ k \in Indexes => ~Taint(n, k)
           /\ \A w \in dir \ {Base} : Shows(k, w) /\ w \notin Value(n, k) =>
                 Pending(w, k) \/ Taint(n, k) \/ k \in moved[n]
<1>0. /\ Types /\ InTree(n) /\ ~tainted[n] /\ k \in Watches(n) /\ k \in Keys
      /\ n[2] = "main" => AllOk(n)
      /\ n[2] = "app" /\ k = "apps_pairing" => pc[Kid(n, "pair")] = "ok"
    BY Apart DEF TreeInv, SeenInv, TodoInv, Types, NodeTypes
<1>1. \A m \in Nodes : seen[m] \in SUBSET Effects /\ tainted[m] \in BOOLEAN
    BY <1>0 DEF Types, NodeTypes
<1>2. dir \ {Base} \subseteq Mutations /\ Base \in Effects /\ dir \subseteq Effects
    BY <1>0 DEF Types, Effects
<1>3. Taint(n, k) \in BOOLEAN /\ (k \in Indexes => ~Taint(n, k))
    BY <1>0 DEF Taint, Indexes, Derived
<1>4. ASSUME NEW w \in dir \ {Base}, Shows(k, w)
      PROVE  /\ n[2] # "main" /\ w \notin seen[n] => Pending(w, k) \/ k \in moved[n]
             /\ \A c \in Children(n) :
                   /\ pc[c] \in Seeing /\ ~tainted[c]
                   /\ Shows(Wanted(c), w) /\ w \notin seen[c]
                   => Pending(w, k) \/ k \in moved[n]
    BY <1>0, <1>4, Apart DEF RaceInv, Hears, Unbumped
<1>5. \A c \in Children(n) : pc[c] = "ok" => Base \in seen[c]
    BY <1>0, ChildFacts, Apart DEF SeenInv, Seeing
<1>6. CASE n[2] = "main"
    <2>1. /\ k = want[n[1]] /\ k \in Derived /\ Kid(n, "sp") \in Children(n)
          /\ k # "mi" => Kid(n, "app") \in Children(n)
        BY <1>0, <1>6, ChildFacts, WantedFacts DEF Watches
    <2>2. \A c \in Children(n) : c \in Nodes /\ pc[c] = "ok" /\ pc[c] \in Seeing
        BY <1>0, <1>6, ChildFacts DEF AllOk, Seeing
    <2>3. /\ Wanted(Kid(n, "sp")) = "sp_index"
          /\ k # "mi" => Wanted(Kid(n, "app")) = "app_name_index"
        BY <1>0, <2>1, ChildInTree, NodeFacts DEF Roles
    <2>4. Taint(n, k) <=> \E c \in Children(n) : tainted[c]
        BY <2>1 DEF Taint
    <2>5. ASSUME NEW w \in dir \ {Base}, Shows(k, w)
          PROVE  /\ "servicePrincipals" \in Touches(w) => Shows("sp_index", w)
                 /\ Shows("app_name_index", w)
                 /\ k = "mi" => Shows("sp_index", w)
        BY <1>0, <1>2, <2>1, <2>5, ShowsFacts
    <2>6. CASE k = "mi"
        <3>1. Value(n, k) = seen[Kid(n, "sp")]
            BY <2>6 DEF Value
        <3> QED
            BY <1>1, <1>3, <1>4, <1>5, <2>1, <2>2, <2>3, <2>4, <2>5, <2>6, <3>1
    <2>7. CASE k # "mi"
        <3>1. Value(n, k) = Joined(seen[Kid(n, "sp")], seen[Kid(n, "app")])
            BY <2>1, <2>7 DEF Value, Derived
        <3>2. Value(n, k) \in SUBSET Effects /\ Base \in Value(n, k)
            BY <1>2, <1>5, <2>1, <2>2, <2>7, <3>1 DEF Joined
        <3>3. ASSUME NEW w \in dir \ {Base}, Shows(k, w), w \notin Value(n, k)
              PROVE  Pending(w, k) \/ Taint(n, k) \/ k \in moved[n]
            <4>1. \/ "servicePrincipals" \in Touches(w) /\ w \notin seen[Kid(n, "sp")]
                  \/ w \notin seen[Kid(n, "app")]
                BY <1>2, <3>1, <3>3 DEF Joined
            <4>2. CASE "servicePrincipals" \in Touches(w) /\ w \notin seen[Kid(n, "sp")]
                BY <1>4, <2>1, <2>2, <2>3, <2>4, <2>5, <3>3, <4>2
            <4>3. CASE w \notin seen[Kid(n, "app")]
                BY <1>4, <2>1, <2>2, <2>3, <2>4, <2>5, <2>7, <3>3, <4>3
            <4> QED
                BY <4>1, <4>2, <4>3
        <3> QED
            BY <1>3, <3>2, <3>3
    <2> QED
        BY <2>6, <2>7
<1>7. CASE n[2] # "main"
    <2>1. Base \in seen[n] /\ pc[n] \in Seeing
        BY <1>7, Apart DEF SeenInv, Seeing
    <2>2. k \in Scanned \cup {"sp_index"} /\ (n[2] # "app" => k = "sp_index")
        BY <1>0, <1>7 DEF Watches
    <2>3. CASE k = "apps_pairing"
        <3>0. n[2] = "app"
            BY <2>2, <2>3
        <3>1. /\ Kid(n, "pair") \in Children(n) /\ Children(n) = {Kid(n, "pair")}
              /\ Kid(n, "pair") \in Nodes /\ pc[Kid(n, "pair")] = "ok"
              /\ pc[Kid(n, "pair")] \in Seeing
            BY <1>0, <2>3, <3>0, ChildFacts DEF Seeing
        <3>2. Wanted(Kid(n, "pair")) = "sp_index"
            BY <1>0, <3>1, ChildInTree, NodeFacts DEF Roles
        <3>3. Value(n, k) = Joined(seen[Kid(n, "pair")], seen[n])
            BY <2>3 DEF Value, Derived
        <3>4. Value(n, k) \in SUBSET Effects /\ Base \in Value(n, k)
            BY <1>2, <1>5, <2>1, <3>1, <3>3 DEF Joined
        <3>5. Taint(n, k) <=> tainted[Kid(n, "pair")]
            BY <2>3, <3>1 DEF Taint
        <3>6. ASSUME NEW w \in dir \ {Base}, Shows(k, w), w \notin Value(n, k)
              PROVE  Pending(w, k) \/ Taint(n, k) \/ k \in moved[n]
            <4>1. \/ "servicePrincipals" \in Touches(w) /\ w \notin seen[Kid(n, "pair")]
                  \/ w \notin seen[n]
                BY <1>2, <3>3, <3>6 DEF Joined
            <4>2. CASE "servicePrincipals" \in Touches(w) /\ w \notin seen[Kid(n, "pair")]
                <5>1. Shows("sp_index", w)
                    BY <1>0, <1>2, <3>6, <4>2, ShowsFacts
                <5> QED
                    BY <1>4, <3>1, <3>2, <3>5, <3>6, <4>2, <5>1
            <4>3. CASE w \notin seen[n]
                BY <1>4, <1>7, <3>6, <4>3
            <4> QED
                BY <4>1, <4>2, <4>3
        <3> QED
            BY <1>3, <3>4, <3>6
    <2>4. CASE k # "apps_pairing"
        <3>1. Value(n, k) = seen[n]
            BY <2>2, <2>4 DEF Value, Scanned, Derived
        <3> QED
            BY <1>1, <1>3, <1>4, <1>7, <2>1, <3>1
    <2> QED
        BY <2>3, <2>4
<1> QED
    BY <1>6, <1>7

LEMMA PutKeeps ==
    ASSUME ListsInv, NEW n \in Nodes, Put(n)
    PROVE  ListsInv'
<1> DEFINE k == First(todo[n])
           e == [seen |-> Value(n, k), by |-> n, tainted |-> Taint(n, k)]
<1>0. /\ Types /\ Quiet /\ pc[n] = "put" /\ InTree(n)
      /\ UNCHANGED <<gate, seen, tainted, moved, todo, scans, failures>>
    BY Apart DEF Quiet, mutationVars, Put, TreeInv
<1>1. k \in todo[n] /\ k \in Keys
    BY <1>0, Apart, FirstIsThere DEF TodoInv, Types, NodeTypes
<1>2. cache' = [cache EXCEPT ![k] = e] /\ pc' = [pc EXCEPT ![n] = "verify"]
    BY DEF Put
<1>3. e \in Entries /\ e.seen = Value(n, k) /\ e.by = n /\ e.tainted = Taint(n, k)
    BY <1>0, <1>1, ValueFacts DEF Entries
<1>4. e # NoEntry
    BY <1>3, ListsAssumption
<1> HIDE DEF e
<1>5. /\ cache' \in [Keys -> Entries \cup {NoEntry}] /\ cache'[k] = e
      /\ \A j \in Keys \ {k} : cache'[j] = cache[j]
    BY <1>0, <1>1, <1>2, <1>3 DEF Types
<1>6. /\ pc' \in [Nodes -> {"off", "look", "wait", "ok", "err"} \cup Live]
      /\ pc'[n] = "verify" /\ \A m \in Nodes \ {n} : pc'[m] = pc[m]
    BY <1>0, <1>2 DEF Types, NodeTypes, Live
<1>7. NodeTypes' /\ Alone(n)
    BY <1>0, <1>6 DEF Types, NodeTypes, Alone, Same
<1>8. Types' /\ MutationInv'
    BY <1>0, <1>5, <1>7, QuietKeeps DEF Types
<1>9. NodesInv'
    <2>1. \A c \in Children(n) : Same(c) /\ pc[c] \in {"off", "ok", "err"}
        BY <1>0, <1>7, ChildFacts, Apart DEF Alone, TreeInv
    <2>2. Watches(n)' = Watches(n)
        BY <1>0, <1>6 DEF Watches, Quiet
    <2>3. TodoInv(n)'
        <3>1. AllOk(n) => AllOk(n)'
            BY <1>0, <2>1, QuietFacts DEF AllOk, Same
        <3>2. n[2] = "app" => Same(Kid(n, "pair"))
            BY <1>0, <2>1, ChildFacts
        <3> QED
            BY <1>0, <1>6, <2>2, <3>1, <3>2, Apart DEF TodoInv, Same, Kid
    <2>4. SeenInv(n)'
        BY <1>0, <1>6, Apart DEF SeenInv, Seeing
    <2>5. ChildOk(n)
        BY <1>0 DEF ChildOk, Seeing
    <2>6. RaceInv(n)'
        <3>1. \A c \in Children(n) : ChildOk(c)
            BY <2>1 DEF ChildOk, Same
        <3> QED
            BY <1>0, <2>2, <3>1, RaceKept
    <2>7. \A g \in Gates : gate'[g] = n => pc'[n] \in Live
        BY <1>6 DEF Live
    <2> QED
        BY <1>0, <1>6, <1>7, <2>1, <2>3, <2>4, <2>5, <2>6, <2>7, KidMoved
<1>10. ASSUME NEW j \in Keys PROVE EntryInv(j)'
    <2>1. CASE j = k
        <3>0. cache'[j] = e
            BY <1>5, <2>1
        <3>1. j \in moved[n] => Doomed(j)'
            BY <1>0, <1>3, <1>6, <2>1, <3>0 DEF Doomed
        <3>2. dir' = dir
            BY <1>0 DEF Quiet
        <3>3. /\ Base \in e.seen /\ (j \in Indexes => ~e.tainted)
              /\ \A w \in dir \ {Base} : Shows(j, w) /\ w \notin e.seen =>
                    Pending(w, j) \/ e.tainted \/ j \in moved[n]
            BY <1>0, <1>1, <1>3, <2>1, ValueFacts
        <3> QED
            BY <1>0, <3>0, <3>1, <3>2, <3>3, QuietFacts DEF EntryInv
    <2>2. CASE j # k
        <3>1. cache'[j] = cache[j] /\ EntryInv(j) /\ dir' = dir
            BY <1>0, <1>5, <2>2, Apart DEF Quiet
        <3>2. Doomed(j) => Doomed(j)'
            BY <1>0, <1>6, <3>1 DEF Doomed
        <3> QED
            BY <1>0, <3>1, <3>2, QuietFacts DEF EntryInv
    <2> QED
        BY <2>1, <2>2
<1>11. ASSUME Cold PROVE Cold'
    <2>1. \A m \in Nodes : moved'[m] = {} /\ pc'[m] # "err"
        BY <1>0, <1>6, <1>11 DEF Cold
    <2>2. \A j \in Keys : cache[j] # NoEntry => cache'[j] # NoEntry
        BY <1>4, <1>5
    <2>3. ASSUME NEW m \in Nodes, pc'[m] = "verify"
          PROVE  cache'[First(todo'[m])] # NoEntry
        <3>1. CASE m = n
            BY <1>0, <1>4, <1>5, <3>1
        <3>2. CASE m # n
            <4>1. pc[m] = "verify" /\ todo'[m] = todo[m]
                BY <1>0, <1>6, <2>3, <3>2
            <4>2. First(todo[m]) \in Keys
                BY <1>0, <4>1, Apart, FirstIsThere DEF TodoInv, Types, NodeTypes
            <4> QED
                BY <1>11, <2>2, <4>1, <4>2 DEF Cold
        <3> QED
            BY <3>1, <3>2
    <2>4. \A m \in Nodes : m[2] = "app" /\ pc'[m] \in {"put", "verify"} =>
             \A j \in Scanned \ todo'[m] : cache'[j] # NoEntry
        BY <1>0, <1>6, <1>11, <2>2 DEF Cold, Keys
    <2> QED
        BY <1>0, <1>11, <2>1, <2>2, <2>3, <2>4, ColdKept
<1>12. ColdInv'
    BY <1>0, <1>11, Apart DEF ColdInv, Quiet
<1> QED
    BY <1>8, <1>9, <1>10, <1>12, Assembled

LEMMA VerifyKeeps ==
    ASSUME ListsInv, NEW n \in Nodes, Verify(n)
    PROVE  ListsInv'
<1> DEFINE k == First(todo[n])
           keys == todo[n] \ {k}
<1>0. /\ Types /\ Quiet /\ pc[n] = "verify" /\ InTree(n) /\ ~tainted[n]
      /\ UNCHANGED <<scans, failures>>
    BY Apart DEF Quiet, mutationVars, Verify, TreeInv, SeenInv
<1>1. /\ k \in todo[n] /\ k \in Keys /\ todo[n] \subseteq Keys /\ todo[n] \subseteq Watches(n)
      /\ seen[n] \in SUBSET Effects
    BY <1>0, Apart, FirstIsThere DEF TodoInv, Types, NodeTypes
<1>2. \A c \in Children(n) : pc[c] \in {"off", "ok", "err"}
    BY <1>0, Apart DEF TreeInv
<1>3. cache' = IF cache[k] = NoEntry \/ cache[k].by # n THEN cache
               ELSE IF k \in moved[n] THEN [cache EXCEPT ![k] = NoEntry]
               ELSE [cache EXCEPT ![k].by = Free]
    BY DEF Verify
<1>4. /\ cache' \in [Keys -> Entries \cup {NoEntry}]
      /\ \A j \in Keys \ {k} : cache'[j] = cache[j]
      /\ \/ cache'[k] = cache[k] /\ (cache[k] = NoEntry \/ cache[k].by # n)
         \/ cache'[k] = NoEntry /\ k \in moved[n]
         \/ /\ cache[k] # NoEntry /\ cache[k].by = n /\ k \notin moved[n]
            /\ cache'[k] # NoEntry /\ cache'[k].seen = cache[k].seen
            /\ cache'[k].tainted = cache[k].tainted
    <2>0. cache \in [Keys -> Entries \cup {NoEntry}]
        BY <1>0 DEF Types
    <2>1. CASE cache[k] = NoEntry \/ cache[k].by # n
        BY <1>3, <2>0, <2>1
    <2>2. CASE cache[k] # NoEntry /\ cache[k].by = n /\ k \in moved[n]
        BY <1>1, <1>3, <2>0, <2>2
    <2>3. CASE cache[k] # NoEntry /\ cache[k].by = n /\ k \notin moved[n]
        <3> DEFINE e == [cache[k] EXCEPT !.by = Free]
        <3>1. cache' = [cache EXCEPT ![k] = e]
            BY <1>3, <2>3
        <3>2. cache[k] \in Entries
            BY <1>1, <2>0, <2>3
        <3>3. e \in Entries /\ e.seen = cache[k].seen /\ e.tainted = cache[k].tainted
            BY <3>2 DEF Entries
        <3>4. e # NoEntry
            BY <3>3, ListsAssumption
        <3> HIDE DEF e
        <3> QED
            BY <1>1, <2>0, <2>3, <3>1, <3>3, <3>4
    <2> QED
        BY <2>1, <2>2, <2>3
<1>5. /\ NodeTypes'
      /\ \/ Storing(n, keys, seen[n])
         \/ /\ keys \ moved[n] = {}
            /\ \/ n[2] = Root(want[n[1]]) /\ RootGone(n)
               \/ n[2] # Root(want[n[1]]) /\ KidDone(n, Result(n), seen[n])
    <2>1. StoreOrReturn(n, keys, seen[n])
        BY DEF Verify
    <2> QED
        BY <1>0, <1>1, <2>1, StoresOrReturns
<1>6. Types' /\ MutationInv'
    BY <1>0, <1>4, <1>5, QuietKeeps DEF Types
<1>7. NodesInv'
    <2>1. CASE Storing(n, keys, seen[n])
        <3>1. /\ n[2] = "main" => AllOk(n)
              /\ n[2] = "app" /\ "apps_pairing" \in keys => pc[Kid(n, "pair")] = "ok"
            BY <1>0, Apart DEF TodoInv
        <3> QED
            BY <1>0, <1>1, <1>2, <2>1, <3>1, StoringKeeps
    <2>2. CASE n[2] = Root(want[n[1]]) /\ RootGone(n)
        BY <1>0, <2>2, RootGoneKeeps
    <2>3. CASE n[2] # Root(want[n[1]]) /\ KidDone(n, Result(n), seen[n])
        <3>1. Result(n) \in {"ok", "err"}
            BY DEF Result
        <3> QED
            BY <1>0, <1>2, <2>3, <3>1, KidDoneKeeps
    <2> QED
        BY <1>5, <2>1, <2>2, <2>3
<1>8. \A m \in Nodes \ {n} : pc[m] \in {"put", "verify"} => Same(m)
    <2>1. CASE Storing(n, keys, seen[n])
        BY <2>1 DEF Storing, Alone
    <2>2. CASE n[2] = Root(want[n[1]]) /\ RootGone(n)
        <3>1. \A m \in Nodes \ {n} : pc[m] \in {"put", "verify"} => m[1] # n[1]
            BY <1>2, <2>2, RestOfTree
        <3> QED
            BY <2>2, <3>1 DEF RootGone
    <2>3. CASE KidDone(n, Result(n), seen[n])
        BY <2>3 DEF KidDone, Alone
    <2> QED
        BY <1>5, <2>1, <2>2, <2>3
<1>9. ASSUME NEW j \in Keys PROVE EntryInv(j)'
    <2>0. EntryInv(j) /\ dir' = dir
        BY <1>0, Apart DEF Quiet
    <2>1. CASE j = k /\ cache'[j] = NoEntry
        BY <2>1 DEF EntryInv
    <2>2. CASE j = k /\ cache[k] # NoEntry /\ cache[k].by = n /\ k \notin moved[n]
                     /\ cache'[k] # NoEntry /\ cache'[k].seen = cache[k].seen
                     /\ cache'[k].tainted = cache[k].tainted
        <3>1. ~Doomed(j)
            BY <2>2 DEF Doomed
        <3>2. /\ cache'[j].seen = cache[j].seen /\ cache'[j].tainted = cache[j].tainted
              /\ cache[j] # NoEntry
            BY <2>2
        <3> QED
            BY <1>0, <2>0, <3>1, <3>2, QuietFacts DEF EntryInv
    <2>3. CASE cache'[j] = cache[j] /\ cache[j] # NoEntry /\ (j = k => cache[j].by # n)
        <3>1. Doomed(j) => Doomed(j)'
            <4> SUFFICES ASSUME Doomed(j) PROVE Doomed(j)'
                OBVIOUS
            <4>1. /\ cache[j].by \in Nodes /\ pc[cache[j].by] = "verify"
                  /\ First(todo[cache[j].by]) = j /\ j \in moved[cache[j].by]
                BY DEF Doomed
            <4>2. cache[j].by # n
                BY <2>3, <4>1
            <4>3. Same(cache[j].by)
                BY <1>8, <4>1, <4>2
            <4> QED
                BY <2>3, <4>1, <4>3 DEF Doomed, Same
        <3> QED
            BY <1>0, <2>0, <2>3, <3>1, QuietFacts DEF EntryInv
    <2>4. CASE cache'[j] = cache[j] /\ cache[j] = NoEntry
        BY <2>4 DEF EntryInv
    <2> QED
        BY <1>4, <2>1, <2>2, <2>3, <2>4
<1>10. ASSUME Cold PROVE Cold'
    <2>0. moved[n] = {} /\ cache[k] # NoEntry
        BY <1>0, <1>10 DEF Cold
    <2>1. \A j \in Keys : cache[j] # NoEntry => cache'[j] # NoEntry
        BY <1>4, <2>0
    <2>2. \A m \in Nodes : moved'[m] = {} /\ pc'[m] # "err"
        <3>1. CASE Storing(n, keys, seen[n])
            BY <1>10, <3>1 DEF Storing, Alone, Same, Cold
        <3>2. CASE RootGone(n)
            BY <1>10, <3>2 DEF RootGone, Same, Cold
        <3>3. CASE KidDone(n, Result(n), seen[n])
            <4>1. Kid(n, "pair") \in Nodes
                BY NodeFacts DEF Roles
            <4>2. Result(n) # "err"
                BY <1>10, <4>1 DEF Result, Cold
            <4> QED
                BY <1>10, <3>3, <4>2 DEF KidDone, Alone, Same, Cold
        <3> QED
            BY <1>5, <3>1, <3>2, <3>3
    <2>3. ASSUME NEW m \in Nodes, pc'[m] \in {"put", "verify"}
          PROVE  \/ pc[m] = pc'[m] /\ todo'[m] = todo[m]
                 \/ m = n /\ pc'[n] = "put" /\ todo'[n] = keys
        <3>1. CASE Storing(n, keys, seen[n])
            BY <2>0, <3>1 DEF Storing, Alone, Same
        <3>2. CASE RootGone(n)
            BY <2>3, <3>2 DEF RootGone, Same
        <3>3. CASE KidDone(n, Result(n), seen[n])
            BY <2>3, <3>3 DEF KidDone, Alone, Same, Result
        <3> QED
            BY <1>5, <3>1, <3>2, <3>3
    <2>4. ASSUME NEW m \in Nodes, pc'[m] = "verify"
          PROVE  cache'[First(todo'[m])] # NoEntry
        <3>1. pc[m] = "verify" /\ todo'[m] = todo[m]
            BY <2>3, <2>4
        <3>2. First(todo[m]) \in Keys
            BY <1>0, <3>1, Apart, FirstIsThere DEF TodoInv, Types, NodeTypes
        <3> QED
            BY <1>10, <2>1, <3>1, <3>2 DEF Cold
    <2>5. ASSUME NEW m \in Nodes, m[2] = "app", pc'[m] \in {"put", "verify"},
                 NEW j \in Scanned \ todo'[m]
          PROVE  cache'[j] # NoEntry
        <3>1. CASE pc[m] = pc'[m] /\ todo'[m] = todo[m]
            BY <1>10, <2>1, <2>5, <3>1 DEF Cold, Keys
        <3>2. CASE m = n /\ pc'[n] = "put" /\ todo'[n] = keys
            <4>1. j = k \/ j \in Scanned \ todo[n]
                BY <2>5, <3>2
            <4> QED
                BY <1>0, <1>10, <2>0, <2>1, <2>5, <3>2, <4>1 DEF Cold, Keys
        <3> QED
            BY <2>3, <2>5, <3>1, <3>2
    <2>6. ASSUME NEW g \in {"apps_pairing", "sp_index"}, gate[g] # Free, gate'[g] = Free
          PROVE  gate[g] = n /\ keys = {}
        <3>0. gate[g] \in Nodes /\ pc[gate[g]] \in Live /\ g \in Gates
            BY <2>6, Holders DEF Gates
        <3>1. CASE Storing(n, keys, seen[n])
            BY <2>6, <3>1 DEF Storing
        <3>2. CASE keys \ moved[n] = {} /\ n[2] = Root(want[n[1]]) /\ RootGone(n)
            <4>1. gate[g][1] = n[1]
                BY <2>6, <3>0, <3>2 DEF RootGone
            <4>2. gate[g] = n
                BY <1>2, <3>0, <3>2, <4>1, RestOfTree DEF Live
            <4> QED
                BY <2>0, <3>2, <4>2
        <3>3. CASE keys \ moved[n] = {} /\ KidDone(n, Result(n), seen[n])
            BY <2>0, <2>6, <3>0, <3>3 DEF KidDone
        <3> QED
            BY <1>5, <3>1, <3>2, <3>3
    <2>7. \/ gate'["apps_pairing"] # Free \/ gate["apps_pairing"] = Free
          \/ \A j \in Scanned : cache'[j] # NoEntry
        <3> SUFFICES ASSUME gate'["apps_pairing"] = Free, gate["apps_pairing"] # Free
                     PROVE  \A j \in Scanned : cache'[j] # NoEntry
            OBVIOUS
        <3>1. n[2] = "app" /\ todo[n] = {k}
            BY <1>1, <2>6, Holders
        <3>2. \A j \in Scanned : j = k \/ j \in Scanned \ todo[n]
            BY <3>1
        <3> QED
            BY <1>0, <1>10, <2>0, <2>1, <3>1, <3>2 DEF Cold, Keys
    <2>8. \/ gate'["sp_index"] # Free \/ gate["sp_index"] = Free
          \/ cache'["sp_index"] # NoEntry
        <3> SUFFICES ASSUME gate'["sp_index"] = Free, gate["sp_index"] # Free
                     PROVE  cache'["sp_index"] # NoEntry
            OBVIOUS
        <3>1. gate["sp_index"] = n
            BY <2>6
        <3>2. n[2] # "app" /\ n[2] # "main"
            BY <3>1, Holders
        <3>3. Watches(n) = {"sp_index"}
            BY <1>0, <3>2 DEF Watches
        <3>4. k = "sp_index"
            BY <1>1, <3>3
        <3> QED
            BY <1>1, <2>0, <2>1, <3>4
    <2> QED
        BY <1>0, <1>10, <2>1, <2>2, <2>4, <2>5, <2>7, <2>8, ColdKept
<1>11. ColdInv'
    BY <1>0, <1>10, Apart DEF ColdInv, Quiet
<1> QED
    BY <1>6, <1>7, <1>9, <1>11, Assembled

-----------------------------------------------------------------------------
(* A command begins.                                                       *)

LEMMA RequestKeeps ==
    ASSUME ListsInv, NEW r \in Readers, NEW k \in Requests[r], Request(r, k)
    PROVE  ListsInv'
<1>0. /\ Types /\ k \in Keys
      /\ UNCHANGED <<dir, cache, gate, seen, tainted, moved, todo, scans, failures>>
      /\ UNCHANGED <<tier, mpc, left>>
    BY Apart, ListsAssumption DEF Request, mutationVars
<1>1. /\ want' = [want EXCEPT ![r] = k]
      /\ pc' = [pc EXCEPT ![<<r, Root(k)>>] = "look"]
    BY DEF Request
<1>2. \A m \in Nodes : m[1] = r => pc[m] = "off"
    <2>1. \A m \in Nodes : m[1] = r => m = <<r, m[2]>> /\ m[2] \in Roles
        BY DEF Nodes
    <2> QED
        BY <2>1 DEF Request
<1>3. /\ k \in Derived => Root(k) = "main"
      /\ k \in Scanned => Root(k) = "app"
      /\ k = "sp_index" => Root(k) = "sp"
    BY DEF Root, Derived, Scanned
<1>4. Root(k) \in Roles /\ <<r, Root(k)>> \in Nodes
    BY <1>0, <1>3 DEF Roles, Keys, Nodes
<1>5. want' \in [Readers -> Keys] /\ want'[r] = k
      /\ \A s \in Readers \ {r} : want'[s] = want[s]
    BY <1>0, <1>1 DEF Types
<1>6. /\ pc' \in [Nodes -> {"off", "look", "wait", "ok", "err"} \cup Live]
      /\ \A m \in Nodes : m[1] # r => pc'[m] = pc[m]
      /\ \A m \in Nodes : m[1] = r => pc'[m] \in {"off", "look"}
      /\ \A m \in Nodes : m[1] = r /\ m[2] # Root(k) => pc'[m] = "off"
    <2>1. <<r, Root(k)>>[1] = r /\ <<r, Root(k)>>[2] = Root(k)
        OBVIOUS
    <2>2. pc \in [Nodes -> {"off", "look", "wait", "ok", "err"} \cup Live]
        BY <1>0 DEF Types, NodeTypes
    <2> QED
        BY <1>1, <1>2, <1>4, <2>1, <2>2
<1>7. Types'
    BY <1>0, <1>5, <1>6 DEF Types, NodeTypes
<1>8. MutationInv'
    BY <1>0, Apart DEF MutationInv
<1>9. ASSUME NEW m \in Nodes, m[1] # r
      PROVE  /\ Children(m)' = Children(m) /\ GateOf(m)' = GateOf(m)
             /\ (InTree(m)' <=> InTree(m)) /\ Watches(m)' = Watches(m)
             /\ Wanted(m)' = Wanted(m)
    <2>1. want'[m[1]] = want[m[1]] /\ pc'[m] = pc[m]
        BY <1>5, <1>6, <1>9, NodeFacts
    <2>2. Children(m)' = Children(m) /\ GateOf(m)' = GateOf(m)
        BY <2>1 DEF Children, GateOf
    <2>3. InTree(m)' <=> InTree(m)
        BY <2>1 DEF InTree
    <2>4. Watches(m)' = Watches(m)
        BY <2>1 DEF Watches
    <2>5. Wanted(m)' = Wanted(m)
        BY <2>1 DEF Wanted
    <2> QED
        BY <2>2, <2>3, <2>4, <2>5
<1>10. \A j, w : /\ Shows(j, w)' <=> Shows(j, w)
                 /\ Unbumped(w, j)' <=> Unbumped(w, j)
                 /\ Pending(w, j)' <=> Pending(w, j)
    <2>1. \A j, w : Shows(j, w)' <=> Shows(j, w)
        BY <1>0 DEF Shows, TierOf
    <2>2. \A j, w : Pending(w, j)' <=> Pending(w, j)
        BY <1>0 DEF Pending
    <2>3. \A j, w : Unbumped(w, j)' <=> Unbumped(w, j)
        BY <1>0 DEF Pending, Unbumped
    <2> QED
        BY <2>1, <2>2, <2>3
<1>11. ASSUME NEW m \in Nodes, m[1] # r PROVE LocalInv(m)'
    <2>0. \A c \in Children(m) : c \in Nodes /\ c[1] # r /\ pc'[c] = pc[c]
        BY <1>0, <1>6, <1>11, ChildFacts
    <2>1. TreeInv(m)'
        BY <1>6, <1>9, <1>11, <2>0, Apart DEF TreeInv
    <2>2. TodoInv(m)'
        <3>1. AllOk(m) => AllOk(m)'
            BY <1>9, <1>11, <2>0 DEF AllOk
        <3>2. m[2] = "app" => pc'[Kid(m, "pair")] = pc[Kid(m, "pair")]
            BY <1>0, <2>0, ChildFacts
        <3> QED
            BY <1>0, <1>6, <1>9, <1>11, <3>1, <3>2, Apart DEF TodoInv, Kid
    <2>3. SeenInv(m)'
        BY <1>0, <1>6, <1>11, Apart DEF SeenInv
    <2>4. RaceInv(m)'
        <3>1. \A c \in Children(m) : \A w : Shows(Wanted(c), w)' <=> Shows(Wanted(c), w)
            <4> SUFFICES ASSUME NEW c \in Children(m), NEW w
                         PROVE  Shows(Wanted(c), w)' <=> Shows(Wanted(c), w)
                OBVIOUS
            <4>1. Wanted(c)' = Wanted(c)
                BY <1>9, <2>0
            <4> QED
                BY <1>0, <4>1 DEF Shows, TierOf
        <3>2. \A j, w : Hears(m, j, w)' <=> Hears(m, j, w)
            BY <1>0, <1>10 DEF Hears
        <3> QED
            BY <1>0, <1>9, <1>10, <1>11, <2>0, <3>1, <3>2, Apart DEF RaceInv
    <2> QED
        BY <2>1, <2>2, <2>3, <2>4 DEF LocalInv
<1>12. ASSUME NEW m \in Nodes, m[1] = r PROVE LocalInv(m)'
    <2>0. pc[m] = "off" /\ pc'[m] \in {"off", "look"} /\ want'[m[1]] = k
        BY <1>2, <1>5, <1>6, <1>12
    <2>1. ASSUME InTree(m)', NEW c \in Children(m)'
          PROVE  c \in Nodes /\ c[1] = r /\ c[2] # Root(k)
        <3>1. m[2] \in {"main", "app", "sp", "pair"}
            BY NodeFacts DEF Roles
        <3>2. ASSUME NEW role \in {"sp", "app", "pair"}
              PROVE  Kid(m, role) \in Nodes /\ Kid(m, role)[1] = m[1] /\ Kid(m, role)[2] = role
            BY NodeFacts DEF Roles
        <3>3. CASE m[2] = "main"
            <4>1. c \in {Kid(m, "sp"), Kid(m, "app")}
                BY <2>1, <3>3 DEF Children, Kid
            <4>2. k \in Derived
                BY <2>0, <2>1, <3>3 DEF InTree
            <4> QED
                BY <1>3, <1>12, <3>2, <4>1, <4>2
        <3>4. CASE m[2] = "app"
            <4>1. c = Kid(m, "pair")
                BY <2>1, <3>4 DEF Children, Kid
            <4>2. k \in Scanned \cup Derived
                BY <2>0, <2>1, <3>4 DEF InTree
            <4> QED
                BY <1>3, <1>12, <3>2, <4>1, <4>2
        <3>5. CASE m[2] \in {"sp", "pair"}
            BY <2>1, <3>5 DEF Children
        <3> QED
            BY <3>1, <3>3, <3>4, <3>5
    <2>2. InTree(m)' => \A c \in Children(m)' : pc'[c] = "off"
        BY <1>6, <2>1
    <2>3. ~InTree(m)' => pc'[m] = "off"
        <3>1. m[2] = Root(k) => InTree(m)'
            BY <1>0, <1>3, <2>0 DEF InTree, Keys
        <3> QED
            BY <1>6, <1>12, <3>1
    <2>4. TreeInv(m)'
        BY <2>0, <2>2, <2>3 DEF TreeInv
    <2>5. TodoInv(m)' /\ SeenInv(m)'
        BY <1>0, <2>0, Apart DEF TodoInv, SeenInv, Seeing
    <2>6. Watches(m)' = {}
        BY <2>0 DEF Watches
    <2> QED
        BY <2>4, <2>5, <2>6 DEF LocalInv, RaceInv
<1>13. GateInv'
    <2> SUFFICES ASSUME NEW g \in Gates, gate[g] # Free
                 PROVE  pc'[gate[g]] \in Live /\ g \in GateOf(gate[g])'
        BY <1>0 DEF GateInv
    <2>1. gate[g] \in Nodes /\ pc[gate[g]] \in Live /\ g \in GateOf(gate[g])
        BY <1>0, Apart DEF GateInv, Types, NodeTypes
    <2>2. gate[g][1] # r
        BY <1>2, <2>1 DEF Live
    <2>3. want'[gate[g][1]] = want[gate[g][1]] /\ pc'[gate[g]] = pc[gate[g]] /\ gate' = gate
        BY <1>0, <1>5, <1>6, <2>1, <2>2, NodeFacts
    <2>4. GateOf(gate[g])' = GateOf(gate[g])
        BY <2>3 DEF GateOf
    <2> QED
        BY <2>1, <2>3, <2>4
<1>14. NodesInv'
    BY <1>11, <1>12, <1>13 DEF NodesInv
<1>15. ASSUME NEW j \in Keys PROVE EntryInv(j)'
    <2>1. Doomed(j) => Doomed(j)'
        BY <1>0, <1>2, <1>6 DEF Doomed
    <2> QED
        BY <1>0, <1>10, <2>1, Apart DEF EntryInv
<1>16. Cold => Cold'
    <2>1. \A m \in Nodes : pc'[m] = pc[m] \/ pc'[m] \in {"off", "look"}
        BY <1>6
    <2> QED
        BY <1>0, <2>1 DEF Cold
<1>17. ColdInv'
    BY <1>0, <1>16, Apart DEF ColdInv
<1> QED
    BY <1>7, <1>8, <1>14, <1>15, <1>17, Assembled

-----------------------------------------------------------------------------
(* The steps of a mutation.                                                *)

\* No node makes a step; its watches may have been bumped.
Still ==
    /\ UNCHANGED <<gate, want, pc, seen, tainted, todo, failures>>
    /\ \A n \in Nodes : moved[n] \subseteq moved'[n]

LEMMA StillFacts ==
    ASSUME Still
    PROVE  \A n : /\ Children(n)' = Children(n) /\ Wanted(n)' = Wanted(n)
                  /\ GateOf(n)' = GateOf(n) /\ (InTree(n)' <=> InTree(n))
                  /\ Watches(n)' = Watches(n) /\ (AllOk(n)' <=> AllOk(n))
<1>1. \A n : Children(n)' = Children(n)
    BY DEF Still, Children
<1>2. \A n : Wanted(n)' = Wanted(n)
    BY DEF Still, Wanted
<1>3. \A n : GateOf(n)' = GateOf(n)
    BY DEF Still, GateOf
<1>4. \A n : InTree(n)' <=> InTree(n)
    BY DEF Still, InTree
<1>5. \A n : Watches(n)' = Watches(n)
    BY DEF Still, Watches
<1>6. \A n : AllOk(n)' <=> AllOk(n)
    BY <1>1 DEF Still, AllOk
<1> QED
    BY <1>1, <1>2, <1>3, <1>4, <1>5, <1>6

\* What was known of a write still is.
Known(w) ==
    /\ w \in dir /\ TierOf(w)' = TierOf(w)
    /\ \A n \in Nodes : \A k \in Watches(n) : Hears(n, k, w) => Hears(n, k, w)'

\* Every list that shows a new write is still to be treated.
New(w) == \A k \in Keys : Shows(k, w)' => Unbumped(w, k)'

LEMMA StillKeeps ==
    ASSUME ListsInv, Still, \A w \in dir' \ {Base} : Known(w) \/ New(w)
    PROVE  NodesInv'
<1>1. GateInv'
    BY StillFacts, Apart DEF GateInv, Still
<1>2. ASSUME NEW n \in Nodes PROVE LocalInv(n)'
    <2>1. TreeInv(n)'
        BY StillFacts, Apart DEF TreeInv, Still
    <2>2. TodoInv(n)'
        BY StillFacts, Apart DEF TodoInv, Still, Kid
    <2>3. SeenInv(n)'
        BY Apart DEF SeenInv, Still
    <2>4. RaceInv(n)'
        <3> SUFFICES ASSUME NEW k \in Watches(n)', NEW w \in dir' \ {Base}, Shows(k, w)'
                     PROVE  /\ n[2] # "main" /\ w \notin seen'[n] => Hears(n, k, w)'
                            /\ \A c \in Children(n)' :
                                  /\ pc'[c] \in Seeing /\ ~tainted'[c]
                                  /\ Shows(Wanted(c), w)' /\ w \notin seen'[c]
                                  => Hears(n, k, w)'
            BY DEF RaceInv
        <3>0. k \in Watches(n) /\ k \in Keys
            <4>1. k \in Watches(n) /\ want[n[1]] \in Keys
                BY StillFacts, Apart, NodeFacts DEF Types
            <4> QED
                BY <4>1 DEF Watches, Scanned, Keys
        <3>1. CASE New(w)
            BY <3>0, <3>1 DEF New, Hears
        <3>2. CASE Known(w)
            <4>1. \A j : Shows(j, w)' <=> Shows(j, w)
                BY <3>2 DEF Known, Shows
            <4>2. \A c : Shows(Wanted(c), w)' <=> Shows(Wanted(c), w)
                BY <3>2, StillFacts DEF Known, Shows
            <4>3. Hears(n, k, w) => Hears(n, k, w)'
                BY <3>0, <3>2 DEF Known
            <4> QED
                BY <3>0, <3>2, <4>1, <4>2, <4>3, StillFacts, Apart DEF RaceInv, Known, Still
        <3> QED
            BY <3>1, <3>2
    <2> QED
        BY <2>1, <2>2, <2>3, <2>4 DEF LocalInv
<1> QED
    BY <1>1, <1>2 DEF NodesInv

LEMMA StillDoomed ==
    ASSUME Still, NEW k \in Keys, Doomed(k), cache'[k].by = cache[k].by
    PROVE  Doomed(k)'
BY DEF Still, Doomed

\* A mutation under way has landed, so the cold is over.
LEMMA Warm ==
    ASSUME ListsInv, NEW w \in Mutations, mpc[w] # "idle"
    PROVE  w \in dir /\ w # Base /\ dir # {Base}
<1>1. w \in dir /\ w # Base
    BY Apart, ListsAssumption DEF MutationInv, Types
<1> QED
    BY <1>1

LEMMA LandKeeps ==
    ASSUME ListsInv, NEW w \in Mutations, NEW t \in Tiers, Land(w, t)
    PROVE  ListsInv'
<1>0. /\ Types /\ Still /\ t \in AllTiers /\ UNCHANGED <<cache, moved>>
      /\ dir' = dir \cup {w} /\ mpc[w] = "idle"
    BY Apart, ListsAssumption DEF Land, readerVars, Still, AllTiers
<1>1. PlanOf(t) \in Seq(Keys) /\ PlanOf(t) # <<>>
    BY <1>0, PlanIsComplete DEF Keys, Scanned
<1>2. w \notin dir /\ w # Base /\ Base \in dir
    BY <1>0, Apart, ListsAssumption DEF MutationInv
<1>3. /\ tier' \in [Mutations -> AllTiers] /\ tier'[w] = t
      /\ \A v \in Mutations \ {w} : tier'[v] = tier[v]
    BY <1>0 DEF Land, Types
<1>4. /\ left' \in [Mutations -> Seq(Keys)] /\ left'[w] = PlanOf(t)
      /\ \A v \in Mutations \ {w} : left'[v] = left[v]
    <2>1. left' = [left EXCEPT ![w] = PlanOf(t)] /\ left \in [Mutations -> Seq(Keys)]
        BY <1>0 DEF Land, Types
    <2> QED
        BY <1>1, <2>1
<1>5. /\ mpc' \in [Mutations -> {"idle", "resolve", "bump", "apply", "done"}]
      /\ mpc'[w] \in {"resolve", "bump"}
      /\ \A v \in Mutations \ {w} : mpc'[v] = mpc[v]
    BY <1>0 DEF Land, Types
<1>6. scans' \in [Collections -> Nat]
    BY <1>0 DEF Land, Types
<1>7. Types'
    <2>1. dir' \subseteq Effects
        BY <1>0 DEF Types, Effects
    <2> QED
        BY <1>0, <1>3, <1>4, <1>5, <1>6, <2>1 DEF Types, NodeTypes, Still
<1>8. MutationInv'
    <2>1. ASSUME NEW v \in Mutations
          PROVE  /\ mpc'[v] = "idle" <=> v \notin dir'
                 /\ mpc'[v] \in {"resolve", "bump", "apply"} => left'[v] # <<>>
                 /\ mpc'[v] = "done" => left'[v] = <<>>
        <3>1. CASE v = w
            BY <1>0, <1>1, <1>4, <1>5, <3>1
        <3>2. CASE v # w
            BY <1>0, <1>4, <1>5, <3>2, Apart DEF MutationInv
        <3> QED
            BY <3>1, <3>2
    <2> QED
        BY <1>0, <1>2, <2>1 DEF MutationInv
<1>9. New(w)
    <2> SUFFICES ASSUME NEW k \in Keys, Shows(k, w)' PROVE Unbumped(w, k)'
        BY DEF New
    <2>1. TierOf(w)' = t
        BY <1>2, <1>3 DEF TierOf
    <2>2. /\ t = "credentials" => k \in {"apps_pairing", "credential_expirations"}
          /\ t = "renamed" => k \in Scanned \cup {"search_corpus"}
        BY <2>1 DEF Shows
    <2>3. \E i \in DOMAIN PlanOf(t) : PlanOf(t)[i] = k
        BY <1>0, <2>2, PlanIsComplete
    <2>4. Pending(w, k)'
        BY <1>4, <2>3 DEF Pending
    <2> QED
        BY <1>5, <2>4 DEF Unbumped
<1>10. ASSUME NEW v \in dir \ {Base}
       PROVE  /\ TierOf(v)' = TierOf(v)
              /\ \A k : (Pending(v, k)' <=> Pending(v, k)) /\ (Unbumped(v, k)' <=> Unbumped(v, k))
    <2>1. v \in Mutations \ {w}
        BY <1>0, <1>2 DEF Types, Effects
    <2>2. left'[v] = left[v] /\ mpc'[v] = mpc[v] /\ tier'[v] = tier[v]
        BY <1>3, <1>4, <1>5, <2>1
    <2> QED
        BY <2>2 DEF TierOf, Pending, Unbumped
<1>11. NodesInv'
    <2>1. \A v \in dir \ {Base} : Known(v)
        BY <1>0, <1>10 DEF Known, Hears
    <2>2. \A v \in dir' \ {Base} : Known(v) \/ New(v)
        BY <1>0, <1>9, <2>1
    <2> QED
        BY <1>0, <2>2, StillKeeps
<1>12. ASSUME NEW k \in Keys PROVE EntryInv(k)'
    <2> SUFFICES ASSUME cache[k] # NoEntry, NEW v \in dir' \ {Base}, Shows(k, v)',
                        v \notin cache[k].seen
                 PROVE  (Pending(v, k) \/ cache[k].tainted \/ Doomed(k))'
        BY <1>0, Apart DEF EntryInv
    <2>1. CASE v = w
        BY <1>9, <2>1 DEF New, Unbumped
    <2>2. CASE v \in dir \ {Base}
        <3>1. Shows(k, v)
            BY <1>10, <2>2 DEF Shows
        <3>2. Pending(v, k) \/ cache[k].tainted \/ Doomed(k)
            BY <2>2, <3>1, Apart DEF EntryInv
        <3> QED
            BY <1>0, <1>10, <2>2, <3>2, StillDoomed
    <2> QED
        BY <1>0, <2>1, <2>2
<1>13. ColdInv'
    BY <1>0, <1>2 DEF ColdInv
<1> QED
    BY <1>7, <1>8, <1>11, <1>12, <1>13, Assembled

LEMMA ResolveKeeps ==
    ASSUME ListsInv, NEW w \in Mutations, Resolve(w)
    PROVE  ListsInv'
<1>0. /\ Types /\ Still /\ mpc[w] = "resolve"
      /\ UNCHANGED <<dir, cache, moved, tier, left, scans>>
    BY Apart DEF Resolve, readerVars, Still
<1>1. /\ mpc' \in [Mutations -> {"idle", "resolve", "bump", "apply", "done"}]
      /\ mpc'[w] = "bump" /\ \A v \in Mutations \ {w} : mpc'[v] = mpc[v]
    BY <1>0 DEF Resolve, Types
<1>2. Types' /\ MutationInv'
    <2>1. Types'
        BY <1>0, <1>1 DEF Types, NodeTypes, Still
    <2>2. MutationInv'
        BY <1>0, <1>1, Apart DEF MutationInv
    <2> QED
        BY <2>1, <2>2
<1>3. ASSUME NEW v \in dir \ {Base}, NEW k
      PROVE  (Unbumped(v, k) => Unbumped(v, k)') /\ (Pending(v, k)' <=> Pending(v, k))
    <2>1. v \in Mutations
        BY <1>0 DEF Types, Effects
    <2> QED
        BY <1>0, <1>1, <2>1 DEF Unbumped, Pending
<1>4. NodesInv'
    <2>1. \A v \in dir' \ {Base} : Known(v)
        BY <1>0, <1>3 DEF Known, Hears, TierOf
    <2> QED
        BY <1>0, <2>1, StillKeeps
<1>5. ASSUME NEW k \in Keys PROVE EntryInv(k)'
    <2>1. \A v : Shows(k, v)' <=> Shows(k, v)
        BY <1>0 DEF Shows, TierOf
    <2> QED
        BY <1>0, <1>3, <2>1, StillDoomed, Apart DEF EntryInv
<1>6. ColdInv'
    BY <1>0, Warm DEF ColdInv
<1> QED
    BY <1>2, <1>4, <1>5, <1>6, Assembled

LEMMA BumpKeeps ==
    ASSUME ListsInv, NEW w \in Mutations, Bump(w)
    PROVE  ListsInv'
<1> DEFINE h == Head(left[w])
<1>0. /\ Types /\ mpc[w] = "bump" /\ UNCHANGED <<dir, cache, tier, left, scans>>
      /\ UNCHANGED <<gate, want, pc, seen, tainted, todo, failures>>
    BY Apart DEF Bump, readerVars
<1>1. /\ mpc' \in [Mutations -> {"idle", "resolve", "bump", "apply", "done"}]
      /\ mpc'[w] = "apply" /\ \A v \in Mutations \ {w} : mpc'[v] = mpc[v]
    BY <1>0 DEF Bump, Types
<1>2. left[w] # <<>> /\ left[w] \in Seq(Keys) /\ h \in Keys
    <2>1. left[w] # <<>> /\ left[w] \in Seq(Keys)
        BY <1>0, Apart DEF MutationInv, Types
    <2> QED
        BY <2>1
<1>3. /\ moved' = [n \in Nodes |-> moved[n] \cup (Watches(n) \cap {h})]
      /\ moved' \in [Nodes -> SUBSET Keys]
    <2>1. moved' = [n \in Nodes |-> moved[n] \cup (Watches(n) \cap {h})]
        BY DEF Bump
    <2>2. moved \in [Nodes -> SUBSET Keys]
        BY <1>0 DEF Types, NodeTypes
    <2> HIDE DEF h
    <2> QED
        BY <1>2, <2>1, <2>2
<1>4. Still
    BY <1>0, <1>3 DEF Still
<1>5. Types' /\ MutationInv'
    <2>1. Types'
        BY <1>0, <1>1, <1>3 DEF Types, NodeTypes
    <2>2. MutationInv'
        BY <1>0, <1>1, Apart DEF MutationInv
    <2> QED
        BY <2>1, <2>2
<1>6. ASSUME NEW v \in dir \ {Base}, NEW k PROVE Pending(v, k)' <=> Pending(v, k)
    BY <1>0 DEF Pending
<1>7. ASSUME NEW v \in dir \ {Base} PROVE Known(v)
    <2>0. v \in Mutations /\ TierOf(v)' = TierOf(v)
        BY <1>0 DEF Types, Effects, TierOf
    <2>1. ASSUME NEW n \in Nodes, NEW k \in Watches(n), Hears(n, k, v) PROVE Hears(n, k, v)'
        <3>1. CASE k \in moved[n]
            BY <1>4, <3>1 DEF Hears, Still
        <3>2. CASE Unbumped(v, k) /\ v = w /\ h = k
            BY <1>3, <3>2 DEF Hears
        <3>3. CASE Unbumped(v, k) /\ ~(v = w /\ h = k)
            BY <1>0, <1>1, <1>6, <2>0, <3>3 DEF Hears, Unbumped
        <3> QED
            BY <2>1, <3>1, <3>2, <3>3 DEF Hears
    <2> QED
        BY <2>0, <2>1 DEF Known
<1>8. NodesInv'
    BY <1>0, <1>4, <1>7, StillKeeps
<1>9. ASSUME NEW k \in Keys PROVE EntryInv(k)'
    <2>1. \A v : Shows(k, v)' <=> Shows(k, v)
        BY <1>0 DEF Shows, TierOf
    <2> QED
        BY <1>0, <1>4, <1>6, <2>1, StillDoomed, Apart DEF EntryInv
<1>10. ColdInv'
    BY <1>0, Warm DEF ColdInv
<1> QED
    BY <1>5, <1>8, <1>9, <1>10, Assembled

LEMMA ApplyKeeps ==
    ASSUME ListsInv, NEW w \in Mutations, Apply(w)
    PROVE  ListsInv'
<1> DEFINE h == Head(left[w])
           rest == Tail(left[w])
<1>0. /\ Types /\ Still /\ mpc[w] = "apply" /\ UNCHANGED <<dir, moved, tier, scans>>
    BY Apart DEF Apply, readerVars, Still
<1>1. /\ left[w] # <<>> /\ left[w] \in Seq(Keys) /\ h \in Keys /\ rest \in Seq(Keys)
      /\ \A k : Pending(w, k) /\ k # h => \E i \in DOMAIN rest : rest[i] = k
    <2>1. left[w] # <<>> /\ left[w] \in Seq(Keys)
        BY <1>0, Apart DEF MutationInv, Types
    <2>2. h \in Keys /\ rest \in Seq(Keys)
        BY <2>1
    <2>3. ASSUME NEW k, Pending(w, k), k # h PROVE \E i \in DOMAIN rest : rest[i] = k
        <3>1. PICK i \in DOMAIN left[w] : left[w][i] = k
            BY <2>3 DEF Pending
        <3>2. i \in 1..Len(left[w]) /\ i # 1
            BY <2>1, <2>3, <3>1
        <3>3. i - 1 \in DOMAIN rest /\ rest[i - 1] = left[w][i]
            BY <2>1, <3>2
        <3> QED
            BY <3>1, <3>3
    <2> QED
        BY <2>1, <2>2, <2>3
<1>2. /\ left' \in [Mutations -> Seq(Keys)] /\ left'[w] = rest
      /\ \A v \in Mutations \ {w} : left'[v] = left[v]
    <2>1. left' = [left EXCEPT ![w] = rest] /\ left \in [Mutations -> Seq(Keys)]
        BY <1>0 DEF Apply, Types
    <2> HIDE DEF rest
    <2> QED
        BY <1>1, <2>1
<1>3. /\ mpc' \in [Mutations -> {"idle", "resolve", "bump", "apply", "done"}]
      /\ mpc'[w] = IF rest = <<>> THEN "done" ELSE "bump"
      /\ \A v \in Mutations \ {w} : mpc'[v] = mpc[v]
    <2>1. /\ mpc' = [mpc EXCEPT ![w] = IF rest = <<>> THEN "done" ELSE "bump"]
          /\ mpc \in [Mutations -> {"idle", "resolve", "bump", "apply", "done"}]
        BY <1>0 DEF Apply, Types
    <2> HIDE DEF rest
    <2> QED
        BY <2>1
<1>4. /\ cache' \in [Keys -> Entries \cup {NoEntry}]
      /\ \A k \in Keys \ {h} : cache'[k] = cache[k]
      /\ \/ cache'[h] = NoEntry
         \/ /\ cache[h] # NoEntry /\ cache'[h].seen = cache[h].seen \cup {w}
            /\ cache'[h].by = cache[h].by /\ cache'[h].tainted = cache[h].tainted
    <2>0. cache \in [Keys -> Entries \cup {NoEntry}]
        BY <1>0 DEF Types
    <2>1. CASE cache' = [cache EXCEPT ![h] = NoEntry]
        <3> HIDE DEF h
        <3> QED
            BY <1>1, <2>0, <2>1
    <2>2. CASE cache[h] # NoEntry /\ cache' = [cache EXCEPT ![h].seen = @ \cup {w}]
        <3> DEFINE e == [cache[h] EXCEPT !.seen = @ \cup {w}]
        <3>1. cache' = [cache EXCEPT ![h] = e]
            BY <2>2
        <3>2. cache[h] \in Entries /\ w \in Effects
            BY <1>1, <2>0, <2>2 DEF Effects
        <3>3. /\ e \in Entries /\ e.seen = cache[h].seen \cup {w}
              /\ e.by = cache[h].by /\ e.tainted = cache[h].tainted
            BY <3>2 DEF Entries
        <3> HIDE DEF e, h
        <3> QED
            BY <1>1, <2>0, <2>2, <3>1, <3>3
    <2> QED
        BY <2>1, <2>2 DEF Apply
<1> HIDE DEF h, rest
<1>5. Types' /\ MutationInv'
    <2>1. Types'
        BY <1>0, <1>2, <1>3, <1>4 DEF Types, NodeTypes, Still
    <2>2. w \in dir
        BY <1>0, Warm
    <2>3. ASSUME NEW v \in Mutations
          PROVE  /\ mpc'[v] = "idle" <=> v \notin dir'
                 /\ mpc'[v] \in {"resolve", "bump", "apply"} => left'[v] # <<>>
                 /\ mpc'[v] = "done" => left'[v] = <<>>
        <3>1. CASE v = w
            BY <1>0, <1>2, <1>3, <2>2, <3>1
        <3>2. CASE v # w
            BY <1>0, <1>2, <1>3, <3>2, Apart DEF MutationInv
        <3> QED
            BY <3>1, <3>2
    <2>4. MutationInv'
        BY <1>0, <2>3, Apart DEF MutationInv
    <2> QED
        BY <2>1, <2>4
<1>6. ASSUME NEW v \in dir \ {Base}, NEW k, ~(v = w /\ k = h)
      PROVE  (Pending(v, k) => Pending(v, k)') /\ (Unbumped(v, k) => Unbumped(v, k)')
    <2>0. v \in Mutations
        BY <1>0 DEF Types, Effects
    <2>1. CASE v = w
        <3>1. Pending(v, k) => Pending(v, k)'
            BY <1>1, <1>2, <1>6, <2>1 DEF Pending
        <3>2. mpc'[v] # "apply"
            BY <1>3, <2>1
        <3> QED
            BY <3>1, <3>2 DEF Unbumped
    <2>2. CASE v # w
        BY <1>2, <1>3, <2>0, <2>2 DEF Pending, Unbumped
    <2> QED
        BY <2>1, <2>2
<1>7. ASSUME NEW v \in dir \ {Base} PROVE Known(v)
    <2>1. TierOf(v)' = TierOf(v)
        BY <1>0 DEF TierOf
    <2>2. ASSUME NEW n \in Nodes, NEW k \in Watches(n), Hears(n, k, v) PROVE Hears(n, k, v)'
        <3>1. CASE k \in moved[n]
            BY <1>0, <3>1 DEF Hears
        <3>2. CASE Unbumped(v, k)
            <4>1. ~(v = w /\ k = h)
                BY <1>0, <3>2 DEF Unbumped, h
            <4> QED
                BY <1>6, <3>2, <4>1 DEF Hears
        <3> QED
            BY <2>2, <3>1, <3>2 DEF Hears
    <2> QED
        BY <2>1, <2>2 DEF Known
<1>8. NodesInv'
    BY <1>0, <1>7, StillKeeps
<1>9. ASSUME NEW k \in Keys PROVE EntryInv(k)'
    <2>0. EntryInv(k) /\ dir' = dir /\ \A v : Shows(k, v)' <=> Shows(k, v)
        BY <1>0, Apart DEF Shows, TierOf
    <2>1. CASE cache'[k] = NoEntry
        BY <2>1 DEF EntryInv
    <2>2. CASE k # h /\ cache'[k] = cache[k]
        BY <1>0, <1>6, <2>0, <2>2, StillDoomed DEF EntryInv
    <2>3. CASE /\ k = h /\ cache[k] # NoEntry /\ cache'[k].seen = cache[k].seen \cup {w}
               /\ cache'[k].by = cache[k].by /\ cache'[k].tainted = cache[k].tainted
        <3>1. ASSUME NEW v \in dir \ {Base}, Shows(k, v), v \notin cache'[k].seen
              PROVE  Pending(v, k)' \/ cache'[k].tainted \/ Doomed(k)'
            <4>1. v # w /\ v \notin cache[k].seen
                BY <2>3, <3>1
            <4>2. Pending(v, k) \/ cache[k].tainted \/ Doomed(k)
                BY <2>0, <2>3, <3>1, <4>1 DEF EntryInv
            <4> QED
                BY <1>0, <1>6, <2>3, <4>1, <4>2, StillDoomed
        <3> QED
            BY <2>0, <2>3, <3>1 DEF EntryInv
    <2> QED
        BY <1>4, <2>1, <2>2, <2>3
<1>10. ColdInv'
    BY <1>0, Warm DEF ColdInv
<1> QED
    BY <1>5, <1>8, <1>9, <1>10, Assembled

-----------------------------------------------------------------------------
(* The invariant and what follows from it.                                 *)

LEMMA InitHolds == Init => ListsInv
<1> SUFFICES ASSUME Init PROVE ListsInv
    OBVIOUS
<1>1. Types
    BY DEF Init, Types, NodeTypes, Idle, Effects, Keys, Collections, AllTiers
<1>2. MutationInv
    BY ListsAssumption DEF Init, MutationInv
<1>3. \A n \in Nodes : pc[n] = "off" /\ ~tainted[n] /\ moved[n] = {}
    BY DEF Init, Idle
<1>4. ASSUME NEW n \in Nodes PROVE TreeInv(n)
    <2>1. \A c \in Children(n) : c \in Nodes
        BY <1>1, ChildFacts
    <2> QED
        BY <1>3, <2>1 DEF TreeInv
<1>5. ASSUME NEW n \in Nodes PROVE TodoInv(n) /\ SeenInv(n) /\ RaceInv(n)
    <2>1. Watches(n) = {}
        BY <1>3 DEF Watches
    <2> QED
        BY <1>3, <2>1 DEF TodoInv, SeenInv, RaceInv, Seeing
<1>6. GateInv
    BY DEF GateInv, Init
<1>7. \A k \in Keys : EntryInv(k)
    BY DEF EntryInv, Init
<1>8. Cold
    BY <1>3 DEF Cold, Init
<1> QED
    BY <1>1, <1>2, <1>4, <1>5, <1>6, <1>7, <1>8 DEF ListsInv, ColdInv

LEMMA StutterKeeps ==
    ASSUME ListsInv, UNCHANGED vars
    PROVE  ListsInv'
<1>0. /\ Still /\ Types /\ UNCHANGED <<dir, cache, tier, mpc, left, moved, scans>>
    BY Apart DEF vars, Still
<1>1. Types' /\ MutationInv'
    <2>1. Types'
        BY <1>0 DEF Types, NodeTypes, Still
    <2>2. MutationInv'
        BY <1>0, Apart DEF MutationInv
    <2> QED
        BY <2>1, <2>2
<1>2. \A v, k : (Pending(v, k)' <=> Pending(v, k)) /\ (Unbumped(v, k)' <=> Unbumped(v, k))
    BY <1>0 DEF Pending, Unbumped
<1>3. NodesInv'
    <2>1. \A v \in dir' \ {Base} : Known(v)
        BY <1>0, <1>2 DEF Known, Hears, TierOf
    <2> QED
        BY <1>0, <2>1, StillKeeps
<1>4. ASSUME NEW k \in Keys PROVE EntryInv(k)'
    <2>1. \A v : Shows(k, v)' <=> Shows(k, v)
        BY <1>0 DEF Shows, TierOf
    <2> QED
        BY <1>0, <1>2, <2>1, StillDoomed, Apart DEF EntryInv
<1>5. ColdInv'
    <2>1. Cold => Cold'
        BY <1>0 DEF Cold, Still
    <2> QED
        BY <1>0, <2>1, Apart DEF ColdInv, Still
<1> QED
    BY <1>1, <1>3, <1>4, <1>5, Assembled

LEMMA StepKeeps ==
    ASSUME ListsInv, [Next]_vars
    PROVE  ListsInv'
<1>1. ASSUME NEW n \in Nodes, Progress(n) \/ ScanFails(n) PROVE ListsInv'
    BY <1>1, LookKeeps, EnterKeeps, ScanKeeps, ScanFailsKeeps, JoinIndexesKeeps,
       JoinAbortsKeeps, PutKeeps, VerifyKeeps DEF Progress
<1>2. ASSUME NEW w \in Mutations, (\E t \in Tiers : Land(w, t)) \/ Invalidate(w)
      PROVE  ListsInv'
    BY <1>2, LandKeeps, ResolveKeeps, BumpKeeps, ApplyKeeps DEF Invalidate
<1> QED
    BY <1>1, <1>2, RequestKeeps, StutterKeeps DEF Next

\* The state of the readers, the gates, the mutations and the entries is always
\* as ListsInv says: in particular every write an entry lacks, or a scan or a
\* join under way has missed, is accounted for.
THEOREM ListsInvariance == Spec => []ListsInv
<1>1. Init => ListsInv
    BY InitHolds
<1>2. ListsInv /\ [Next]_vars => ListsInv'
    BY StepKeeps
<1> QED
    BY <1>1, <1>2, PTL DEF Spec

\* When no command is under way, nothing has yet to treat a key, and an entry
\* that nobody is checking will not be taken back.
LEMMA NothingPending ==
    ASSUME ListsInv, NEW k \in Keys, AtRest(k), Stale(k)
    PROVE  cache[k].tainted
<1>1. PICK w \in dir \ cache[k].seen : Shows(k, w)
    BY DEF Stale, Behind
<1>2. EntryInv(k) /\ cache[k] # NoEntry /\ Types
    BY Apart DEF Stale
<1>3. w # Base /\ w \in Mutations
    <2>1. w # Base
        BY <1>1, <1>2 DEF EntryInv
    <2> QED
        BY <1>1, <1>2, <2>1 DEF Types, Effects
<1>4. ~Pending(w, k)
    <2>1. left[w] = <<>>
        BY <1>1, <1>3, Apart DEF AtRest, MutationInv
    <2> QED
        BY <2>1 DEF Pending
<1>5. ~Doomed(k)
    BY DEF Doomed, AtRest
<1> QED
    BY <1>1, <1>2, <1>3, <1>4, <1>5 DEF EntryInv

\* Whatever the readers and the mutations do, the SP index, the app name index
\* and the credential expirations never hold a snapshot older than a mutation
\* that returned.
THEOREM IndexesStayFresh == Spec => []IndexesAreFresh
<1>1. ListsInv => IndexesAreFresh
    <2> SUFFICES ASSUME ListsInv, NEW k \in Indexes, AtRest(k), Stale(k)
                 PROVE  FALSE
        BY DEF IndexesAreFresh, Indexes
    <2>1. k \in Keys
        BY DEF Indexes, Keys, Scanned
    <2>2. EntryInv(k) /\ cache[k] # NoEntry
        BY <2>1, Apart DEF Stale
    <2> QED
        BY <2>1, <2>2, NothingPending DEF EntryInv
<1> QED
    BY <1>1, ListsInvariance, PTL

\* A list is out of date only if an entry it was made of was behind when read.
THEOREM StalenessIsInherited == Spec => []OnlyInheritedStaleness
<1>1. ListsInv => OnlyInheritedStaleness
    BY NothingPending DEF OnlyInheritedStaleness
<1> QED
    BY <1>1, ListsInvariance, PTL

\* However many readers meet in a tenant whose lists nobody has loaded, each
\* collection is scanned at most once before a mutation or a failure.
THEOREM ColdReadersScanOnce == Spec => []ColdReadersShareOneScan
<1>1. ListsInv => ColdReadersShareOneScan
    <2> SUFFICES ASSUME ListsInv, dir = {Base}, failures = 0, NEW c \in DOMAIN scans
                 PROVE  scans[c] <= 1
        BY DEF ColdReadersShareOneScan
    <2>1. c \in Collections /\ Cold
        BY Apart DEF Types, ColdInv
    <2> QED
        BY <2>1 DEF Cold, Collections
<1> QED
    BY <1>1, ListsInvariance, PTL

\* No entry is made of a half that failed to load.
THEOREM EntriesAreWhole == Spec => []NoPartialEntry
<1>1. ListsInv => NoPartialEntry
    BY Apart DEF NoPartialEntry, EntryInv
<1> QED
    BY <1>1, ListsInvariance, PTL

=============================================================================
