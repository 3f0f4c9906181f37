--------------------------- MODULE RotationProofs ---------------------------
(***************************************************************************)
(* Proofs about Rotation, for any number of rotations, apps, histories of  *)
(* the vault, retries and faults.                                          *)
(*                                                                         *)
(* The properties speak of the ends of a rotation, or of its mint; the     *)
(* inductive invariant says what is known at each of its calls            *)
(* (StageInv), of a request that was given up and has not landed           *)
(* (AdriftInv), of the vault's versions (VaultInv), of the secrets on the  *)
(* apps (CredsInv) and of the cached ones (CacheInv).                      *)
(***************************************************************************)
EXTENDS Rotation, TLAPS

Ops == {"idle", "owner", "mint", "store", "readback", "undo", "remove", "ended"}

\* The calls between the mint and the end.
Holding == {"store", "readback", "undo", "remove"}

\* A rotation's record.
Rots == [op : Ops, app : Apps \cup {None}, attempt : Nat, cae : BOOLEAN,
         key : Secrets \cup {None}, listed : SUBSET Secrets, todo : SUBSET Secrets,
         target : Secrets \cup {None}, removed : SUBSET Secrets, named : SUBSET Secrets,
         result : {"none", "ok", "err"}, saw : Nat, vague : BOOLEAN]

Requests == [op : {"mint", "store", "undo", "remove"}, r : Rotations,
             key : Secrets \cup {None}]

Entries == [app : Apps, keys : SUBSET Secrets]

Types ==
    /\ creds \subseteq Secrets
    /\ vault \in Seq(Versions)
    /\ clock \in Nat
    /\ adrift \subseteq Requests
    /\ cached = None \/ cached \in Entries
    /\ rot \in [Rotations -> Rots]
    /\ minted \in [Rotations -> Nat]

\* The secret a rotation mints.
Own(r) == Key(r, 1)

\* A secret that has been on an app.
Known(k) == \/ k.by \in Apps
            \/ k.by \in Rotations /\ k.n = 1 /\ minted[k.by] = 1

Holds(k) == vault_holds_key(vault, k)

\* What is known of rotation r by the call it makes.
StageInv(r) ==
    LET c == rot[r] IN
    /\ c.op = "idle" => c.listed = {}
    /\ c.op # "idle" => c.app \in Apps
    /\ c.op \in {"idle", "owner", "mint"} =>
          /\ minted[r] = 0 /\ c.key = None /\ c.removed = {}
          /\ ~Holds(Own(r))
    /\ c.op \in Holding => minted[r] = 1 /\ c.key = Own(r)
    /\ c.op # "ended" => c.named = {} /\ ~c.vague
    /\ c.op = "ended" =>
          \/ c.result = "err" /\ c.key = None /\ c.named = {}
             /\ (minted[r] = 0 \/ (minted[r] = 1 /\ c.vague))
          \/ minted[r] = 1 /\ c.key = Own(r) /\ c.result \in {"ok", "err"} /\ ~c.vague
    /\ c.result = "none" <=> c.op # "ended"
    /\ c.op = "store" /\ c.attempt = 0 => ~Holds(Own(r))
    /\ c.op = "remove" \/ c.result = "ok" => Holds(Own(r))
    /\ c.todo \subseteq c.listed \ {Own(r)}
    /\ c.removed \subseteq c.listed
    /\ c.saw <= Len(vault)

\* What is known of a request that was given up and may still land.
AdriftInv(q) ==
    LET c == rot[q.r] IN
    /\ q.op = "mint" => q.key = None /\ minted[q.r] = 0 /\ c.op = "ended" /\ c.vague
    /\ q.op = "store" =>
          /\ q.key = Own(q.r) /\ c.key = Own(q.r)
          /\ c.op \in Holding \cup {"ended"} /\ ~(c.op = "store" /\ c.attempt = 0)
    /\ q.op = "undo" =>
          /\ q.key = Own(q.r) /\ c.key = Own(q.r)
          /\ c.op = "ended" /\ c.result = "err"
    /\ q.op = "remove" =>
          /\ q.key \in c.listed \ {Own(q.r)}
          /\ c.op \in {"remove", "ended"} /\ Holds(Own(q.r))

\* The rotation is taking its secret off the app, or may yet.
Undoing(r) == rot[r].op = "undo" \/ \E q \in adrift : q.op = "undo" /\ q.r = r

Minted(v) == \E r \in Rotations : v.key = Own(r)

\* The versions are in the order of their dates, those of the rotations come
\* last, and each holds a secret that is live, or was taken off knowingly.
VaultInv ==
    /\ \A i \in DOMAIN vault :
          /\ vault[i].at <= clock
          /\ \A j \in 1..i : vault[i].at = Undated \/ vault[j].at <= vault[i].at
          /\ \/ Minted(vault[i])
             \/ /\ vault[i].key \in {Key(a, 0) : a \in Apps} \cup {None}
                /\ \A j \in 1..i : ~Minted(vault[j])
    /\ \A i \in DOMAIN vault : \A r \in Rotations : vault[i].key = Own(r) =>
          /\ minted[r] = 1
          /\ Own(r) \in creds \/ vault[i].late \/ RemovedByAnother(Own(r))
          /\ Undoing(r) => vault[i].late

\* What is on the apps, and what is told of it.
CredsInv ==
    /\ \A k \in creds : Known(k)
    /\ \A a \in Apps : Key(a, 0) \in creds \/ \E i \in DOMAIN vault : Minted(vault[i])
    /\ \A r \in Rotations :
          /\ \A k \in rot[r].listed : Known(k) /\ AppOf(k) = rot[r].app
          /\ rot[r].removed \cap creds = {}
          /\ rot[r].op \in {"store", "readback", "remove"} \/ rot[r].result = "ok" =>
                Own(r) \in creds \/ RemovedByAnother(Own(r))
          /\ rot[r].result = "err" =>
                rot[r].vague \/ (Own(r) \in creds => Own(r) \in rot[r].named)

\* Why a cached secret may differ from the app's: see CacheHearsOfRotation; or
\* the rotation that made the difference is not over, and will bust the entry.
Excused(k) ==
    \/ k \in drifted
    \/ k.by \in Rotations /\ (rot[k.by].vague \/ RolledBack(k.by) \/ rot[k.by].op \in Holding)
    \/ \E r \in Rotations : rot[r].op = "remove" /\ k \in rot[r].listed

CacheInv ==
    cached # None =>
        /\ \A k \in cached.keys : Known(k) /\ AppOf(k) = cached.app
        /\ \A k \in (cached.keys \ OnApp(cached.app)) \cup (OnApp(cached.app) \ cached.keys) :
              Excused(k)

RotationInv ==
    /\ Types
    /\ \A r \in Rotations : StageInv(r)
    /\ \A q \in adrift : AdriftInv(q)
    /\ VaultInv
    /\ CredsInv
    /\ ClaimIsRespected
    /\ CacheInv

-----------------------------------------------------------------------------
(* Secrets, records and requests.                                          *)

LEMMA OwnFacts ==
    /\ \A r \in Rotations : /\ Own(r) \in Secrets /\ Own(r).by = r /\ Own(r).n = 1
                            /\ Own(r) # None /\ r \notin Apps
    /\ \A r, s \in Rotations : Own(r) = Own(s) => r = s
    /\ \A r \in Rotations, a \in Apps : Own(r) # Key(a, 0)
    /\ \A a \in Apps : Key(a, 0) \in Secrets /\ Key(a, 0).by = a /\ Key(a, 0) # None
    /\ \A k \in Secrets : k.by \in Rotations /\ k.n = 1 => k = Own(k.by)
<1>1. \A r \in Rotations : /\ Own(r) \in Secrets /\ Own(r).by = r /\ Own(r).n = 1
                           /\ Own(r) # None /\ r \notin Apps
    BY NamesAssumption DEF Own, Key, Secrets
<1>2. \A r, s \in Rotations : Own(r) = Own(s) => r = s
    BY <1>1
<1>3. \A a \in Apps : Key(a, 0) \in Secrets /\ Key(a, 0).by = a /\ Key(a, 0) # None
    BY NamesAssumption DEF Key, Secrets
<1>4. \A r \in Rotations, a \in Apps : Own(r) # Key(a, 0)
    BY <1>1, <1>3
<1>5. \A k \in Secrets : k.by \in Rotations /\ k.n = 1 => k = Own(k.by)
    BY DEF Own, Key, Secrets
<1> QED
    BY <1>1, <1>2, <1>3, <1>4, <1>5

\* The rotation repeats its call.
Retried(c, d) ==
    /\ d \in Rots
    /\ d.op = c.op /\ d.app = c.app /\ d.key = c.key /\ d.listed = c.listed
    /\ d.todo = c.todo /\ d.removed = c.removed /\ d.named = c.named
    /\ d.result = c.result /\ d.saw = c.saw /\ d.vague = c.vague

\* The rotation goes on to another call.
Moved(c, d, op) ==
    /\ d \in Rots
    /\ d.op = op /\ d.attempt = 0 /\ d.app = c.app /\ d.listed = c.listed
    /\ d.removed = c.removed /\ d.named = c.named /\ d.result = c.result
    /\ d.vague = c.vague

\* The rotation ends.
Over(c, d, result) ==
    /\ d \in Rots
    /\ d.op = "ended" /\ d.result = result /\ d.saw = 0
    /\ d.app = c.app /\ d.key = c.key /\ d.listed = c.listed
    /\ d.todo = c.todo /\ d.removed = c.removed

LEMMA NextAttemptRecord ==
    ASSUME NEW c \in Rots, NEW ans
    PROVE  /\ Retried(c, NextAttempt(c, ans))
           /\ ans # "claims" => NextAttempt(c, ans).attempt = c.attempt + 1
<1> DEFINE d == NextAttempt(c, ans)
<1>1. d = IF ans = "claims" THEN [c EXCEPT !.attempt = 0, !.cae = TRUE]
                            ELSE [c EXCEPT !.attempt = c.attempt + 1]
    BY DEF NextAttempt
<1> HIDE DEF d
<1>2. CASE ans = "claims"
    <2>1. d = [c EXCEPT !.attempt = 0, !.cae = TRUE]
        BY <1>1, <1>2
    <2>2. d \in Rots
        BY <2>1 DEF Rots
    <2>3. Retried(c, d)
        BY <2>1, <2>2 DEF Rots, Retried
    <2> QED
        BY <1>2, <2>3 DEF d
<1>3. CASE ans # "claims"
    <2>1. d = [c EXCEPT !.attempt = c.attempt + 1]
        BY <1>1, <1>3
    <2>2. d \in Rots /\ d.attempt = c.attempt + 1
        BY <2>1 DEF Rots
    <2>3. Retried(c, d)
        BY <2>1, <2>2 DEF Rots, Retried
    <2> QED
        BY <2>2, <2>3 DEF d
<1> QED
    BY <1>2, <1>3

LEMMA ToRecord ==
    ASSUME NEW c \in Rots, NEW op \in Ops
    PROVE  /\ Moved(c, To(c, op), op) 
           /\ To(c, op).key = c.key /\ To(c, op).todo = c.todo /\ To(c, op).saw = c.saw
BY DEF Rots, Moved, To

LEMMA EndedRecord ==
    ASSUME NEW c \in Rots, NEW result \in {"ok", "err"}
    PROVE  /\ Over(c, Ended(c, result), result)
           /\ Ended(c, result).named = c.named /\ Ended(c, result).vague = c.vague
<1> DEFINE b == To(c, "ended")
           d == Ended(c, result)
<1>1. b \in Rots /\ Moved(c, b, "ended") /\ b.key = c.key /\ b.todo = c.todo
    BY ToRecord DEF Ops, Moved
<1>2. d = [b EXCEPT !.result = result, !.saw = 0]
    BY DEF Ended
<1> HIDE DEF b, d
<1>3. d \in Rots
    BY <1>1, <1>2 DEF Rots
<1>4. /\ d.op = b.op /\ d.result = result /\ d.saw = 0 /\ d.app = b.app /\ d.key = b.key
      /\ d.listed = b.listed /\ d.todo = b.todo /\ d.removed = b.removed
      /\ d.named = b.named /\ d.vague = b.vague
    BY <1>1, <1>2 DEF Rots
<1>5. Over(c, d, result) /\ d.named = c.named /\ d.vague = c.vague
    BY <1>1, <1>3, <1>4 DEF Over, Moved
<1> QED
    BY <1>5 DEF d

LEMMA LeftOnAppRecord ==
    ASSUME NEW c \in Rots, c.key \in Secrets
    PROVE  /\ Over(c, LeftOnApp(c), "err")
           /\ LeftOnApp(c).named = {c.key} /\ LeftOnApp(c).vague = c.vague
<1>1. Ended(c, "err") \in Rots
    BY EndedRecord DEF Over
<1> QED
    BY <1>1, EndedRecord DEF Rots, Over, LeftOnApp

\* What one attempt does to the services, by the call it belongs to.
Took(r, k, land) ==
    LET op == rot[r].op
        q == [op |-> op, r |-> r, key |-> k] IN
    /\ land = "now" => /\ op = "mint" => AddPassword(r)
                       /\ op = "store" => SetSecret(r, k, FALSE)
                       /\ op \in {"undo", "remove"} => RemovePassword(k)
    /\ land # "now" => UNCHANGED service
    /\ adrift' = IF land = "late" THEN adrift \cup {q} ELSE adrift

LEMMA PerformIs ==
    ASSUME NEW q, NEW late, Perform(q, late)
    PROVE  /\ q.op = "mint" => AddPassword(q.r)
           /\ q.op = "store" => SetSecret(q.r, q.key, late)
           /\ q.op \in {"undo", "remove"} => RemovePassword(q.key)
BY DEF Perform

LEMMA AttemptTook ==
    ASSUME NEW r, NEW k, NEW ans, NEW land, Attempt(r, k, ans, land)
    PROVE  Took(r, k, land)
<1> DEFINE q == [op |-> rot[r].op, r |-> r, key |-> k]
<1>1. q.op = rot[r].op /\ q.r = r /\ q.key = k
    OBVIOUS
<1>2. /\ IF land = "now" THEN Perform(q, FALSE) ELSE UNCHANGED service
      /\ adrift' = IF land = "late" THEN adrift \cup {q} ELSE adrift
    BY DEF Attempt
<1>3. CASE land = "now"
    <2>1. Perform(q, FALSE)
        BY <1>2, <1>3
    <2>2. /\ q.op = "mint" => AddPassword(q.r)
          /\ q.op = "store" => SetSecret(q.r, q.key, FALSE)
          /\ q.op \in {"undo", "remove"} => RemovePassword(q.key)
        BY <2>1, PerformIs
    <2> QED
        BY <1>1, <1>2, <1>3, <2>2 DEF Took
<1>4. CASE land # "now"
    BY <1>2, <1>4 DEF Took
<1> QED
    BY <1>3, <1>4

\* Which answers may leave something behind, and which repeat the call.
LEMMA LandingsAre ==
    ASSUME NEW ans, NEW land \in Landings(ans)
    PROVE  /\ land \in {"no", "now", "late"}
           /\ ans \in {"ok", "garbled", "blank"} => land = "now"
           /\ ans \in {"throttled", "claims", "refused", "token"} => land = "no"
BY DEF Landings

LEMMA RepeatsAre ==
    ASSUME NEW c, NEW ans, Again(c, ans)
    PROVE  /\ ans \in {"lost", "server", "throttled", "claims"}
           /\ c.op \in {"mint", "undo", "remove"} => ans \in {"throttled", "claims"}
BY DEF Again, retry_class_for, Method

-----------------------------------------------------------------------------
(* What each action does.                                                  *)

Others(r) == \A s \in Rotations \ {r} : rot'[s] = rot[s]

LEMMA BeginDoes ==
    ASSUME Types, NEW r \in Rotations, NEW a \in Apps, StageInv(r), Begin(r, a)
    PROVE  /\ rot[r].op = "idle" /\ Others(r)
           /\ UNCHANGED <<service, adrift, cached, drifted>>
           /\ \E ids \in {{}, {Key(a, 0)}, OnApp(a)} :
                /\ rot'[r] \in Rots
                /\ rot'[r].op = "owner" /\ rot'[r].app = a /\ rot'[r].listed = ids
                /\ rot'[r].key = rot[r].key /\ rot'[r].todo = rot[r].todo
                /\ rot'[r].removed = rot[r].removed /\ rot'[r].named = rot[r].named
                /\ rot'[r].result = rot[r].result /\ rot'[r].saw = rot[r].saw
                /\ rot'[r].vague = rot[r].vague
           /\ rot' \in [Rotations -> Rots]
<1>0. rot \in [Rotations -> Rots] /\ rot[r] \in Rots
    BY DEF Types
<1>1. PICK ids \in {{}, {Key(a, 0)}, OnApp(a)} :
         rot' = [rot EXCEPT ![r] = [To(rot[r], "owner") EXCEPT !.app = a, !.listed = ids]]
    BY DEF Begin
<1> DEFINE b == To(rot[r], "owner")
           d == [b EXCEPT !.app = a, !.listed = ids]
<1>2. /\ b \in Rots /\ Moved(rot[r], b, "owner")
      /\ b.key = rot[r].key /\ b.todo = rot[r].todo /\ b.saw = rot[r].saw
    BY <1>0, ToRecord DEF Moved, Ops
<1>3. ids \in SUBSET Secrets
    BY OwnFacts DEF Types, OnApp
<1>4. rot'[r] = d /\ Others(r)
    BY <1>0, <1>1 DEF Others
<1> HIDE DEF b
<1>5. d \in Rots
    BY <1>2, <1>3 DEF Rots
<1>6. /\ d.op = b.op /\ d.app = a /\ d.listed = ids /\ d.key = b.key /\ d.todo = b.todo
      /\ d.removed = b.removed /\ d.named = b.named /\ d.result = b.result
      /\ d.saw = b.saw /\ d.vague = b.vague
    BY <1>2 DEF Rots
<1>7. rot' \in [Rotations -> Rots]
    BY <1>0, <1>1, <1>5 DEF b
<1> HIDE DEF d
<1>8. rot[r].op = "idle" /\ UNCHANGED <<service, adrift, cached, drifted>>
    BY DEF Begin
<1> QED
    BY <1>2, <1>4, <1>5, <1>6, <1>7, <1>8 DEF Moved

LEMMA CheckOwnerDoes ==
    ASSUME Types, NEW r \in Rotations, CheckOwner(r)
    PROVE  /\ rot[r].op = "owner" /\ Others(r) /\ rot' \in [Rotations -> Rots]
           /\ UNCHANGED <<service, adrift, cached, drifted>>
           /\ \/ Retried(rot[r], rot'[r])
              \/ /\ Moved(rot[r], rot'[r], "mint")
                 /\ rot'[r].key = rot[r].key /\ rot'[r].todo = rot[r].todo
                 /\ rot'[r].saw = Len(vault)
                 /\ ~current_owner_if_other(vault, rot[r].app)
              \/ /\ Over(rot[r], rot'[r], "err")
                 /\ rot'[r].named = rot[r].named /\ rot'[r].vague = rot[r].vague
<1>0. rot \in [Rotations -> Rots] /\ rot[r] \in Rots /\ Len(vault) \in Nat
    BY DEF Types
<1> DEFINE c == rot[r]
           b == To(c, "mint")
           m == [b EXCEPT !.saw = Len(vault)]
<1>1. PICK ans \in Answers("owner") :
         rot' = [rot EXCEPT ![r] =
                   CASE Again(c, ans) -> NextAttempt(c, ans)
                     [] ans = "ok" /\ ~current_owner_if_other(vault, c.app) -> m
                     [] OTHER -> Ended(c, "err")]
    BY DEF CheckOwner
<1>2. rot[r].op = "owner" /\ UNCHANGED <<service, adrift, cached, drifted>>
    BY DEF CheckOwner
<1>3. /\ b \in Rots /\ Moved(c, b, "mint") /\ b.key = c.key /\ b.todo = c.todo
    BY <1>0, ToRecord DEF Moved, Ops
<1> HIDE DEF b
<1>4. m \in Rots
    BY <1>0, <1>3 DEF Rots
<1>5. m.saw = Len(vault) /\ Moved(c, m, "mint") /\ m.key = c.key /\ m.todo = c.todo
    BY <1>3, <1>4 DEF Rots, Moved
<1> HIDE DEF m
<1>6. Retried(c, NextAttempt(c, ans))
    BY <1>0, NextAttemptRecord
<1>7. /\ Over(c, Ended(c, "err"), "err")
      /\ Ended(c, "err").named = c.named /\ Ended(c, "err").vague = c.vague
    BY <1>0, EndedRecord
<1>8. \/ rot' = [rot EXCEPT ![r] = NextAttempt(c, ans)]
      \/ rot' = [rot EXCEPT ![r] = m] /\ ~current_owner_if_other(vault, c.app)
      \/ rot' = [rot EXCEPT ![r] = Ended(c, "err")]
    <2>1. CASE Again(c, ans)
        BY <1>1, <2>1, RepeatsAre
    <2>2. CASE ~Again(c, ans) /\ ans = "ok" /\ ~current_owner_if_other(vault, c.app)
        BY <1>1, <2>2
    <2>3. CASE ~Again(c, ans) /\ ~(ans = "ok" /\ ~current_owner_if_other(vault, c.app))
        BY <1>1, <2>3
    <2> QED
        BY <2>1, <2>2, <2>3
<1>9. \A d \in Rots : rot' = [rot EXCEPT ![r] = d] =>
         rot'[r] = d /\ Others(r) /\ rot' \in [Rotations -> Rots]
    BY <1>0 DEF Others
<1>10. NextAttempt(c, ans) \in Rots /\ Ended(c, "err") \in Rots
    BY <1>6, <1>7 DEF Retried, Over
<1> QED
    BY <1>2, <1>4, <1>5, <1>6, <1>7, <1>8, <1>9, <1>10

\* What a step leaves in rot.
LEMMA Updated ==
    ASSUME Types, NEW r \in Rotations, NEW d \in Rots, rot' = [rot EXCEPT ![r] = d]
    PROVE  rot'[r] = d /\ Others(r) /\ rot' \in [Rotations -> Rots]
BY DEF Types, Others

\* Rotation r has minted its secret, or not.
Added(r) == /\ creds' = creds \cup {Own(r)} /\ minted' = [minted EXCEPT ![r] = 1]
            /\ UNCHANGED <<vault, clock>>

MintRequest(r) == [op |-> "mint", r |-> r, key |-> None]

\* How a mint's attempt may end: it is repeated, nothing having landed; the secret
\* is on the app and known; nobody knows; or it is not there.
MintResult(r) ==
    /\ rot[r].op = "mint" /\ Others(r) /\ rot' \in [Rotations -> Rots]
    /\ UNCHANGED <<vault, clock, cached, drifted>>
    /\ \/ /\ Retried(rot[r], rot'[r])
          /\ UNCHANGED <<service, adrift>>
       \/ /\ \E op \in {"store", "undo"} : Moved(rot[r], rot'[r], op)
          /\ rot'[r].key = Own(r)
          /\ rot'[r].todo = rot[r].todo /\ rot'[r].saw = rot[r].saw
          /\ Added(r) /\ UNCHANGED adrift
       \/ /\ Over(rot[r], rot'[r], "err") /\ rot'[r].named = rot[r].named
          /\ rot'[r].vague
          /\ \/ Added(r) /\ UNCHANGED adrift
             \/ UNCHANGED service /\ adrift' \in {adrift, adrift \cup {MintRequest(r)}}
       \/ /\ Over(rot[r], rot'[r], "err") /\ rot'[r].named = rot[r].named
          /\ rot'[r].vague = rot[r].vague
          /\ UNCHANGED <<service, adrift>>

LEMMA MintDoes ==
    ASSUME Types, NEW r \in Rotations, StageInv(r), Mint(r)
    PROVE  MintResult(r)
<1>0. rot \in [Rotations -> Rots] /\ rot[r] \in Rots
    BY DEF Types
<1> DEFINE c == rot[r]
<1>1. \E ans \in Answers("mint") : \E land \in Landings(ans) :
         /\ Attempt(r, None, ans, land)
         /\ rot' = [rot EXCEPT ![r] =
                CASE Again(c, ans) -> NextAttempt(c, ans)
                  [] ans = "ok" -> [To(c, "store") EXCEPT !.key = Key(r, minted'[r])]
                  [] ans = "blank" -> [To(c, "undo") EXCEPT !.key = Key(r, minted'[r])]
                  [] OTHER -> [Ended(c, "err")
                                  EXCEPT !.vague = ans \in {"garbled", "lost", "server"}]]
    BY DEF Mint
<1> SUFFICES ASSUME NEW ans \in Answers("mint"), NEW land \in Landings(ans),
                    Attempt(r, None, ans, land),
                    rot' = [rot EXCEPT ![r] =
                      CASE Again(c, ans) -> NextAttempt(c, ans)
                        [] ans = "ok" -> [To(c, "store") EXCEPT !.key = Key(r, minted'[r])]
                        [] ans = "blank" -> [To(c, "undo") EXCEPT !.key = Key(r, minted'[r])]
                        [] OTHER -> [Ended(c, "err")
                                        EXCEPT !.vague = ans \in {"garbled", "lost", "server"}]]
             PROVE  MintResult(r)
    BY <1>1
<1>2. rot[r].op = "mint" /\ UNCHANGED <<cached, drifted>> /\ minted[r] = 0
    BY DEF Mint, StageInv
<1>3. Took(r, None, land)
    BY AttemptTook
<1>4. /\ land = "now" => Added(r) /\ UNCHANGED adrift
      /\ land = "no" => UNCHANGED <<service, adrift>>
      /\ land = "late" => UNCHANGED service /\ adrift' = adrift \cup {MintRequest(r)}
    BY <1>2, <1>3 DEF Took, AddPassword, Added, Own, MintRequest
<1>5. UNCHANGED <<vault, clock>> /\ land \in {"no", "now", "late"}
    BY <1>4, LandingsAre DEF Added, service
<1>6. CASE Again(c, ans)
    <2>1. rot' = [rot EXCEPT ![r] = NextAttempt(c, ans)]
        BY <1>6, RepeatsAre
    <2>2. Retried(c, NextAttempt(c, ans))
        BY <1>0, NextAttemptRecord
    <2>3. land = "no"
        BY <1>2, <1>6, RepeatsAre, LandingsAre
    <2>4. NextAttempt(c, ans) \in Rots
        BY <2>2 DEF Retried
    <2> QED
        BY <1>2, <1>4, <1>5, <2>1, <2>2, <2>3, <2>4, Updated DEF MintResult
<1>7. CASE ~Again(c, ans) /\ ans \in {"ok", "blank"}
    <2> DEFINE op == IF ans = "ok" THEN "store" ELSE "undo"
               b == To(c, op)
               d == [b EXCEPT !.key = Own(r)]
    <2>1. land = "now"
        BY <1>7, LandingsAre
    <2>2. Key(r, minted'[r]) = Own(r)
        BY <1>4, <2>1 DEF Added, Own, Types
    <2>3. rot' = [rot EXCEPT ![r] = d]
        BY <1>7, <2>2
    <2>4. op \in {"store", "undo"}
        OBVIOUS
    <2> HIDE DEF op
    <2>5. /\ b \in Rots /\ Moved(c, b, op) /\ b.todo = c.todo /\ b.saw = c.saw
        BY <1>0, <2>4, ToRecord DEF Moved, Ops
    <2> HIDE DEF b
    <2>6. d \in Rots
        BY <2>5, OwnFacts DEF Rots
    <2>7. Moved(c, d, op) /\ d.key = Own(r) /\ d.todo = c.todo /\ d.saw = c.saw
        BY <2>5, <2>6 DEF Rots, Moved
    <2> HIDE DEF d
    <2> QED
        BY <1>2, <1>4, <1>5, <2>1, <2>3, <2>4, <2>6, <2>7, Updated DEF MintResult
<1>8. CASE ~Again(c, ans) /\ ans \notin {"ok", "blank"}
    <2> DEFINE b == Ended(c, "err")
               v == ans \in {"garbled", "lost", "server"}
               d == [b EXCEPT !.vague = v]
    <2>1. rot' = [rot EXCEPT ![r] = d]
        BY <1>8
    <2>2. b \in Rots /\ Over(c, b, "err") /\ b.named = c.named
        BY <1>0, EndedRecord DEF Over
    <2>3. v \in BOOLEAN
        OBVIOUS
    <2>4. ~v => land = "no"
        BY <1>8, LandingsAre DEF Answers, OverGraph
    <2>5. c.vague = FALSE
        BY <1>0, <1>2 DEF StageInv, Rots
    <2> HIDE DEF b, v
    <2>6. d \in Rots
        BY <2>2, <2>3 DEF Rots
    <2>7. Over(c, d, "err") /\ d.named = c.named /\ d.vague = v
        BY <2>2, <2>6 DEF Rots, Over
    <2> HIDE DEF d
    <2>8. rot'[r] = d /\ Others(r) /\ rot' \in [Rotations -> Rots]
        BY <2>1, <2>6, Updated
    <2>9. CASE v
        <3>1. d.vague
            BY <2>7, <2>9
        <3> QED
            BY <1>2, <1>4, <1>5, <2>7, <2>8, <3>1 DEF MintResult
    <2>10. CASE ~v
        <3>1. d.vague = c.vague
            BY <2>3, <2>5, <2>7, <2>10
        <3> QED
            BY <1>2, <1>4, <1>5, <2>4, <2>7, <2>8, <2>10, <3>1 DEF MintResult
    <2> QED
        BY <2>9, <2>10
<1> QED
    BY <1>6, <1>7, <1>8

StoreRequest(r) == [op |-> "store", r |-> r, key |-> Own(r)]

\* How a store's attempt may end: whatever became of it, it is repeated or the
\* versions are read back; the new version is there; or nothing was ever sent.
StoreResult(r) ==
    LET c == rot[r]
        d == rot'[r] IN
    /\ c.op = "store" /\ Others(r) /\ rot' \in [Rotations -> Rots]
    /\ UNCHANGED <<cached, drifted>>
    /\ \/ SetSecret(r, Own(r), FALSE) /\ UNCHANGED adrift
       \/ UNCHANGED service /\ adrift' \in {adrift, adrift \cup {StoreRequest(r)}}
    /\ \/ Retried(c, d) /\ d.attempt # 0
       \/ /\ \E op \in {"remove", "undo", "readback"} :
                /\ Moved(c, d, op)
                /\ op = "remove" => SetSecret(r, Own(r), FALSE)
                /\ op = "undo" => c.attempt = 0 /\ UNCHANGED <<service, adrift>>
          /\ d.key = c.key /\ d.saw = c.saw /\ d.todo = c.listed \ {Own(r)}

LEMMA StoreDoes ==
    ASSUME Types, NEW r \in Rotations, StageInv(r), Store(r)
    PROVE  StoreResult(r)
<1>0. rot \in [Rotations -> Rots] /\ rot[r] \in Rots
    BY DEF Types
<1> DEFINE c == rot[r]
<1>1. c.op = "store" /\ c.key = Own(r) /\ UNCHANGED <<cached, drifted>>
    BY DEF Store, StageInv, Holding
<1>2. \E ans \in Answers("store") : \E land \in Landings(ans) :
         /\ Attempt(r, Own(r), ans, land)
         /\ rot' = [rot EXCEPT ![r] =
                IF Again(c, ans) THEN NextAttempt(c, ans)
                ELSE [To(c, AfterStore(ans)) EXCEPT !.todo = c.listed \ {Own(r)}]]
    BY <1>1 DEF Store
<1> SUFFICES ASSUME NEW ans \in Answers("store"), NEW land \in Landings(ans),
                    Attempt(r, Own(r), ans, land),
                    rot' = [rot EXCEPT ![r] =
                      IF Again(c, ans) THEN NextAttempt(c, ans)
                      ELSE [To(c, AfterStore(ans)) EXCEPT !.todo = c.listed \ {Own(r)}]]
             PROVE  StoreResult(r)
    BY <1>2
<1>3. Took(r, Own(r), land)
    BY AttemptTook
<1>4. /\ land = "now" => SetSecret(r, Own(r), FALSE) /\ UNCHANGED adrift
      /\ land = "no" => UNCHANGED <<service, adrift>>
      /\ land = "late" => UNCHANGED service /\ adrift' = adrift \cup {StoreRequest(r)}
    BY <1>1, <1>3 DEF Took, StoreRequest
<1>5. land \in {"no", "now", "late"}
    BY LandingsAre
<1>6. CASE Again(c, ans)
    <2>1. rot' = [rot EXCEPT ![r] = NextAttempt(c, ans)]
        BY <1>6
    <2>2. ans # "claims"
        BY DEF Answers, OverGraph
    <2>3. Retried(c, NextAttempt(c, ans)) /\ NextAttempt(c, ans).attempt = c.attempt + 1
        BY <1>0, <2>2, NextAttemptRecord
    <2>4. NextAttempt(c, ans) \in Rots /\ c.attempt + 1 # 0
        BY <1>0, <2>3 DEF Retried, Rots
    <2> QED
        BY <1>1, <1>4, <1>5, <2>1, <2>3, <2>4, Updated DEF StoreResult
<1>7. CASE ~Again(c, ans)
    <2> DEFINE op == AfterStore(ans)
               b == To(c, op)
               d == [b EXCEPT !.todo = c.listed \ {Own(r)}]
    <2>1. rot' = [rot EXCEPT ![r] = d]
        BY <1>7
    <2>2. /\ op \in {"remove", "undo", "readback"}
          /\ op = "remove" => ans = "ok"
          /\ op = "undo" => ans = "token"
        BY DEF AfterStore, sent_nothing
    <2>3. /\ ans = "ok" => land = "now"
          /\ ans = "token" => land = "no"
        BY LandingsAre
    <2>4. ans = "token" => c.attempt = 0
        BY DEF Attempt, Possible
    <2>5. c.listed \ {Own(r)} \in SUBSET Secrets
        BY <1>0 DEF Rots
    <2> HIDE DEF op
    <2>6. b \in Rots /\ Moved(c, b, op) /\ b.key = c.key /\ b.saw = c.saw
        BY <1>0, <2>2, ToRecord DEF Moved, Ops
    <2> HIDE DEF b
    <2>7. d \in Rots
        BY <2>5, <2>6 DEF Rots
    <2>8. Moved(c, d, op) /\ d.key = c.key /\ d.saw = c.saw /\ d.todo = c.listed \ {Own(r)}
        BY <2>6, <2>7 DEF Rots, Moved
    <2> HIDE DEF d
    <2>9. rot'[r] = d /\ Others(r) /\ rot' \in [Rotations -> Rots]
        BY <2>1, <2>7, Updated
    <2> QED
        BY <1>1, <1>4, <1>5, <2>2, <2>3, <2>4, <2>8, <2>9 DEF StoreResult
<1> QED
    BY <1>6, <1>7

\* How the read-back may end.
ReadBackResult(r) ==
    LET c == rot[r]
        d == rot'[r] IN
    /\ c.op = "readback" /\ Others(r) /\ rot' \in [Rotations -> Rots]
    /\ UNCHANGED <<service, adrift, drifted>>
    /\ \/ Retried(c, d) /\ UNCHANGED cached
       \/ /\ \E op \in {"remove", "undo"} :
                /\ Moved(c, d, op)
                /\ op = "remove" => Holds(Own(r))
                /\ op = "undo" => ~Holds(Own(r))
          /\ d.key = c.key /\ d.saw = c.saw /\ d.todo = c.todo
          /\ UNCHANGED cached
       \/ /\ Over(c, d, "err") /\ d.named = {Own(r)} /\ d.vague = c.vague
          /\ Bust(c.app)

LEMMA ReadBackDoes ==
    ASSUME Types, NEW r \in Rotations, StageInv(r), ReadBack(r)
    PROVE  ReadBackResult(r)
<1>0. rot \in [Rotations -> Rots] /\ rot[r] \in Rots
    BY DEF Types
<1> DEFINE c == rot[r]
<1>1. /\ c.op = "readback" /\ c.key = Own(r) /\ c.named = {}
      /\ UNCHANGED <<service, adrift, drifted>>
    BY DEF ReadBack, StageInv, Holding
<1>2. PICK ans \in Answers("readback") :
         Conclude(r, IF Again(c, ans) THEN NextAttempt(c, ans)
                     ELSE IF ans # "ok" THEN LeftOnApp(c)
                     ELSE To(c, IF vault_holds_key(vault, c.key) THEN "remove" ELSE "undo"))
    BY DEF ReadBack
<1>3. \A d \in Rots : Conclude(r, d) =>
         /\ rot'[r] = d /\ Others(r) /\ rot' \in [Rotations -> Rots]
         /\ d.named # {} => Bust(d.app)
         /\ d.named = {} => UNCHANGED cached
    BY Updated DEF Conclude, HearsOf
<1>4. Retried(c, NextAttempt(c, ans)) /\ NextAttempt(c, ans) \in Rots
    BY <1>0, NextAttemptRecord DEF Retried
<1>5. /\ Over(c, LeftOnApp(c), "err") /\ LeftOnApp(c) \in Rots
      /\ LeftOnApp(c).named = {Own(r)} /\ LeftOnApp(c).vague = c.vague
    BY <1>0, <1>1, LeftOnAppRecord, OwnFacts DEF Over
<1>6. \A op \in {"remove", "undo"} :
         /\ Moved(c, To(c, op), op) /\ To(c, op) \in Rots
         /\ To(c, op).key = c.key /\ To(c, op).todo = c.todo /\ To(c, op).saw = c.saw
    BY <1>0, ToRecord DEF Moved, Ops
<1>7. \/ Conclude(r, NextAttempt(c, ans))
      \/ Conclude(r, LeftOnApp(c))
      \/ Conclude(r, To(c, "remove")) /\ Holds(Own(r))
      \/ Conclude(r, To(c, "undo")) /\ ~Holds(Own(r))
    BY <1>1, <1>2 DEF Holds
<1>8. CASE Conclude(r, NextAttempt(c, ans))
    BY <1>1, <1>3, <1>4, <1>8 DEF ReadBackResult, Retried
<1>9. CASE Conclude(r, LeftOnApp(c))
    BY <1>1, <1>3, <1>5, <1>9 DEF ReadBackResult, Over
<1>10. CASE Conclude(r, To(c, "remove")) /\ Holds(Own(r))
    BY <1>1, <1>3, <1>6, <1>10 DEF ReadBackResult, Moved
<1>11. CASE Conclude(r, To(c, "undo")) /\ ~Holds(Own(r))
    BY <1>1, <1>3, <1>6, <1>11 DEF ReadBackResult, Moved
<1> QED
    BY <1>7, <1>8, <1>9, <1>10, <1>11

UndoRequest(r) == [op |-> "undo", r |-> r, key |-> Own(r)]

\* How the rollback may end.
UndoResult(r) ==
    LET c == rot[r]
        d == rot'[r] IN
    /\ c.op = "undo" /\ Others(r) /\ rot' \in [Rotations -> Rots]
    /\ UNCHANGED drifted
    /\ \/ Retried(c, d) /\ UNCHANGED <<service, adrift, cached>>
       \/ /\ Over(c, d, "err") /\ d.named = {} /\ d.vague = c.vague
          /\ RemovePassword(Own(r)) /\ UNCHANGED <<adrift, cached>>
       \/ /\ Over(c, d, "err") /\ d.named = {Own(r)} /\ d.vague = c.vague
          /\ Bust(c.app)
          /\ \/ RemovePassword(Own(r)) /\ UNCHANGED adrift
             \/ UNCHANGED service /\ adrift' \in {adrift, adrift \cup {UndoRequest(r)}}

LEMMA UndoDoes ==
    ASSUME Types, NEW r \in Rotations, StageInv(r), Undo(r)
    PROVE  UndoResult(r)
<1>0. rot \in [Rotations -> Rots] /\ rot[r] \in Rots
    BY DEF Types
<1> DEFINE c == rot[r]
<1>1. c.op = "undo" /\ c.key = Own(r) /\ c.named = {} /\ UNCHANGED drifted
    BY DEF Undo, StageInv, Holding
<1>2. \E ans \in Answers("undo") : \E land \in Landings(ans) :
         /\ Attempt(r, Own(r), ans, land)
         /\ Conclude(r, CASE Again(c, ans) -> NextAttempt(c, ans)
                          [] ans = "ok" -> Ended(c, "err")
                          [] OTHER -> LeftOnApp(c))
    BY <1>1 DEF Undo
<1> SUFFICES ASSUME NEW ans \in Answers("undo"), NEW land \in Landings(ans),
                    Attempt(r, Own(r), ans, land),
                    Conclude(r, CASE Again(c, ans) -> NextAttempt(c, ans)
                                  [] ans = "ok" -> Ended(c, "err")
                                  [] OTHER -> LeftOnApp(c))
             PROVE  UndoResult(r)
    BY <1>2
<1>3. Took(r, Own(r), land)
    BY AttemptTook
<1>4. /\ land = "now" => RemovePassword(Own(r)) /\ UNCHANGED adrift
      /\ land = "no" => UNCHANGED <<service, adrift>>
      /\ land = "late" => UNCHANGED service /\ adrift' = adrift \cup {UndoRequest(r)}
    BY <1>1, <1>3 DEF Took, UndoRequest
<1>5. land \in {"no", "now", "late"}
    BY LandingsAre
<1>6. \A d \in Rots : Conclude(r, d) =>
         /\ rot'[r] = d /\ Others(r) /\ rot' \in [Rotations -> Rots]
         /\ d.named # {} => Bust(d.app)
         /\ d.named = {} => UNCHANGED cached
    BY Updated DEF Conclude, HearsOf
<1>7. CASE Again(c, ans)
    <2>1. Conclude(r, NextAttempt(c, ans))
        BY <1>7, RepeatsAre
    <2>2. Retried(c, NextAttempt(c, ans)) /\ NextAttempt(c, ans) \in Rots
        BY <1>0, NextAttemptRecord DEF Retried
    <2>3. land = "no"
        BY <1>1, <1>7, RepeatsAre, LandingsAre
    <2> QED
        BY <1>1, <1>4, <1>6, <2>1, <2>2, <2>3 DEF UndoResult, Retried
<1>8. CASE ~Again(c, ans) /\ ans = "ok"
    <2>1. Conclude(r, Ended(c, "err"))
        BY <1>8
    <2>2. /\ Over(c, Ended(c, "err"), "err") /\ Ended(c, "err") \in Rots
          /\ Ended(c, "err").named = {} /\ Ended(c, "err").vague = c.vague
        BY <1>0, <1>1, EndedRecord DEF Over
    <2>3. land = "now"
        BY <1>8, LandingsAre
    <2> QED
        BY <1>1, <1>4, <1>6, <2>1, <2>2, <2>3 DEF UndoResult
<1>9. CASE ~Again(c, ans) /\ ans # "ok"
    <2>1. Conclude(r, LeftOnApp(c))
        BY <1>9
    <2>2. /\ Over(c, LeftOnApp(c), "err") /\ LeftOnApp(c) \in Rots
          /\ LeftOnApp(c).named = {Own(r)} /\ LeftOnApp(c).vague = c.vague
        BY <1>0, <1>1, LeftOnAppRecord, OwnFacts DEF Over
    <2>3. LeftOnApp(c).app = c.app
        BY <2>2 DEF Over
    <2>4. rot'[r] = LeftOnApp(c) /\ Others(r) /\ rot' \in [Rotations -> Rots] /\ Bust(c.app)
        BY <1>6, <2>1, <2>2, <2>3
    <2> QED
        BY <1>1, <1>4, <1>5, <2>2, <2>4 DEF UndoResult
<1> QED
    BY <1>7, <1>8, <1>9

RemoveRequest(r, k) == [op |-> "remove", r |-> r, key |-> k]

\* How the removal of a listed secret may end.
RemoveResult(r, k) ==
    LET c == rot[r]
        d == rot'[r] IN
    /\ c.op = "remove" /\ k \in c.todo /\ Others(r) /\ rot' \in [Rotations -> Rots]
    /\ UNCHANGED <<cached, drifted>>
    /\ \/ Retried(c, d) /\ UNCHANGED <<service, adrift>>
       \/ /\ d \in Rots
          /\ d.op = "remove" /\ d.app = c.app /\ d.listed = c.listed /\ d.named = c.named
          /\ d.result = c.result /\ d.vague = c.vague /\ d.key = c.key /\ d.saw = c.saw
          /\ d.todo = c.todo \ {k}
          /\ \/ RemovePassword(k) /\ UNCHANGED adrift /\ d.removed = c.removed \cup {k}
             \/ RemovePassword(k) /\ UNCHANGED adrift /\ d.removed = c.removed
             \/ /\ UNCHANGED service /\ d.removed = c.removed
                /\ adrift' \in {adrift, adrift \cup {RemoveRequest(r, k)}}

LEMMA RemoveListedDoes ==
    ASSUME Types, NEW r \in Rotations, RemoveListed(r)
    PROVE  \E k \in rot[r].todo : RemoveResult(r, k)
<1>0. rot \in [Rotations -> Rots] /\ rot[r] \in Rots
    BY DEF Types
<1> DEFINE c == rot[r]
<1>1. c.op = "remove" /\ UNCHANGED <<cached, drifted>>
    BY DEF RemoveListed
<1>2. \E k \in c.todo, ans \in Answers("remove") : \E land \in Landings(ans) :
         /\ Attempt(r, k, ans, land)
         /\ rot' = [rot EXCEPT ![r] =
                IF Again(c, ans) THEN [NextAttempt(c, ans) EXCEPT !.target = k]
                ELSE [To(c, "remove") EXCEPT
                            !.target = None, !.todo = c.todo \ {k},
                            !.removed = c.removed \cup {j \in {k} : ans = "ok"}]]
    BY DEF RemoveListed
<1> SUFFICES ASSUME NEW k \in c.todo, NEW ans \in Answers("remove"),
                    NEW land \in Landings(ans), Attempt(r, k, ans, land),
                    rot' = [rot EXCEPT ![r] =
                      IF Again(c, ans) THEN [NextAttempt(c, ans) EXCEPT !.target = k]
                      ELSE [To(c, "remove") EXCEPT
                            !.target = None, !.todo = c.todo \ {k},
                            !.removed = c.removed \cup {j \in {k} : ans = "ok"}]]
             PROVE  RemoveResult(r, k)
    BY <1>2
<1>3. Took(r, k, land)
    BY AttemptTook
<1>4. /\ land = "now" => RemovePassword(k) /\ UNCHANGED adrift
      /\ land = "no" => UNCHANGED <<service, adrift>>
      /\ land = "late" => UNCHANGED service /\ adrift' = adrift \cup {RemoveRequest(r, k)}
    BY <1>1, <1>3 DEF Took, RemoveRequest
<1>5. land \in {"no", "now", "late"} /\ (ans = "ok" => land = "now")
    BY LandingsAre
<1>6. k \in Secrets
    BY <1>0 DEF Rots
<1>7. CASE Again(c, ans)
    <2> DEFINE b == NextAttempt(c, ans)
               d == [b EXCEPT !.target = k]
    <2>1. rot' = [rot EXCEPT ![r] = d]
        BY <1>7
    <2>2. b \in Rots /\ Retried(c, b)
        BY <1>0, NextAttemptRecord DEF Retried
    <2>3. land = "no"
        BY <1>1, <1>7, RepeatsAre, LandingsAre
    <2> HIDE DEF b
    <2>4. d \in Rots
        BY <1>6, <2>2 DEF Rots
    <2>5. Retried(c, d)
        BY <2>2, <2>4 DEF Rots, Retried
    <2> HIDE DEF d
    <2> QED
        BY <1>1, <1>4, <2>1, <2>3, <2>4, <2>5, Updated DEF RemoveResult
<1>8. CASE ~Again(c, ans)
    <2> DEFINE b == To(c, "remove")
               R == c.removed \cup {j \in {k} : ans = "ok"}
               d == [b EXCEPT !.target = None, !.todo = c.todo \ {k}, !.removed = R]
    <2>1. rot' = [rot EXCEPT ![r] = d]
        BY <1>8
    <2>2. b \in Rots /\ Moved(c, b, "remove") /\ b.key = c.key /\ b.todo = c.todo /\ b.saw = c.saw
        BY <1>0, ToRecord DEF Moved, Ops
    <2> HIDE DEF b
    <2>3. R \in SUBSET Secrets /\ c.todo \ {k} \in SUBSET Secrets
        BY <1>0, <1>6 DEF Rots
    <2> HIDE DEF R
    <2>4. d \in Rots
        BY <2>2, <2>3 DEF Rots
    <2>5. /\ d.op = b.op /\ d.app = b.app /\ d.listed = b.listed /\ d.named = b.named
          /\ d.result = b.result /\ d.vague = b.vague /\ d.key = b.key /\ d.saw = b.saw
          /\ d.todo = c.todo \ {k} /\ d.removed = R
        BY <2>2 DEF Rots
    <2> HIDE DEF d
    <2>6. /\ d.op = "remove" /\ d.app = c.app /\ d.listed = c.listed /\ d.named = c.named
          /\ d.result = c.result /\ d.vague = c.vague /\ d.key = c.key /\ d.saw = c.saw
          /\ d.todo = c.todo \ {k}
          /\ d.removed = IF ans = "ok" THEN c.removed \cup {k} ELSE c.removed
        BY <2>2, <2>5 DEF Moved, R
    <2>7. rot'[r] = d /\ Others(r) /\ rot' \in [Rotations -> Rots]
        BY <2>1, <2>4, Updated
    <2> QED
        BY <1>1, <1>4, <1>5, <2>4, <2>6, <2>7 DEF RemoveResult
<1> QED
    BY <1>7, <1>8

FinishResult(r) ==
    LET c == rot[r]
        d == rot'[r] IN
    /\ c.op = "remove" /\ Others(r) /\ rot' \in [Rotations -> Rots]
    /\ UNCHANGED <<service, adrift, drifted>> /\ Bust(c.app)
    /\ Over(c, d, "ok") /\ d.named = c.named /\ d.vague = c.vague

LEMMA FinishDoes ==
    ASSUME Types, NEW r \in Rotations, Finish(r)
    PROVE  FinishResult(r)
<1>1. rot[r] \in Rots
    BY DEF Types
<1>2. /\ Over(rot[r], Ended(rot[r], "ok"), "ok") /\ Ended(rot[r], "ok") \in Rots
      /\ Ended(rot[r], "ok").named = rot[r].named /\ Ended(rot[r], "ok").vague = rot[r].vague
    BY <1>1, EndedRecord DEF Over
<1>3. rot' = [rot EXCEPT ![r] = Ended(rot[r], "ok")]
    BY DEF Finish
<1>4. rot'[r] = Ended(rot[r], "ok") /\ Others(r) /\ rot' \in [Rotations -> Rots]
    BY <1>2, <1>3, Updated
<1> QED
    BY <1>2, <1>4 DEF Finish, FinishResult

LandResult(q) ==
    /\ adrift' = adrift \ {q}
    /\ drifted' = drifted \cup (creds' \ creds) \cup (creds \ creds')
    /\ UNCHANGED <<cached, rot>>
    /\ q.op = "mint" => Added(q.r)
    /\ q.op = "store" => SetSecret(q.r, Own(q.r), TRUE)
    /\ q.op \in {"undo", "remove"} => RemovePassword(q.key)

LEMMA LandDoes ==
    ASSUME Types, NEW q \in adrift, AdriftInv(q), Land(q)
    PROVE  LandResult(q)
<1>1. /\ q.op = "mint" => AddPassword(q.r)
      /\ q.op = "store" => SetSecret(q.r, q.key, TRUE)
      /\ q.op \in {"undo", "remove"} => RemovePassword(q.key)
    BY PerformIs DEF Land
<1>2. q.op = "mint" => Added(q.r)
    BY <1>1 DEF AdriftInv, AddPassword, Added, Own
<1> QED
    BY <1>1, <1>2 DEF Land, LandResult, AdriftInv

-----------------------------------------------------------------------------
(* What no step takes back.                                                *)

\* A new version is appended, and dated after all others.
SetDone(r, late) ==
    LET n == Len(vault) IN
    /\ vault' \in Seq(Versions) /\ n \in Nat /\ Len(vault') = n + 1
    /\ \A i \in 1..n : vault'[i] = vault[i]
    /\ vault'[n + 1].key = Own(r) /\ vault'[n + 1].at = clock'
    /\ vault'[n + 1].late = late
    /\ clock' \in Nat /\ clock <= clock'
    /\ \A k : Holds(k)' <=> Holds(k) \/ k = Own(r)
    /\ UNCHANGED <<creds, minted>>

LEMMA SetSecretDoes ==
    ASSUME Types, NEW r \in Rotations, NEW late \in BOOLEAN, rot[r].app \in Apps,
           SetSecret(r, Own(r), late)
    PROVE  SetDone(r, late)
<1> DEFINE n == Len(vault)
           v == [key |-> Own(r), owner |-> rot[r].app, at |-> clock', late |-> late]
<1>1. /\ clock' \in {clock, clock + 1} \ {Undated} /\ vault' = Append(vault, v)
      /\ UNCHANGED <<creds, minted>>
    BY DEF SetSecret
<1>2. clock' \in Nat /\ clock <= clock' /\ vault \in Seq(Versions) /\ n \in Nat
    BY <1>1 DEF Types
<1>3. v \in Versions
    BY <1>2, OwnFacts DEF Versions
<1>4. v.key = Own(r) /\ v.at = clock' /\ v.late = late
    OBVIOUS
<1> HIDE DEF v
<1>5. /\ vault' \in Seq(Versions) /\ Len(vault') = n + 1
      /\ \A i \in 1..n : vault'[i] = vault[i]
      /\ vault'[n + 1] = v
    BY <1>1, <1>2, <1>3
<1>6. DOMAIN vault = 1..n /\ DOMAIN vault' = 1..(n + 1)
    BY <1>2, <1>5
<1>7. ASSUME NEW k PROVE Holds(k)' <=> Holds(k) \/ k = Own(r)
    <2>1. Holds(k) <=> \E i \in 1..n : vault[i].key = k
        BY <1>6 DEF Holds, vault_holds_key, ToSet
    <2>2. Holds(k)' <=> \E i \in 1..(n + 1) : vault'[i].key = k
        BY <1>6 DEF Holds, vault_holds_key, ToSet
    <2>3. 1..(n + 1) = 1..n \cup {n + 1}
        BY <1>2
    <2> QED
        BY <1>4, <1>5, <2>1, <2>2, <2>3
<1> QED
    BY <1>1, <1>2, <1>4, <1>5, <1>7 DEF SetDone

\* What no step takes back: a rotation's app, list and mint, and a version.
Onward ==
    /\ \A s \in Rotations :
          /\ rot[s].listed \subseteq rot'[s].listed
          /\ minted[s] = 1 => minted'[s] = 1
          /\ rot[s].op # "idle" => rot'[s].op # "idle" /\ rot'[s].app = rot[s].app
    /\ \A k : Holds(k) => Holds(k)'

\* A secret that was on an app was, and was on that app, for good.
LEMMA OnwardKeeps ==
    ASSUME RotationInv, Onward
    PROVE  /\ \A k : RemovedByAnother(k) => RemovedByAnother(k)'
           /\ \A k : Known(k) => Known(k)' /\ AppOf(k)' = AppOf(k)
<1>1. ASSUME NEW k, RemovedByAnother(k) PROVE RemovedByAnother(k)'
    BY <1>1 DEF Onward, RemovedByAnother
<1>2. ASSUME NEW k, Known(k) PROVE Known(k)' /\ AppOf(k)' = AppOf(k)
    <2>1. CASE k.by \in Apps
        BY <2>1 DEF Known, AppOf
    <2>2. CASE k.by \notin Apps
        <3>1. k.by \in Rotations /\ k.n = 1 /\ minted[k.by] = 1
            BY <1>2, <2>2 DEF Known
        <3>2. rot[k.by].op # "idle"
            BY <3>1 DEF RotationInv, StageInv
        <3> QED
            BY <2>2, <3>1, <3>2 DEF Known, AppOf, Onward
    <2> QED
        BY <2>1, <2>2
<1> QED
    BY <1>1, <1>2

LEMMA StageKept ==
    ASSUME NEW s \in Rotations, StageInv(s), rot'[s] = rot[s], minted'[s] = minted[s],
           Holds(Own(s))' <=> Holds(Own(s)),
           Len(vault) \in Nat, Len(vault') \in Nat, Len(vault) <= Len(vault'),
           rot[s].saw \in Nat
    PROVE  StageInv(s)'
BY DEF StageInv

LEMMA AdriftKept ==
    ASSUME NEW q \in adrift, AdriftInv(q), rot'[q.r] = rot[q.r], minted'[q.r] = minted[q.r],
           Holds(Own(q.r)) => Holds(Own(q.r))'
    PROVE  AdriftInv(q)'
BY DEF AdriftInv

\* The versions stay; a secret that is taken off was in none, in late ones only,
\* or on another rotation's list.
LEMMA VaultKept ==
    ASSUME RotationInv, Onward, UNCHANGED <<vault, clock>>,
           \A r \in Rotations : Own(r) \in creds =>
              \/ Own(r) \in creds'
              \/ RemovedByAnother(Own(r))'
              \/ \A i \in DOMAIN vault : vault[i].key = Own(r) => vault[i].late,
           \A r \in Rotations : Undoing(r)' => Undoing(r) \/ ~Holds(Own(r))
    PROVE  VaultInv'
<1>1. \A i \in DOMAIN vault : \A r \in Rotations : vault[i].key = Own(r) => Holds(Own(r))
    BY DEF Holds, vault_holds_key, ToSet
<1>2. \A i \in DOMAIN vault : \A r \in Rotations : vault[i].key = Own(r) =>
         /\ minted'[r] = 1
         /\ Own(r) \in creds' \/ vault[i].late \/ RemovedByAnother(Own(r))'
         /\ Undoing(r)' => vault[i].late
    <2> SUFFICES ASSUME NEW i \in DOMAIN vault, NEW r \in Rotations, vault[i].key = Own(r)
                 PROVE  /\ minted'[r] = 1
                        /\ Own(r) \in creds' \/ vault[i].late \/ RemovedByAnother(Own(r))'
                        /\ Undoing(r)' => vault[i].late
        OBVIOUS
    <2>1. /\ minted[r] = 1
          /\ Own(r) \in creds \/ vault[i].late \/ RemovedByAnother(Own(r))
          /\ Undoing(r) => vault[i].late
        BY DEF RotationInv, VaultInv
    <2> QED
        BY <1>1, <2>1, OnwardKeeps DEF Onward
<1>3. \A i \in DOMAIN vault : Minted(vault[i])' <=> Minted(vault[i])
    BY DEF Minted
<1>4. \A i \in DOMAIN vault :
          /\ vault[i].at <= clock
          /\ \A j \in 1..i : vault[i].at = Undated \/ vault[j].at <= vault[i].at
          /\ \/ Minted(vault[i])
             \/ /\ vault[i].key \in {Key(a, 0) : a \in Apps} \cup {None}
                /\ \A j \in 1..i : ~Minted(vault[j])
    BY DEF RotationInv, VaultInv
<1> QED
    BY <1>2, <1>4 DEF VaultInv, Minted

\* A version is added, by a rotation that is not about to undo it, or too late.
LEMMA VaultGrows ==
    ASSUME RotationInv, Onward, NEW r \in Rotations, NEW late \in BOOLEAN, SetDone(r, late),
           minted[r] = 1,
           late \/ Own(r) \in creds \/ RemovedByAnother(Own(r)),
           Undoing(r)' => late,
           \A s \in Rotations : Undoing(s)' => Undoing(s) \/ ~Holds(Own(s))
    PROVE  VaultInv'
<1> DEFINE n == Len(vault)
<1>0. vault \in Seq(Versions) /\ clock \in Nat /\ n \in Nat
    BY DEF RotationInv, Types
<1>1. /\ DOMAIN vault = 1..n /\ DOMAIN vault' = 1..(n + 1)
      /\ \A i \in 1..n : vault'[i] = vault[i] /\ vault[i].at \in Nat /\ vault[i].at <= clock
    <2>1. DOMAIN vault = 1..n /\ DOMAIN vault' = 1..(n + 1)
        BY <1>0 DEF SetDone
    <2>2. \A i \in 1..n : vault[i] \in Versions
        BY <1>0
    <2>3. \A i \in 1..n : vault[i].at <= clock
        BY <2>1 DEF RotationInv, VaultInv
    <2> QED
        BY <2>1, <2>2, <2>3 DEF SetDone, Versions
<1>2. ASSUME NEW i \in 1..n
      PROVE  /\ vault'[i].at <= clock'
             /\ \A j \in 1..i : vault'[i].at = Undated \/ vault'[j].at <= vault'[i].at
             /\ \/ Minted(vault'[i])
                \/ /\ vault'[i].key \in {Key(a, 0) : a \in Apps} \cup {None}
                   /\ \A j \in 1..i : ~Minted(vault'[j])
    <2>1. \A j \in 1..i : j \in 1..n
        BY <1>0
    <2>2. /\ \A j \in 1..i : vault[i].at = Undated \/ vault[j].at <= vault[i].at
          /\ \/ Minted(vault[i])
             \/ /\ vault[i].key \in {Key(a, 0) : a \in Apps} \cup {None}
                /\ \A j \in 1..i : ~Minted(vault[j])
        BY <1>1 DEF RotationInv, VaultInv
    <2>3. vault'[i].at <= clock'
        BY <1>0, <1>1 DEF SetDone
    <2> QED
        BY <1>1, <2>1, <2>2, <2>3
<1>3. /\ vault'[n + 1].at <= clock'
      /\ \A j \in 1..(n + 1) : vault'[j].at <= vault'[n + 1].at
      /\ Minted(vault'[n + 1])
    <2>1. Minted(vault'[n + 1])
        BY DEF SetDone, Minted
    <2>2. \A j \in 1..(n + 1) : j \in 1..n \/ j = n + 1
        BY <1>0
    <2> QED
        BY <1>0, <1>1, <2>1, <2>2 DEF SetDone
<1>4. \A i \in 1..(n + 1) : i \in 1..n \/ i = n + 1
    BY <1>0
<1>5. ASSUME NEW i \in 1..(n + 1), NEW s \in Rotations, vault'[i].key = Own(s)
      PROVE  /\ minted'[s] = 1
             /\ Own(s) \in creds' \/ vault'[i].late \/ RemovedByAnother(Own(s))'
             /\ Undoing(s)' => vault'[i].late
    <2>1. CASE i \in 1..n
        <3>1. /\ minted[s] = 1
              /\ Own(s) \in creds \/ vault[i].late \/ RemovedByAnother(Own(s))
              /\ Undoing(s) => vault[i].late
              /\ Holds(Own(s))
            BY <1>1, <1>5, <2>1
            DEF RotationInv, VaultInv, Holds, vault_holds_key, ToSet
        <3> QED
            BY <1>1, <2>1, <3>1, OnwardKeeps DEF SetDone
    <2>2. CASE i = n + 1
        <3>1. s = r /\ vault'[i].late = late
            BY <1>5, <2>2, OwnFacts DEF SetDone
        <3> QED
            BY <3>1, OnwardKeeps DEF SetDone
    <2> QED
        BY <1>4, <2>1, <2>2
<1>6. \A i \in DOMAIN vault' :
          /\ vault'[i].at <= clock'
          /\ \A j \in 1..i : vault'[i].at = Undated \/ vault'[j].at <= vault'[i].at
          /\ \/ Minted(vault'[i])
             \/ /\ vault'[i].key \in {Key(a, 0) : a \in Apps} \cup {None}
                /\ \A j \in 1..i : ~Minted(vault'[j])
    BY <1>1, <1>2, <1>3, <1>4
<1>7. \A i \in DOMAIN vault' : \A s \in Rotations : vault'[i].key = Own(s) =>
          /\ minted'[s] = 1
          /\ Own(s) \in creds' \/ vault'[i].late \/ RemovedByAnother(Own(s))'
          /\ Undoing(s)' => vault'[i].late
    BY <1>1, <1>5
<1> QED
    BY <1>6, <1>7 DEF VaultInv, Minted

\* What is known of the secrets of one rotation.
CredsOf(r) ==
    /\ \A k \in rot[r].listed : Known(k) /\ AppOf(k) = rot[r].app
    /\ rot[r].removed \cap creds = {}
    /\ rot[r].op \in {"store", "readback", "remove"} \/ rot[r].result = "ok" =>
          Own(r) \in creds \/ RemovedByAnother(Own(r))
    /\ rot[r].result = "err" =>
          rot[r].vague \/ (Own(r) \in creds => Own(r) \in rot[r].named)

\* A rotation that rests, while others put new secrets on the apps and take old
\* ones off.
LEMMA CredsOfKept ==
    ASSUME RotationInv, Onward, NEW s \in Rotations, rot'[s] = rot[s],
           \A k \in creds' \ creds : ~Known(k),
           Own(s) \in creds => Own(s) \in creds' \/ RemovedByAnother(Own(s))',
           Own(s) \in creds' => Own(s) \in creds \/ rot[s].vague
    PROVE  CredsOf(s)'
<1>1. CredsOf(s) /\ rot[s].removed \subseteq rot[s].listed
    BY DEF RotationInv, CredsInv, CredsOf, StageInv
<1>2. \A k \in rot[s].listed : Known(k)' /\ AppOf(k)' = rot[s].app
    BY <1>1, OnwardKeeps DEF CredsOf
<1>3. rot[s].removed \cap creds' = {}
    BY <1>1 DEF CredsOf
<1>4. RemovedByAnother(Own(s)) => RemovedByAnother(Own(s))'
    BY OnwardKeeps
<1> QED
    BY <1>1, <1>2, <1>3, <1>4 DEF CredsOf

LEMMA CredsKept ==
    ASSUME RotationInv, Onward, \A r \in Rotations : CredsOf(r)',
           \A k \in creds' \ creds : Known(k)',
           \A a \in Apps : Key(a, 0) \in creds =>
              Key(a, 0) \in creds' \/ \E r \in Rotations : Holds(Own(r))
    PROVE  CredsInv'
<1>1. \A k \in creds' : Known(k)'
    BY OnwardKeeps DEF RotationInv, CredsInv
<1>2. (\E i \in DOMAIN vault : Minted(vault[i])) <=> \E r \in Rotations : Holds(Own(r))
    BY DEF Minted, Holds, vault_holds_key, ToSet
<1>3. (\E i \in DOMAIN vault' : Minted(vault'[i])) <=> \E r \in Rotations : Holds(Own(r))'
    BY DEF Minted, Holds, vault_holds_key, ToSet
<1>4. ASSUME NEW a \in Apps
      PROVE  Key(a, 0) \in creds' \/ \E i \in DOMAIN vault' : Minted(vault'[i])
    <2>1. Key(a, 0) \in creds \/ \E r \in Rotations : Holds(Own(r))
        BY <1>2 DEF RotationInv, CredsInv
    <2> QED
        BY <1>3, <2>1 DEF Onward
<1> QED
    BY <1>1, <1>4 DEF CredsInv, CredsOf, Minted

Past == {"mint", "store", "readback", "undo", "remove"}

\* The newest claim rotation r saw was its own app's.
ClaimOf(r) ==
    rot[r].op \in Past =>
        LET claims == {i \in 1..rot[r].saw : claims_an_owner(vault[i])} IN
        \A i \in claims : (\A j \in claims : j <= i) => vault[i].owner = rot[r].app

LEMMA ClaimKept ==
    ASSUME Types, NEW r \in Rotations, ClaimOf(r), rot[r].saw <= Len(vault),
           rot'[r].op \in Past => /\ rot[r].op \in Past
                                  /\ rot'[r].saw = rot[r].saw /\ rot'[r].app = rot[r].app,
           \A i \in 1..Len(vault) : vault'[i] = vault[i]
    PROVE  ClaimOf(r)'
<1>1. rot[r].saw \in Nat /\ Len(vault) \in Nat
    BY DEF Types, Rots
<1>2. \A i \in 1..rot[r].saw : vault'[i] = vault[i]
    BY <1>1
<1> QED
    BY <1>2 DEF ClaimOf, claims_an_owner

LEMMA CacheKept ==
    ASSUME RotationInv, Onward, cached' = cached,
           \A k : /\ Excused(k) /\ Known(k)
                  /\ cached # None => AppOf(k) = cached.app
                  => Excused(k)',
           \A k \in (creds \ creds') \cup (creds' \ creds) :
              cached # None /\ AppOf(k)' = cached.app => Excused(k)'
    PROVE  CacheInv'
<1> SUFFICES ASSUME cached # None
             PROVE  /\ \A k \in cached.keys : Known(k)' /\ AppOf(k)' = cached.app
                    /\ \A k \in (cached.keys \ OnApp(cached.app)')
                                \cup (OnApp(cached.app)' \ cached.keys) : Excused(k)'
    BY DEF CacheInv, OnApp
<1>1. /\ \A k \in cached.keys : Known(k) /\ AppOf(k) = cached.app
      /\ \A k \in (cached.keys \ OnApp(cached.app)) \cup (OnApp(cached.app) \ cached.keys) :
            Excused(k)
      /\ \A k \in creds : Known(k)
    BY DEF RotationInv, CacheInv, CredsInv
<1>2. \A k : Known(k) => Known(k)' /\ AppOf(k)' = AppOf(k)
    BY OnwardKeeps
<1>3. ASSUME NEW k \in cached.keys, k \notin OnApp(cached.app)' PROVE Excused(k)'
    <2>1. k \notin creds'
        BY <1>1, <1>2, <1>3 DEF OnApp
    <2>2. CASE k \in creds
        BY <1>1, <1>2, <2>1, <2>2
    <2>3. CASE k \notin creds
        BY <1>1, <1>3, <2>3 DEF OnApp
    <2> QED
        BY <2>2, <2>3
<1>4. ASSUME NEW k \in OnApp(cached.app)', k \notin cached.keys PROVE Excused(k)'
    <2>1. k \in creds' /\ AppOf(k)' = cached.app
        BY <1>4 DEF OnApp
    <2>2. CASE k \in creds
        BY <1>1, <1>2, <1>4, <2>1, <2>2 DEF OnApp
    <2>3. CASE k \notin creds
        BY <2>1, <2>3
    <2> QED
        BY <2>2, <2>3
<1> QED
    BY <1>1, <1>2, <1>3, <1>4

LEMMA CacheEmptied == ASSUME cached' = None PROVE CacheInv'
BY DEF CacheInv

\* The parts of the invariant, put together again.
LEMMA Together ==
    ASSUME Types', \A r \in Rotations : StageInv(r)', \A q \in adrift' : AdriftInv(q)',
           VaultInv', CredsInv', \A r \in Rotations : ClaimOf(r)', CacheInv'
    PROVE  RotationInv'
BY DEF RotationInv, ClaimIsRespected, ClaimOf, Past

LEMMA Apart ==
    ASSUME RotationInv
    PROVE  \A r \in Rotations : StageInv(r) /\ CredsOf(r) /\ ClaimOf(r)
BY DEF RotationInv, CredsInv, CredsOf, ClaimIsRespected, ClaimOf, Past

\* Rotation r goes on in the sense that what it excused it still excuses.
GoesOn(r) ==
    /\ rot[r].vague => rot'[r].vague
    /\ RolledBack(r) => RolledBack(r)'
    /\ rot[r].op \in Holding => rot'[r].op \in Holding \/ RolledBack(r)'
    /\ rot[r].op = "remove" => rot'[r].op = "remove" /\ rot'[r].listed = rot[r].listed

LEMMA ExcusedKept ==
    ASSUME NEW r \in Rotations, Others(r), drifted \subseteq drifted', GoesOn(r)
    PROVE  \A k : Excused(k) => Excused(k)'
<1> SUFFICES ASSUME NEW k, Excused(k) PROVE Excused(k)'
    OBVIOUS
<1>1. \A s \in Rotations \ {r} : rot'[s] = rot[s]
    BY DEF Others
<1>2. ASSUME NEW s \in Rotations
      PROVE  (rot[s].vague \/ RolledBack(s) \/ rot[s].op \in Holding) =>
                (rot'[s].vague \/ RolledBack(s)' \/ rot'[s].op \in Holding)
    BY <1>1 DEF GoesOn, RolledBack
<1>3. ASSUME NEW s \in Rotations, rot[s].op = "remove", k \in rot[s].listed
      PROVE  rot'[s].op = "remove" /\ k \in rot'[s].listed
    BY <1>1, <1>3 DEF GoesOn
<1> QED
    BY <1>2, <1>3 DEF Excused

\* A rotation that ends busts what is cached of its app; other apps' entries owe
\* it nothing.
LEMMA CacheBusted ==
    ASSUME RotationInv, Onward, NEW r \in Rotations, Others(r), drifted \subseteq drifted',
           rot[r].op \in Holding, Bust(rot[r].app),
           \A k \in (creds \ creds') \cup (creds' \ creds) : k = Own(r)
    PROVE  CacheInv' /\ (cached' = None \/ cached' \in Entries)
<1>1. /\ cached = None \/ cached \in Entries
      /\ rot[r].op # "idle" /\ minted[r] = 1 /\ ~rot[r].vague /\ rot[r].result = "none"
    BY Apart DEF RotationInv, Types, StageInv, Holding
<1>2. CASE cached' = None
    BY <1>2, CacheEmptied
<1>3. CASE cached' # None
    <2>1. cached' = cached /\ cached # None /\ cached.app # rot[r].app
        BY <1>3 DEF Bust
    <2>2. \A k : Known(k) /\ k.by = r => AppOf(k) = rot[r].app
        BY OwnFacts DEF AppOf
    <2>3. \A k \in rot[r].listed : AppOf(k) = rot[r].app
        BY Apart DEF CredsOf
    <2>4. AppOf(Own(r))' = rot[r].app
        BY <1>1, OwnFacts DEF AppOf, Onward
    <2>5. ASSUME NEW k, Excused(k), Known(k), AppOf(k) = cached.app PROVE Excused(k)'
        <3>1. k.by # r /\ k \notin rot[r].listed
            BY <2>1, <2>2, <2>3, <2>5
        <3>2. \A s \in Rotations \ {r} : rot'[s] = rot[s]
            BY DEF Others
        <3>3. ASSUME k.by \in Rotations PROVE rot'[k.by] = rot[k.by]
            BY <3>1, <3>2, <3>3
        <3>4. ASSUME NEW s \in Rotations, rot[s].op = "remove", k \in rot[s].listed
              PROVE  rot'[s].op = "remove" /\ k \in rot'[s].listed
            BY <3>1, <3>2, <3>4
        <3> QED
            BY <2>5, <3>3, <3>4 DEF Excused, RolledBack
    <2>6. CacheInv'
        BY <2>1, <2>4, <2>5, CacheKept
    <2> QED
        BY <1>1, <2>1, <2>6
<1> QED
    BY <1>2, <1>3


-----------------------------------------------------------------------------
(* The invariant is kept by each action.                                   *)

\* A step that writes nothing and puts one rotation from one place to another.
Silent(r) ==
    /\ Others(r) /\ rot' \in [Rotations -> Rots]
    /\ UNCHANGED <<service, adrift, drifted>>

\* Such a step takes nothing back, as long as the rotation does not either.
LEMMA SilentFacts ==
    ASSUME RotationInv, NEW r \in Rotations, Silent(r),
           rot[r].op # "idle" => /\ rot'[r].op # "idle" /\ rot'[r].app = rot[r].app
                                 /\ rot'[r].listed = rot[r].listed
    PROVE  /\ Onward
           /\ UNCHANGED <<creds, vault, clock, minted>>
           /\ \A k : Holds(k)' <=> Holds(k)
           /\ \A s \in Rotations \ {r} : StageInv(s)' /\ CredsOf(s)' /\ ClaimOf(s)'
           /\ \A q \in adrift : q.r # r => AdriftInv(q)'
<1>0. Types /\ Len(vault) \in Nat /\ \A s \in Rotations : rot[s].saw \in Nat
    BY DEF RotationInv, Types, Rots
<1>1. UNCHANGED <<creds, vault, clock, minted>> /\ \A s \in Rotations \ {r} : rot'[s] = rot[s]
    BY DEF Silent, Others, service
<1>2. \A k : Holds(k)' <=> Holds(k)
    BY <1>1 DEF Holds
<1>3. Onward
    <2>1. rot[r].listed \subseteq rot'[r].listed
        BY Apart DEF StageInv
    <2> QED
        BY <1>1, <1>2, <2>1 DEF Onward
<1>4. ASSUME NEW s \in Rotations \ {r} PROVE StageInv(s)' /\ CredsOf(s)' /\ ClaimOf(s)'
    <2>1. StageInv(s)'
        BY <1>0, <1>1, <1>2, Apart, StageKept
    <2>2. CredsOf(s)'
        BY <1>1, <1>3, CredsOfKept
    <2>3. rot[s].saw <= Len(vault) /\ ClaimOf(s)
        BY Apart DEF StageInv
    <2>4. ClaimOf(s)'
        BY <1>0, <1>1, <2>3, ClaimKept
    <2> QED
        BY <2>1, <2>2, <2>4
<1>5. ASSUME NEW q \in adrift, q.r # r PROVE AdriftInv(q)'
    <2>1. q.r \in Rotations /\ AdriftInv(q)
        BY DEF RotationInv, Types, Requests
    <2> QED
        BY <1>1, <1>2, <1>5, <2>1, AdriftKept
<1> QED
    BY <1>1, <1>2, <1>3, <1>4, <1>5

\* The parts that say nothing of the one rotation follow.
LEMMA SilentKeeps ==
    ASSUME RotationInv, NEW r \in Rotations, Silent(r),
           rot[r].op # "idle" => /\ rot'[r].op # "idle" /\ rot'[r].app = rot[r].app
                                 /\ rot'[r].listed = rot[r].listed,
           cached' = None \/ cached' \in Entries,
           StageInv(r)', CredsOf(r)', ClaimOf(r)', CacheInv',
           \A q \in adrift : q.r = r => AdriftInv(q)',
           rot'[r].op = "undo" => rot[r].op = "undo" \/ ~Holds(Own(r))
    PROVE  RotationInv'
<1>1. /\ Onward /\ UNCHANGED <<creds, vault, clock, minted, adrift>>
      /\ \A s \in Rotations \ {r} : StageInv(s)' /\ CredsOf(s)' /\ ClaimOf(s)'
      /\ \A q \in adrift : q.r # r => AdriftInv(q)'
    BY SilentFacts DEF Silent
<1>2. Types'
    BY <1>1 DEF Types, RotationInv, Silent
<1>3. \A s \in Rotations : Undoing(s)' => Undoing(s) \/ ~Holds(Own(s))
    BY <1>1 DEF Undoing, Silent, Others
<1>4. VaultInv'
    BY <1>1, <1>3, VaultKept
<1>5. CredsInv'
    BY <1>1, CredsKept
<1> QED
    BY <1>1, <1>2, <1>4, <1>5, Together

LEMMA RetryKeeps ==
    ASSUME RotationInv, NEW r \in Rotations, Silent(r), Retried(rot[r], rot'[r]),
           rot[r].op = "store" => rot'[r].attempt # 0, UNCHANGED cached
    PROVE  RotationInv'
<1>0. /\ rot[r].op # "idle" => /\ rot'[r].op # "idle" /\ rot'[r].app = rot[r].app
                               /\ rot'[r].listed = rot[r].listed
      /\ cached' = None \/ cached' \in Entries
    BY DEF Retried, RotationInv, Types
<1>1. /\ Onward /\ UNCHANGED <<creds, vault, clock, minted>>
      /\ \A k : Holds(k)' <=> Holds(k)
    BY <1>0, SilentFacts
<1>2. StageInv(r)'
    BY <1>1, Apart DEF StageInv, Retried
<1>3. \A k : RemovedByAnother(k) => RemovedByAnother(k)'
    BY <1>1, OnwardKeeps
<1>4. \A k : Known(k) => Known(k)' /\ AppOf(k)' = AppOf(k)
    BY <1>1, OnwardKeeps
<1>5. CredsOf(r)'
    BY <1>1, <1>3, <1>4, Apart DEF CredsOf, Retried
<1>6. ClaimOf(r)'
    BY <1>1, Apart DEF ClaimOf, Retried, claims_an_owner
<1>7. \A q \in adrift : q.r = r => AdriftInv(q)'
    BY <1>1 DEF RotationInv, AdriftInv, Retried
<1>8. \A k : Excused(k) => Excused(k)'
    <2> SUFFICES ASSUME NEW k, Excused(k) PROVE Excused(k)'
        OBVIOUS
    <2>1. \A s \in Rotations : /\ rot'[s].vague = rot[s].vague /\ rot'[s].op = rot[s].op
                               /\ rot'[s].result = rot[s].result /\ rot'[s].key = rot[s].key
                               /\ rot'[s].named = rot[s].named
                               /\ rot'[s].listed = rot[s].listed
        BY DEF Silent, Others, Retried
    <2> QED
        BY <2>1 DEF Excused, RolledBack, Silent
<1>9. CacheInv'
    BY <1>1, <1>8, CacheKept
<1> QED
    BY <1>0, <1>2, <1>5, <1>6, <1>7, <1>9, SilentKeeps DEF Retried

LEMMA BeginKeeps ==
    ASSUME RotationInv, NEW r \in Rotations, NEW a \in Apps, Begin(r, a)
    PROVE  RotationInv'
<1> DEFINE c == rot[r]
           d == rot'[r]
<1>0. /\ c.op = "idle" /\ Silent(r) /\ UNCHANGED cached /\ StageInv(r)
      /\ cached' = None \/ cached' \in Entries
    BY Apart, BeginDoes DEF RotationInv, Silent, Types
<1>1. PICK ids \in {{}, {Key(a, 0)}, OnApp(a)} :
         /\ d.op = "owner" /\ d.app = a /\ d.listed = ids
         /\ d.key = c.key /\ d.todo = c.todo /\ d.removed = c.removed /\ d.named = c.named
         /\ d.result = c.result /\ d.saw = c.saw /\ d.vague = c.vague
    BY Apart, BeginDoes DEF RotationInv
<1>2. /\ Onward /\ UNCHANGED <<creds, vault, clock, minted>>
      /\ \A k : Holds(k)' <=> Holds(k)
    BY <1>0, SilentFacts
<1>3. StageInv(r)'
    BY <1>0, <1>1, <1>2 DEF StageInv, Holding
<1>4. \A k \in ids : Known(k)' /\ AppOf(k)' = a
    <2>1. \A k \in ids : Known(k) /\ AppOf(k) = a
        BY OwnFacts DEF OnApp, Known, AppOf, RotationInv, CredsInv
    <2> QED
        BY <1>2, <2>1, OnwardKeeps
<1>5. CredsOf(r)'
    BY <1>0, <1>1, <1>2, <1>4, Apart DEF CredsOf, StageInv
<1>6. ClaimOf(r)'
    BY <1>1 DEF ClaimOf, Past
<1>7. \A q \in adrift : q.r = r => AdriftInv(q)'
    <2>1. \A q \in adrift : q.r # r
        BY <1>0 DEF RotationInv, Types, Requests, AdriftInv, Holding
    <2> QED
        BY <2>1
<1>8. CacheInv'
    <2>1. ASSUME NEW k, Excused(k) PROVE Excused(k)'
        <3>1. \A s \in Rotations \ {r} : rot'[s] = rot[s]
            BY <1>0 DEF Silent, Others
        <3>2. ~c.vague /\ c.result = "none" /\ c.op \notin Holding
            BY <1>0 DEF StageInv, Holding
        <3> QED
            BY <1>0, <1>1, <2>1, <3>1, <3>2 DEF Excused, RolledBack, Silent
    <2> QED
        BY <1>0, <1>2, <2>1, CacheKept
<1> QED
    BY <1>0, <1>1, <1>3, <1>5, <1>6, <1>7, <1>8, SilentKeeps

LEMMA CheckOwnerKeeps ==
    ASSUME RotationInv, NEW r \in Rotations, CheckOwner(r)
    PROVE  RotationInv'
<1> DEFINE c == rot[r]
           d == rot'[r]
<1>0. /\ c.op = "owner" /\ Silent(r) /\ UNCHANGED cached /\ StageInv(r) /\ Types
      /\ cached' = None \/ cached' \in Entries
    BY Apart, CheckOwnerDoes DEF RotationInv, Silent, Types
<1>1. \/ Retried(c, d)
      \/ /\ Moved(c, d, "mint") /\ d.key = c.key /\ d.todo = c.todo
         /\ d.saw = Len(vault) /\ ~current_owner_if_other(vault, c.app)
      \/ Over(c, d, "err") /\ d.named = c.named /\ d.vague = c.vague
    BY <1>0, CheckOwnerDoes
<1>2. CASE Retried(c, d)
    BY <1>0, <1>2, RetryKeeps
<1>3. CASE ~Retried(c, d)
    <2>1. /\ d.op \in {"mint", "ended"} /\ d.app = c.app /\ d.listed = c.listed
          /\ d.key = c.key /\ d.todo = c.todo /\ d.removed = c.removed
          /\ d.named = c.named /\ d.vague = c.vague
          /\ d.op = "ended" => d.result = "err" /\ d.saw = 0
          /\ d.op = "mint" => /\ d.result = c.result /\ d.saw = Len(vault)
                              /\ ~current_owner_if_other(vault, c.app)
        BY <1>1, <1>3 DEF Moved, Over
    <2>2. /\ Onward /\ UNCHANGED <<creds, vault, clock, minted>>
          /\ \A k : Holds(k)' <=> Holds(k)
        BY <1>0, <2>1, SilentFacts
    <2>3. Len(vault) \in Nat /\ DOMAIN vault = 1..Len(vault)
        BY <1>0 DEF Types
    <2>4. StageInv(r)'
        BY <1>0, <2>1, <2>2, <2>3 DEF StageInv, Holding
    <2>5. \A k : RemovedByAnother(k) => RemovedByAnother(k)'
        BY <2>2, OnwardKeeps
    <2>6. \A k : Known(k) => Known(k)' /\ AppOf(k)' = AppOf(k)
        BY <2>2, OnwardKeeps
    <2>7. CredsOf(r)'
        <3>1. Own(r) \notin creds
            BY <1>0, OwnFacts DEF StageInv, RotationInv, CredsInv, Known
        <3> QED
            BY <1>0, <2>1, <2>2, <2>6, <3>1, Apart DEF CredsOf, StageInv
    <2>8. ClaimOf(r)'
        <3> SUFFICES ASSUME d.op = "mint", NEW i \in 1..Len(vault), claims_an_owner(vault[i]),
                            \A j \in 1..Len(vault) : claims_an_owner(vault[j]) => j <= i
                     PROVE  vault[i].owner = c.app
            BY <2>1, <2>2 DEF ClaimOf, Past, claims_an_owner
        <3>1. vault[i] \in Weighed(vault)
            <4>1. vault[i] \in ToSet(vault)
                BY <2>3 DEF ToSet
            <4>2. ASSUME NEW w \in ToSet(vault), claims_an_owner(w)
                  PROVE  vault[i].at = Undated \/ w.at <= vault[i].at
                <5>1. PICK j \in 1..Len(vault) : w = vault[j]
                    BY <2>3, <4>2 DEF ToSet
                <5>2. j \in 1..i
                    BY <2>3, <4>2, <5>1
                <5> QED
                    BY <2>3, <5>1, <5>2 DEF RotationInv, VaultInv
            <4> QED
                BY <4>1, <4>2 DEF Weighed
        <3> QED
            BY <2>1, <3>1 DEF current_owner_if_other
    <2>9. \A q \in adrift : q.r # r
        BY <1>0 DEF RotationInv, Types, Requests, AdriftInv, Holding, StageInv
    <2>10. CacheInv'
        <3>1. GoesOn(r)
            BY <1>0, <2>1 DEF GoesOn, RolledBack, Holding, StageInv
        <3>2. \A k : Excused(k) => Excused(k)'
            BY <1>0, <3>1, ExcusedKept DEF Silent
        <3> QED
            BY <1>0, <2>2, <3>2, CacheKept
    <2> QED
        BY <1>0, <2>1, <2>4, <2>7, <2>8, <2>9, <2>10, SilentKeeps
<1> QED
    BY <1>2, <1>3

LEMMA ReadBackKeeps ==
    ASSUME RotationInv, NEW r \in Rotations, ReadBack(r)
    PROVE  RotationInv'
<1> DEFINE c == rot[r]
           d == rot'[r]
<1>0. Types /\ StageInv(r) /\ ReadBackResult(r)
    BY Apart, ReadBackDoes DEF RotationInv
<1>1. c.op = "readback" /\ Silent(r) /\ (cached = None \/ cached \in Entries)
    BY <1>0 DEF ReadBackResult, Silent, Types
<1>2. CASE Retried(c, d) /\ UNCHANGED cached
    BY <1>1, <1>2, RetryKeeps
<1>3. CASE ~(Retried(c, d) /\ UNCHANGED cached)
    <2>1. /\ d.op \in {"remove", "undo", "ended"} /\ d.app = c.app /\ d.listed = c.listed
          /\ d.key = c.key /\ d.todo = c.todo /\ d.removed = c.removed
          /\ d.vague = c.vague
          /\ d.op = "ended" => /\ d.result = "err" /\ d.saw = 0 /\ d.named = {Own(r)}
                               /\ Bust(c.app)
          /\ d.op # "ended" => /\ d.result = c.result /\ d.saw = c.saw
                               /\ d.named = c.named /\ UNCHANGED cached
          /\ d.op = "remove" => Holds(Own(r))
          /\ d.op = "undo" => ~Holds(Own(r))
        BY <1>0, <1>3 DEF ReadBackResult, Moved, Over
    <2>2. /\ Onward /\ UNCHANGED <<creds, vault, clock, minted>>
          /\ \A k : Holds(k)' <=> Holds(k)
        BY <1>1, <2>1, SilentFacts
    <2>3. StageInv(r)'
        <3>1. Len(vault) \in Nat
            BY <1>0 DEF Types
        <3> QED
            BY <1>0, <1>1, <2>1, <2>2, <3>1 DEF StageInv, Holding
    <2>4. \A k : RemovedByAnother(k) => RemovedByAnother(k)'
        BY <2>2, OnwardKeeps
    <2>5. \A k : Known(k) => Known(k)' /\ AppOf(k)' = AppOf(k)
        BY <2>2, OnwardKeeps
    <2>6. CredsOf(r)'
        BY <1>0, <1>1, <2>1, <2>2, <2>4, <2>5, Apart DEF CredsOf, StageInv
    <2>7. ClaimOf(r)'
        BY <1>1, <2>1, <2>2, Apart DEF ClaimOf, Past, claims_an_owner
    <2>8. \A q \in adrift : q.r = r => AdriftInv(q)'
        BY <1>0, <1>1, <2>1, <2>2 DEF RotationInv, AdriftInv, Holding, StageInv
    <2>9. CacheInv' /\ (cached' = None \/ cached' \in Entries)
        <3>1. CASE d.op = "ended"
            BY <1>1, <2>1, <2>2, <3>1, CacheBusted DEF Silent, Holding
        <3>2. CASE d.op # "ended"
            <4>1. GoesOn(r)
                BY <1>0, <1>1, <2>1, <3>2 DEF GoesOn, RolledBack, Holding, StageInv
            <4>2. \A k : Excused(k) => Excused(k)'
                BY <1>1, <4>1, ExcusedKept DEF Silent
            <4> QED
                BY <1>1, <2>1, <2>2, <3>2, <4>2, CacheKept
        <3> QED
            BY <3>1, <3>2
    <2> QED
        BY <1>1, <2>1, <2>3, <2>6, <2>7, <2>8, <2>9, SilentKeeps
<1> QED
    BY <1>2, <1>3

LEMMA FinishKeeps ==
    ASSUME RotationInv, NEW r \in Rotations, Finish(r)
    PROVE  RotationInv'
<1> DEFINE c == rot[r]
           d == rot'[r]
<1>0. Types /\ StageInv(r) /\ FinishResult(r)
    BY Apart, FinishDoes DEF RotationInv
<1>1. c.op = "remove" /\ Silent(r) /\ Bust(c.app)
    BY <1>0 DEF FinishResult, Silent
<1>2. /\ d.op = "ended" /\ d.result = "ok" /\ d.saw = 0 /\ d.app = c.app
      /\ d.listed = c.listed /\ d.key = c.key /\ d.todo = c.todo /\ d.removed = c.removed
      /\ d.named = c.named /\ d.vague = c.vague
    BY <1>0 DEF FinishResult, Over
<1>3. /\ Onward /\ UNCHANGED <<creds, vault, clock, minted>>
      /\ \A k : Holds(k)' <=> Holds(k)
    BY <1>1, <1>2, SilentFacts
<1>4. StageInv(r)'
    <2>1. Len(vault) \in Nat
        BY <1>0 DEF Types
    <2> QED
        BY <1>0, <1>1, <1>2, <1>3, <2>1 DEF StageInv, Holding
<1>5. \A k : RemovedByAnother(k) => RemovedByAnother(k)'
    BY <1>3, OnwardKeeps
<1>6. \A k : Known(k) => Known(k)' /\ AppOf(k)' = AppOf(k)
    BY <1>3, OnwardKeeps
<1>7. CredsOf(r)'
    BY <1>0, <1>1, <1>2, <1>3, <1>5, <1>6, Apart DEF CredsOf
<1>8. ClaimOf(r)'
    BY <1>2 DEF ClaimOf, Past
<1>9. \A q \in adrift : q.r = r => AdriftInv(q)'
    BY <1>0, <1>1, <1>2, <1>3 DEF RotationInv, AdriftInv, Holding, StageInv
<1>10. CacheInv' /\ (cached' = None \/ cached' \in Entries)
    BY <1>1, <1>3, CacheBusted DEF Silent, Holding
<1> QED
    BY <1>1, <1>2, <1>4, <1>7, <1>8, <1>9, <1>10, SilentKeeps

\* What a step of rotation r leaves of the others: it may add a version or a
\* secret that was never known, and take off a secret of another rotation only if
\* it was told to.
LEMMA OthersKept ==
    ASSUME RotationInv, Onward, NEW r \in Rotations, Others(r),
           \A s \in Rotations \ {r} : /\ minted'[s] = minted[s]
                                      /\ Holds(Own(s))' <=> Holds(Own(s))
                                      /\ Own(s) \in creds' => Own(s) \in creds
                                      /\ Own(s) \in creds =>
                                            Own(s) \in creds' \/ RemovedByAnother(Own(s))',
           \A k \in creds' \ creds : ~Known(k),
           Len(vault') \in Nat, Len(vault) <= Len(vault'),
           \A i \in 1..Len(vault) : vault'[i] = vault[i]
    PROVE  /\ \A s \in Rotations \ {r} : StageInv(s)' /\ CredsOf(s)' /\ ClaimOf(s)'
           /\ \A q \in adrift : q.r # r => AdriftInv(q)'
<1>0. Types /\ Len(vault) \in Nat /\ \A s \in Rotations : rot[s].saw \in Nat
    BY DEF RotationInv, Types, Rots
<1>1. \A s \in Rotations \ {r} : rot'[s] = rot[s]
    BY DEF Others
<1>2. ASSUME NEW s \in Rotations \ {r} PROVE StageInv(s)' /\ CredsOf(s)' /\ ClaimOf(s)'
    <2>1. StageInv(s)'
        BY <1>0, <1>1, Apart, StageKept
    <2>2. CredsOf(s)'
        BY <1>1, CredsOfKept
    <2>3. rot[s].saw <= Len(vault) /\ ClaimOf(s)
        BY Apart DEF StageInv
    <2>4. ClaimOf(s)'
        BY <1>0, <1>1, <2>3, ClaimKept
    <2> QED
        BY <2>1, <2>2, <2>4
<1>3. ASSUME NEW q \in adrift, q.r # r PROVE AdriftInv(q)'
    <2>1. q.r \in Rotations /\ AdriftInv(q)
        BY DEF RotationInv, Types, Requests
    <2> QED
        BY <1>1, <1>3, <2>1, AdriftKept
<1> QED
    BY <1>2, <1>3

LEMMA MintKeeps ==
    ASSUME RotationInv, NEW r \in Rotations, Mint(r)
    PROVE  RotationInv'
<1> DEFINE c == rot[r]
           d == rot'[r]
<1>0. Types /\ StageInv(r) /\ MintResult(r)
    BY Apart, MintDoes DEF RotationInv
<1>1. /\ c.op = "mint" /\ Others(r) /\ rot' \in [Rotations -> Rots]
      /\ UNCHANGED <<vault, clock, cached, drifted>>
    BY <1>0 DEF MintResult
<1>2. /\ minted[r] = 0 /\ c.key = None /\ c.removed = {} /\ ~Holds(Own(r)) /\ c.app \in Apps
      /\ c.named = {} /\ ~c.vague /\ c.result = "none" /\ c.todo \subseteq c.listed \ {Own(r)}
      /\ c.saw <= Len(vault)
    BY <1>0, <1>1 DEF StageInv
<1>3. CASE Retried(c, d) /\ UNCHANGED <<service, adrift>>
    BY <1>1, <1>3, RetryKeeps DEF Silent
<1>4. CASE ~(Retried(c, d) /\ UNCHANGED <<service, adrift>>)
    <2>1. /\ d.op \in {"store", "undo", "ended"} /\ d.app = c.app /\ d.listed = c.listed
          /\ d.todo = c.todo /\ d.removed = c.removed /\ d.named = c.named
          /\ d.op # "ended" => /\ d.key = Own(r) /\ d.saw = c.saw /\ d.result = c.result
                               /\ d.vague = c.vague
          /\ d.op = "ended" => d.key = c.key /\ d.saw = 0 /\ d.result = "err"
          /\ d.vague \in BOOLEAN
        BY <1>0, <1>4 DEF MintResult, Moved, Over, Rots
    <2>2. \/ Added(r) /\ (d.op # "ended" \/ d.vague) /\ adrift' = adrift
          \/ /\ UNCHANGED <<creds, minted>> /\ d.op = "ended"
             /\ \/ adrift' = adrift
                \/ d.vague /\ adrift' = adrift \cup {MintRequest(r)}
        BY <1>0, <1>4 DEF MintResult, Moved, Over, service
    <2>3. /\ creds \subseteq creds' /\ creds' \subseteq creds \cup {Own(r)}
          /\ minted' \in [Rotations -> Nat] /\ \A s \in Rotations \ {r} : minted'[s] = minted[s]
          /\ \/ Own(r) \in creds' /\ minted'[r] = 1 /\ (d.op # "ended" \/ d.vague)
                /\ adrift' = adrift
             \/ minted'[r] = 0 /\ creds' = creds /\ d.op = "ended"
        <3>1. minted \in [Rotations -> Nat]
            BY <1>0 DEF Types
        <3> QED
            BY <1>2, <2>2, <3>1 DEF Added
    <2>4. \A k : Holds(k)' <=> Holds(k)
        BY <1>1 DEF Holds
    <2>5. Onward
        BY <1>1, <1>2, <2>1, <2>3, <2>4 DEF Onward, Others
    <2>6. Own(r) \notin creds /\ ~Known(Own(r))
        BY <1>2, OwnFacts DEF RotationInv, CredsInv, Known
    <2>7. Len(vault) \in Nat /\ Len(vault') = Len(vault)
        BY <1>0, <1>1 DEF Types
    <2>8. /\ \A s \in Rotations \ {r} : StageInv(s)' /\ CredsOf(s)' /\ ClaimOf(s)'
          /\ \A q \in adrift : q.r # r => AdriftInv(q)'
        BY <1>1, <2>3, <2>4, <2>5, <2>6, <2>7, OthersKept, OwnFacts
    <2>9. StageInv(r)'
        BY <1>1, <1>2, <2>1, <2>3, <2>4, <2>7 DEF StageInv, Holding
    <2>10. \A k : Known(k) => Known(k)' /\ AppOf(k)' = AppOf(k)
        BY <2>5, OnwardKeeps
    <2>11. CredsOf(r)'
        BY <1>2, <2>1, <2>3, <2>6, <2>10, Apart DEF CredsOf
    <2>12. ClaimOf(r)'
        BY <1>1, <2>1, Apart DEF ClaimOf, Past, claims_an_owner
    <2>13. \A q \in adrift' : AdriftInv(q)'
        <3>1. \A q \in adrift : q.r # r
            BY <1>1, <1>2 DEF RotationInv, Types, Requests, AdriftInv, Holding
        <3>2. CASE adrift' = adrift
            BY <2>8, <3>1, <3>2
        <3>3. CASE adrift' # adrift
            <4>1. d.vague /\ d.op = "ended" /\ minted'[r] = 0
                  /\ adrift' = adrift \cup {MintRequest(r)}
                BY <1>2, <2>2, <3>3
            <4>2. AdriftInv(MintRequest(r))'
                BY <4>1 DEF AdriftInv, MintRequest
            <4> QED
                BY <2>8, <3>1, <4>1, <4>2
        <3> QED
            BY <3>2, <3>3
    <2>14. Types'
        <3>1. adrift' \subseteq Requests
            BY <1>0, <2>2 DEF Types, MintRequest, Requests
        <3>2. creds' \subseteq Secrets
            BY <1>0, <2>3, OwnFacts DEF Types
        <3> QED
            BY <1>0, <1>1, <2>3, <3>1, <3>2 DEF Types
    <2>15. VaultInv'
        <3>1. \A s \in Rotations : Undoing(s)' => Undoing(s) \/ ~Holds(Own(s))
            <4> SUFFICES ASSUME NEW s \in Rotations, s # r, Undoing(s)' PROVE Undoing(s)
                BY <1>2
            <4>1. rot'[s].op = rot[s].op
                BY <1>1 DEF Others
            <4>2. \A q \in adrift' : q.op = "undo" => q \in adrift
                BY <2>2 DEF MintRequest
            <4> QED
                BY <4>1, <4>2 DEF Undoing
        <3> QED
            BY <1>1, <2>3, <2>5, <3>1, VaultKept
    <2>16. CredsInv'
        <3>1. \A k \in creds' \ creds : Known(k)'
            BY <2>3, OwnFacts DEF Known
        <3> QED
            BY <2>3, <2>5, <2>8, <2>11, <3>1, CredsKept
    <2>17. CacheInv'
        <3>1. GoesOn(r)
            BY <1>1, <1>2 DEF GoesOn, RolledBack, Holding
        <3>2. \A k : Excused(k) => Excused(k)'
            BY <1>1, <3>1, ExcusedKept
        <3>3. \A k \in creds' \ creds : Excused(k)'
            BY <2>1, <2>3, OwnFacts DEF Excused, Holding
        <3> QED
            BY <1>1, <2>3, <2>5, <3>2, <3>3, CacheKept
    <2> QED
        BY <2>8, <2>9, <2>11, <2>12, <2>13, <2>14, <2>15, <2>16, <2>17, Together
<1> QED
    BY <1>3, <1>4

LEMMA StoreKeeps ==
    ASSUME RotationInv, NEW r \in Rotations, Store(r)
    PROVE  RotationInv'
<1> DEFINE c == rot[r]
           d == rot'[r]
<1>0. Types /\ StageInv(r) /\ StoreResult(r)
    BY Apart, StoreDoes DEF RotationInv
<1>1. /\ c.op = "store" /\ Others(r) /\ rot' \in [Rotations -> Rots]
      /\ UNCHANGED <<cached, drifted>>
    BY <1>0 DEF StoreResult
<1>2. /\ minted[r] = 1 /\ c.key = Own(r) /\ c.app \in Apps /\ c.named = {} /\ ~c.vague
      /\ c.result = "none" /\ c.todo \subseteq c.listed \ {Own(r)} /\ c.removed \subseteq c.listed
      /\ c.saw <= Len(vault) /\ (c.attempt = 0 => ~Holds(Own(r)))
    BY <1>0, <1>1 DEF StageInv, Holding
<1>3. \/ SetDone(r, FALSE) /\ adrift' = adrift
      \/ UNCHANGED service /\ adrift' \in {adrift, adrift \cup {StoreRequest(r)}}
    BY <1>0, <1>2, SetSecretDoes DEF StoreResult
<1>4. /\ d.op \in {"store", "remove", "undo", "readback"} /\ d.app = c.app
      /\ d.listed = c.listed /\ d.removed = c.removed /\ d.named = c.named
      /\ d.result = c.result /\ d.vague = c.vague /\ d.key = c.key /\ d.saw = c.saw
      /\ d.todo \subseteq c.listed \ {Own(r)}
      /\ d.op = "store" => d.attempt # 0
    BY <1>0, <1>1, <1>2 DEF StoreResult, Moved, Retried
<1>5. /\ d.op = "remove" => SetSecret(r, Own(r), FALSE)
      /\ d.op = "undo" => c.attempt = 0 /\ UNCHANGED <<service, adrift>>
    BY <1>0, <1>1 DEF StoreResult, Moved, Retried
<1>6. UNCHANGED <<creds, minted>>
    BY <1>3 DEF SetDone, service
<1>7. /\ vault \in Seq(Versions) /\ Len(vault) \in Nat
      /\ vault' \in Seq(Versions) /\ Len(vault') \in Nat /\ Len(vault) <= Len(vault')
      /\ clock' \in Nat /\ \A i \in 1..Len(vault) : vault'[i] = vault[i]
    <2>1. vault \in Seq(Versions) /\ Len(vault) \in Nat /\ clock \in Nat
        BY <1>0 DEF Types
    <2>2. CASE SetDone(r, FALSE)
        BY <2>1, <2>2 DEF SetDone
    <2>3. CASE UNCHANGED service
        BY <2>1, <2>3 DEF service
    <2> QED
        BY <1>3, <2>1, <2>2, <2>3
<1>8. /\ \A k : Holds(k) => Holds(k)'
      /\ \A s \in Rotations \ {r} : Holds(Own(s))' <=> Holds(Own(s))
      /\ d.op = "remove" => Holds(Own(r))'
    <2>1. CASE SetDone(r, FALSE)
        BY <2>1, OwnFacts DEF SetDone
    <2>2. CASE UNCHANGED service
        <3>1. \A k : Holds(k)' <=> Holds(k)
            BY <2>2 DEF service, Holds
        <3>2. d.op = "remove" => SetDone(r, FALSE)
            BY <1>0, <1>2, <1>5, SetSecretDoes
        <3> QED
            BY <3>1, <3>2, <2>1
    <2> QED
        BY <1>3, <2>1, <2>2
<1>9. Onward
    BY <1>1, <1>2, <1>4, <1>6, <1>8 DEF Onward, Others
<1>10. /\ \A s \in Rotations \ {r} : StageInv(s)' /\ CredsOf(s)' /\ ClaimOf(s)'
       /\ \A q \in adrift : q.r # r => AdriftInv(q)'
    BY <1>1, <1>6, <1>7, <1>8, <1>9, OthersKept
<1>11. StageInv(r)'
    <2>1. c.saw <= Len(vault')
        <3>1. c.saw \in Nat
            BY <1>0 DEF Types, Rots
        <3> QED
            BY <1>2, <1>7, <3>1
    <2> QED
        BY <1>2, <1>4, <1>6, <1>8, <2>1 DEF StageInv, Holding
<1>12. \A k : RemovedByAnother(k) => RemovedByAnother(k)'
    BY <1>9, OnwardKeeps
<1>13. \A k : Known(k) => Known(k)' /\ AppOf(k)' = AppOf(k)
    BY <1>9, OnwardKeeps
<1>14. CredsOf(r)'
    BY <1>1, <1>2, <1>4, <1>6, <1>12, <1>13, Apart DEF CredsOf
<1>15. ClaimOf(r)'
    BY <1>0, <1>1, <1>2, <1>4, <1>7, Apart, ClaimKept DEF Past
<1>16. \A q \in adrift' : AdriftInv(q)'
    <2>1. \A q \in adrift : q.r = r => AdriftInv(q)'
        BY <1>1, <1>2, <1>4, <1>6, <1>8 DEF RotationInv, AdriftInv, Holding
    <2>2. AdriftInv(StoreRequest(r))'
        BY <1>2, <1>4 DEF AdriftInv, StoreRequest, Holding
    <2> QED
        BY <1>3, <1>10, <2>1, <2>2
<1>17. Types'
    <2>1. adrift' \subseteq Requests
        <3>1. StoreRequest(r) \in Requests
            BY OwnFacts DEF StoreRequest, Requests
        <3> QED
            BY <1>0, <1>3, <3>1 DEF Types
    <2> QED
        BY <1>0, <1>1, <1>6, <1>7, <2>1 DEF Types
<1>18. VaultInv'
    <2>1. ASSUME NEW s \in Rotations, Undoing(s)' PROVE Undoing(s) \/ ~Holds(Own(s))
        <3>1. \A q \in adrift' : q.op = "undo" => q \in adrift
            <4>1. StoreRequest(r).op # "undo"
                BY DEF StoreRequest
            <4> QED
                BY <1>3, <4>1
        <3>2. CASE s = r /\ d.op = "undo"
            BY <1>2, <1>5, <3>2
        <3>3. CASE ~(s = r /\ d.op = "undo")
            BY <1>1, <2>1, <3>1, <3>3 DEF Undoing, Others
        <3> QED
            BY <3>2, <3>3
    <2>2. CASE SetDone(r, FALSE) /\ adrift' = adrift
        <3>1. d.op # "undo"
            BY <1>5, <1>7, <2>2 DEF SetDone, service
        <3>2. ~Undoing(r)'
            BY <1>1, <2>2, <3>1 DEF Undoing, RotationInv, AdriftInv
        <3>3. Own(r) \in creds \/ RemovedByAnother(Own(r))
            BY <1>1, Apart DEF CredsOf
        <3> QED
            BY <1>2, <1>9, <2>1, <2>2, <3>2, <3>3, VaultGrows
    <2>3. CASE UNCHANGED service
        BY <1>6, <1>9, <2>1, <2>3, VaultKept DEF service
    <2> QED
        BY <1>3, <2>2, <2>3
<1>19. CredsInv'
    BY <1>6, <1>9, <1>10, <1>14, CredsKept
<1>20. CacheInv'
    <2>1. GoesOn(r)
        BY <1>1, <1>2, <1>4 DEF GoesOn, RolledBack, Holding
    <2>2. \A k : Excused(k) => Excused(k)'
        BY <1>1, <2>1, ExcusedKept
    <2> QED
        BY <1>1, <1>6, <1>9, <2>2, CacheKept
<1> QED
    BY <1>10, <1>11, <1>14, <1>15, <1>16, <1>17, <1>18, <1>19, <1>20, Together

\* Rotation r takes a secret off: its own, which it is undoing, or a listed one.
LEMMA TakenOff ==
    ASSUME RotationInv, Onward, NEW r \in Rotations, Others(r), NEW k,
           UNCHANGED <<vault, clock, minted>>, creds' \in {creds, creds \ {k}},
           \/ k = Own(r) /\ Undoing(r)
           \/ k \in rot[r].listed \ {Own(r)} /\ Holds(Own(r)),
           \A s \in Rotations : Undoing(s)' => Undoing(s),
           CredsOf(r)'
    PROVE  /\ VaultInv' /\ CredsInv'
           /\ \A s \in Rotations \ {r} : StageInv(s)' /\ CredsOf(s)' /\ ClaimOf(s)'
           /\ \A q \in adrift : q.r # r => AdriftInv(q)'
<1>1. ASSUME NEW s \in Rotations \ {r}, Own(s) \in creds
      PROVE  Own(s) \in creds' \/ RemovedByAnother(Own(s))'
    <2>1. CASE k = Own(s)
        <3>1. Own(s) \in rot'[r].listed
            BY <2>1, OwnFacts DEF Onward
        <3> QED
            BY <3>1, OwnFacts DEF RemovedByAnother
    <2>2. CASE k # Own(s)
        BY <1>1, <2>2
    <2> QED
        BY <2>1, <2>2
<1>2. ASSUME Own(r) \in creds
      PROVE  Own(r) \in creds' \/ \A i \in DOMAIN vault : vault[i].key = Own(r) => vault[i].late
    <2>1. CASE k = Own(r)
        BY <2>1 DEF RotationInv, VaultInv
    <2>2. CASE k # Own(r)
        BY <1>2, <2>2
    <2> QED
        BY <2>1, <2>2
<1>3. VaultInv'
    BY <1>1, <1>2, VaultKept
<1>4. \A j : Holds(j)' <=> Holds(j)
    BY DEF Holds
<1>5. Len(vault) \in Nat /\ Len(vault') = Len(vault)
    BY DEF RotationInv, Types
<1>6. /\ \A s \in Rotations \ {r} : StageInv(s)' /\ CredsOf(s)' /\ ClaimOf(s)'
      /\ \A q \in adrift : q.r # r => AdriftInv(q)'
    BY <1>1, <1>4, <1>5, OthersKept
<1>7. \A a \in Apps : Key(a, 0) \in creds =>
         Key(a, 0) \in creds' \/ \E s \in Rotations : Holds(Own(s))
    BY OwnFacts
<1>8. CredsInv'
    BY <1>6, <1>7, CredsKept
<1> QED
    BY <1>3, <1>6, <1>8

LEMMA UndoKeeps ==
    ASSUME RotationInv, NEW r \in Rotations, Undo(r)
    PROVE  RotationInv'
<1> DEFINE c == rot[r]
           d == rot'[r]
<1>0. Types /\ StageInv(r) /\ UndoResult(r)
    BY Apart, UndoDoes DEF RotationInv
<1>1. c.op = "undo" /\ Others(r) /\ rot' \in [Rotations -> Rots] /\ UNCHANGED drifted
    BY <1>0 DEF UndoResult
<1>2. /\ minted[r] = 1 /\ c.key = Own(r) /\ c.app \in Apps /\ c.named = {} /\ ~c.vague
      /\ c.todo \subseteq c.listed \ {Own(r)} /\ c.removed \subseteq c.listed
    BY <1>0, <1>1 DEF StageInv, Holding
<1>3. CASE Retried(c, d) /\ UNCHANGED <<service, adrift, cached>>
    BY <1>1, <1>3, RetryKeeps DEF Silent
<1>4. CASE ~(Retried(c, d) /\ UNCHANGED <<service, adrift, cached>>)
    <2>1. /\ d.op = "ended" /\ d.result = "err" /\ d.saw = 0 /\ d.app = c.app
          /\ d.key = c.key /\ d.listed = c.listed /\ d.todo = c.todo
          /\ d.removed = c.removed /\ d.vague = c.vague
          /\ \/ d.named = {} /\ RemovePassword(Own(r)) /\ UNCHANGED cached
             \/ d.named = {Own(r)} /\ Bust(c.app)
        BY <1>0, <1>4 DEF UndoResult, Over
    <2>2. /\ RemovePassword(Own(r)) \/ UNCHANGED service
          /\ adrift' \in {adrift, adrift \cup {UndoRequest(r)}}
        BY <1>0, <1>4 DEF UndoResult
    <2>3. UNCHANGED <<vault, clock, minted>> /\ creds' \in {creds, creds \ {Own(r)}}
        BY <2>2 DEF RemovePassword, service
    <2>4. \A k : Holds(k)' <=> Holds(k)
        BY <2>3 DEF Holds
    <2>5. Onward
        BY <1>1, <1>2, <2>1, <2>3, <2>4 DEF Onward, Others
    <2>6. \A k : Known(k) => Known(k)' /\ AppOf(k)' = AppOf(k)
        BY <2>5, OnwardKeeps
    <2>7. CredsOf(r)'
        <3>1. Own(r) \in creds' => Own(r) \in d.named
            BY <2>1 DEF RemovePassword
        <3> QED
            BY <2>1, <2>3, <2>6, <3>1, Apart DEF CredsOf
    <2>8. Undoing(r) /\ \A s \in Rotations : Undoing(s)' => Undoing(s)
        <3>1. Undoing(r)
            BY <1>1 DEF Undoing
        <3>2. ASSUME NEW s \in Rotations \ {r}, Undoing(s)' PROVE Undoing(s)
            <4>1. UndoRequest(r).r = r
                BY DEF UndoRequest
            <4>2. \A q \in adrift' : q.r = s => q \in adrift
                BY <2>2, <4>1
            <4> QED
                BY <1>1, <3>2, <4>2 DEF Undoing, Others
        <3> QED
            BY <3>1, <3>2
    <2>9. /\ VaultInv' /\ CredsInv'
          /\ \A s \in Rotations \ {r} : StageInv(s)' /\ CredsOf(s)' /\ ClaimOf(s)'
          /\ \A q \in adrift : q.r # r => AdriftInv(q)'
        BY <1>1, <2>3, <2>5, <2>7, <2>8, TakenOff
    <2>10. StageInv(r)'
        <3>1. Len(vault) \in Nat
            BY <1>0 DEF Types
        <3> QED
            BY <1>2, <2>1, <2>3, <2>4, <3>1 DEF StageInv, Holding
    <2>11. ClaimOf(r)'
        BY <2>1 DEF ClaimOf, Past
    <2>12. \A q \in adrift' : AdriftInv(q)'
        <3>1. \A q \in adrift : q.r = r => AdriftInv(q)'
            BY <1>1, <1>2, <2>1, <2>3 DEF RotationInv, AdriftInv, Holding
        <3>2. AdriftInv(UndoRequest(r))'
            BY <1>2, <2>1 DEF AdriftInv, UndoRequest
        <3> QED
            BY <2>2, <2>9, <3>1, <3>2
    <2>13. CacheInv' /\ (cached' = None \/ cached' \in Entries)
        <3>1. CASE d.named = {} /\ UNCHANGED cached
            <4>1. RolledBack(r)'
                BY <1>2, <2>1, <3>1, OwnFacts DEF RolledBack
            <4>2. GoesOn(r)
                BY <1>1, <1>2, <4>1 DEF GoesOn, Holding
            <4>3. \A k : Excused(k) => Excused(k)'
                BY <1>1, <4>2, ExcusedKept
            <4>4. Excused(Own(r))'
                BY <4>1, OwnFacts DEF Excused
            <4> QED
                BY <1>0, <2>3, <2>5, <3>1, <4>3, <4>4, CacheKept DEF Types
        <3>2. CASE Bust(c.app)
            BY <1>1, <2>3, <2>5, <3>2, CacheBusted DEF Holding
        <3> QED
            BY <2>1, <3>1, <3>2
    <2>14. Types'
        <3>1. UndoRequest(r) \in Requests
            BY OwnFacts DEF UndoRequest, Requests
        <3> QED
            BY <1>0, <1>1, <2>2, <2>3, <2>13, <3>1 DEF Types
    <2> QED
        BY <2>7, <2>9, <2>10, <2>11, <2>12, <2>13, <2>14, Together
<1> QED
    BY <1>3, <1>4

LEMMA RemoveListedKeeps ==
    ASSUME RotationInv, NEW r \in Rotations, RemoveListed(r)
    PROVE  RotationInv'
<1> DEFINE c == rot[r]
           d == rot'[r]
<1>0. Types /\ StageInv(r)
    BY Apart DEF RotationInv
<1>1. PICK k \in c.todo : RemoveResult(r, k)
    BY <1>0, RemoveListedDoes
<1>2. /\ c.op = "remove" /\ Others(r) /\ rot' \in [Rotations -> Rots]
      /\ UNCHANGED <<cached, drifted>>
    BY <1>1 DEF RemoveResult
<1>3. /\ minted[r] = 1 /\ c.key = Own(r) /\ c.app \in Apps /\ c.named = {} /\ ~c.vague
      /\ c.todo \subseteq c.listed \ {Own(r)} /\ c.removed \subseteq c.listed
      /\ Holds(Own(r)) /\ c.result = "none" /\ c.saw <= Len(vault)
    BY <1>0, <1>2 DEF StageInv, Holding
<1>4. CASE Retried(c, d) /\ UNCHANGED <<service, adrift>>
    BY <1>2, <1>4, RetryKeeps DEF Silent
<1>5. CASE ~(Retried(c, d) /\ UNCHANGED <<service, adrift>>)
    <2>1. /\ d.op = "remove" /\ d.app = c.app /\ d.listed = c.listed /\ d.named = c.named
          /\ d.result = c.result /\ d.vague = c.vague /\ d.key = c.key /\ d.saw = c.saw
          /\ d.todo = c.todo \ {k}
          /\ \/ d.removed = c.removed \cup {k} /\ RemovePassword(k)
             \/ d.removed = c.removed
        BY <1>1, <1>5 DEF RemoveResult
    <2>2. /\ RemovePassword(k) \/ UNCHANGED service
          /\ adrift' \in {adrift, adrift \cup {RemoveRequest(r, k)}}
        BY <1>1, <1>5 DEF RemoveResult
    <2>3. UNCHANGED <<vault, clock, minted>> /\ creds' \in {creds, creds \ {k}}
        BY <2>2 DEF RemovePassword, service
    <2>4. \A j : Holds(j)' <=> Holds(j)
        BY <2>3 DEF Holds
    <2>5. Onward
        BY <1>2, <1>3, <2>1, <2>3, <2>4 DEF Onward, Others
    <2>6. \A j : Known(j) => Known(j)' /\ AppOf(j)' = AppOf(j)
        BY <2>5, OnwardKeeps
    <2>7. CredsOf(r)'
        <3>1. d.removed \cap creds' = {}
            BY <2>1, <2>3, Apart DEF CredsOf, RemovePassword
        <3>2. Own(r) \in creds' \/ RemovedByAnother(Own(r))'
            <4>1. Own(r) \in creds \/ RemovedByAnother(Own(r))
                BY <1>2, Apart DEF CredsOf
            <4> QED
                BY <1>3, <2>3, <2>5, <4>1, OnwardKeeps
        <3> QED
            BY <1>3, <2>1, <2>6, <3>1, <3>2, Apart DEF CredsOf
    <2>8. ASSUME NEW s \in Rotations, Undoing(s)' PROVE Undoing(s)
        <3>1. RemoveRequest(r, k).op # "undo"
            BY DEF RemoveRequest
        <3>2. \A q \in adrift' : q.op = "undo" => q \in adrift
            BY <2>2, <3>1
        <3>3. rot'[s].op = rot[s].op
            BY <1>2, <2>1 DEF Others
        <3> QED
            BY <2>8, <3>2, <3>3 DEF Undoing
    <2>9. /\ VaultInv' /\ CredsInv'
          /\ \A s \in Rotations \ {r} : StageInv(s)' /\ CredsOf(s)' /\ ClaimOf(s)'
          /\ \A q \in adrift : q.r # r => AdriftInv(q)'
        BY <1>2, <1>3, <2>3, <2>5, <2>7, <2>8, TakenOff
    <2>10. StageInv(r)'
        BY <1>1, <1>3, <2>1, <2>3, <2>4 DEF StageInv, Holding
    <2>11. ClaimOf(r)'
        BY <1>2, <2>1, <2>3, Apart DEF ClaimOf, claims_an_owner
    <2>12. \A q \in adrift' : AdriftInv(q)'
        <3>1. \A q \in adrift : q.r = r => AdriftInv(q)'
            BY <1>2, <1>3, <2>1, <2>3, <2>4 DEF RotationInv, AdriftInv, Holding
        <3>2. AdriftInv(RemoveRequest(r, k))'
            BY <1>1, <1>3, <2>1, <2>4 DEF AdriftInv, RemoveRequest
        <3> QED
            BY <2>2, <2>9, <3>1, <3>2
    <2>13. CacheInv'
        <3>1. GoesOn(r)
            BY <1>2, <1>3, <2>1 DEF GoesOn, RolledBack, Holding
        <3>2. \A j : Excused(j) => Excused(j)'
            BY <1>2, <3>1, ExcusedKept
        <3>3. Excused(k)'
            BY <1>1, <1>3, <2>1 DEF Excused
        <3> QED
            BY <1>2, <2>3, <2>5, <3>2, <3>3, CacheKept
    <2>14. Types'
        <3>1. k \in Secrets
            BY <1>0, <1>1 DEF Types, Rots
        <3>2. RemoveRequest(r, k) \in Requests
            BY <3>1 DEF RemoveRequest, Requests
        <3> QED
            BY <1>0, <1>2, <2>2, <2>3, <3>2 DEF Types
    <2> QED
        BY <2>7, <2>9, <2>10, <2>11, <2>12, <2>13, <2>14, Together
<1> QED
    BY <1>4, <1>5

\* What a late request does to the cached secrets is told apart by drifted.
LEMMA LandedCache ==
    ASSUME RotationInv, Onward, NEW q \in adrift, LandResult(q)
    PROVE  CacheInv'
<1>1. UNCHANGED <<cached, rot>> /\ drifted \subseteq drifted'
    BY DEF LandResult
<1>2. \A k : Excused(k) => Excused(k)'
    BY <1>1 DEF Excused, RolledBack
<1>3. \A k \in (creds \ creds') \cup (creds' \ creds) : Excused(k)'
    BY DEF LandResult, Excused
<1> QED
    BY <1>1, <1>2, <1>3, CacheKept

LEMMA LandKeeps ==
    ASSUME RotationInv, NEW q \in adrift, Land(q)
    PROVE  RotationInv'
<1> DEFINE r == q.r
           c == rot[r]
<1>0. Types /\ q \in Requests /\ r \in Rotations /\ AdriftInv(q) /\ StageInv(r)
    BY Apart DEF RotationInv, Types, Requests
<1>1. LandResult(q) /\ UNCHANGED <<cached, rot>> /\ adrift' = adrift \ {q}
    BY LandDoes DEF LandResult, RotationInv
<1>2. Others(r)
    BY <1>1 DEF Others
<1>3. \A s \in Rotations : Undoing(s)' => Undoing(s)
    BY <1>1 DEF Undoing
<1>4. Len(vault) \in Nat
    BY <1>0 DEF Types
<1>5. CASE q.op = "mint"
    <2>1. /\ creds' = creds \cup {Own(r)} /\ minted' = [minted EXCEPT ![r] = 1]
          /\ UNCHANGED <<vault, clock>>
        BY <1>1, <1>5 DEF LandResult, Added
    <2>2. /\ minted[r] = 0 /\ c.op = "ended" /\ c.vague /\ q.key = None
          /\ c.key = None /\ c.result = "err" /\ c.named = {}
        BY <1>0, <1>5 DEF AdriftInv, StageInv
    <2>3. minted'[r] = 1 /\ \A s \in Rotations \ {r} : minted'[s] = minted[s]
        BY <1>0, <2>1 DEF Types
    <2>4. \A k : Holds(k)' <=> Holds(k)
        BY <2>1 DEF Holds
    <2>5. Onward
        BY <1>1, <2>2, <2>3, <2>4 DEF Onward
    <2>6. Own(r) \notin creds /\ ~Known(Own(r)) /\ ~Holds(Own(r))
        <3>1. Own(r) \notin creds /\ ~Known(Own(r))
            BY <1>0, <2>2, OwnFacts DEF RotationInv, CredsInv, Known
        <3>2. ~Holds(Own(r))
            BY <1>0, <2>2 DEF RotationInv, VaultInv, Holds, vault_holds_key, ToSet
        <3> QED
            BY <3>1, <3>2
    <2>7. /\ \A s \in Rotations \ {r} : StageInv(s)' /\ CredsOf(s)' /\ ClaimOf(s)'
          /\ \A p \in adrift : p.r # r => AdriftInv(p)'
        BY <1>0, <1>2, <1>4, <2>1, <2>3, <2>4, <2>5, <2>6, OthersKept, OwnFacts
    <2>8. StageInv(r)'
        BY <1>0, <1>1, <2>1, <2>2, <2>3, <2>4, <2>6 DEF StageInv, Holding
    <2>9. \A k : Known(k) => Known(k)' /\ AppOf(k)' = AppOf(k)
        BY <2>5, OnwardKeeps
    <2>10. CredsOf(r)'
        <3>1. c.removed \subseteq c.listed /\ \A k \in c.listed : Known(k)
            BY <1>0, Apart DEF StageInv, CredsOf
        <3> QED
            BY <1>0, <1>1, <2>1, <2>2, <2>6, <2>9, <3>1, Apart DEF CredsOf
    <2>11. ClaimOf(r)'
        BY <1>1, <2>2 DEF ClaimOf, Past
    <2>12. \A p \in adrift' : AdriftInv(p)'
        <3>1. \A p \in adrift \ {q} : p.r # r
            <4> SUFFICES ASSUME NEW p \in adrift \ {q}, p.r = r PROVE FALSE
                OBVIOUS
            <4>1. AdriftInv(p) /\ p \in Requests
                BY <1>0 DEF RotationInv, Types
            <4>2. p.op = "mint" /\ p.key = None
                BY <1>0, <2>2, <2>6, <4>1, OwnFacts DEF AdriftInv, Requests
            <4> QED
                BY <1>0, <1>5, <2>2, <4>1, <4>2 DEF Requests
        <3> QED
            BY <1>1, <2>7, <3>1
    <2>13. Types'
        BY <1>0, <1>1, <2>1, OwnFacts DEF Types
    <2>14. VaultInv'
        BY <1>3, <2>1, <2>5, VaultKept
    <2>15. CredsInv'
        <3>1. Known(Own(r))'
            BY <1>0, <2>3, OwnFacts DEF Known
        <3> QED
            BY <1>0, <2>1, <2>5, <2>7, <2>10, <3>1, CredsKept
    <2>16. CacheInv'
        BY <1>1, <2>5, LandedCache
    <2> QED
        BY <2>7, <2>8, <2>10, <2>11, <2>12, <2>13, <2>14, <2>15, <2>16, Together
<1>6. CASE q.op = "store"
    <2>1. /\ c.key = Own(r) /\ c.op \in Holding \cup {"ended"} /\ c.app \in Apps
          /\ minted[r] = 1 /\ ~(c.op = "store" /\ c.attempt = 0)
        BY <1>0, <1>6, OwnFacts DEF AdriftInv, StageInv, Holding
    <2>2. SetDone(r, TRUE)
        BY <1>0, <1>1, <1>6, <2>1, SetSecretDoes DEF LandResult
    <2>3. UNCHANGED <<creds, minted>>
        BY <2>2 DEF SetDone
    <2>4. /\ vault' \in Seq(Versions) /\ Len(vault') \in Nat /\ Len(vault) <= Len(vault')
          /\ clock' \in Nat /\ \A i \in 1..Len(vault) : vault'[i] = vault[i]
        BY <1>4, <2>2 DEF SetDone
    <2>5. \A k : Holds(k)' <=> Holds(k) \/ k = Own(r)
        BY <2>2 DEF SetDone
    <2>6. Onward
        BY <1>1, <2>3, <2>5 DEF Onward
    <2>7. /\ \A s \in Rotations \ {r} : StageInv(s)' /\ CredsOf(s)' /\ ClaimOf(s)'
          /\ \A p \in adrift : p.r # r => AdriftInv(p)'
        BY <1>0, <1>2, <2>3, <2>4, <2>5, <2>6, OthersKept, OwnFacts
    <2>8. StageInv(r)'
        <3>1. c.saw <= Len(vault) /\ c.saw \in Nat
            BY <1>0 DEF StageInv, Types, Rots
        <3>2. c.saw <= Len(vault')
            BY <1>4, <2>4, <3>1
        <3> QED
            BY <1>0, <1>1, <2>1, <2>3, <2>5, <3>2 DEF StageInv, Holding
    <2>9. CredsOf(r)'
        BY <1>0, <1>1, <2>3, <2>6, CredsOfKept
    <2>10. ClaimOf(r)'
        <3>1. c.saw <= Len(vault) /\ ClaimOf(r)
            BY <1>0, Apart DEF StageInv
        <3> QED
            BY <1>0, <1>1, <2>4, <3>1, ClaimKept
    <2>11. \A p \in adrift' : AdriftInv(p)'
        BY <1>1, <2>3, <2>5 DEF RotationInv, AdriftInv
    <2>12. Types'
        BY <1>0, <1>1, <2>3, <2>4 DEF Types
    <2>13. VaultInv'
        BY <1>0, <1>3, <2>1, <2>2, <2>6, VaultGrows
    <2>14. CredsInv'
        BY <2>3, <2>6, <2>7, <2>9, CredsKept
    <2>15. CacheInv'
        BY <1>1, <2>6, LandedCache
    <2> QED
        BY <2>7, <2>8, <2>9, <2>10, <2>11, <2>12, <2>13, <2>14, <2>15, Together
<1>7. CASE q.op \in {"undo", "remove"}
    <2>1. UNCHANGED <<vault, clock, minted>> /\ creds' = creds \ {q.key}
        BY <1>1, <1>7 DEF LandResult, RemovePassword
    <2>2. \A k : Holds(k)' <=> Holds(k)
        BY <2>1 DEF Holds
    <2>3. Onward
        BY <1>1, <2>1, <2>2 DEF Onward
    <2>4. \/ q.key = Own(r) /\ Undoing(r) /\ c.result = "err" /\ c.op = "ended"
          \/ q.key \in c.listed \ {Own(r)} /\ Holds(Own(r))
        BY <1>0, <1>7 DEF AdriftInv, Undoing
    <2>5. CredsOf(r)'
        <3>1. \A k : Known(k) => Known(k)' /\ AppOf(k)' = AppOf(k)
            BY <2>3, OnwardKeeps
        <3>2. \A k : RemovedByAnother(k) => RemovedByAnother(k)'
            BY <2>3, OnwardKeeps
        <3> QED
            BY <1>0, <1>1, <2>1, <2>4, <3>1, <3>2, Apart DEF CredsOf
    <2>6. /\ VaultInv' /\ CredsInv'
          /\ \A s \in Rotations \ {r} : StageInv(s)' /\ CredsOf(s)' /\ ClaimOf(s)'
          /\ \A p \in adrift : p.r # r => AdriftInv(p)'
        BY <1>0, <1>2, <1>3, <2>1, <2>3, <2>4, <2>5, TakenOff
    <2>7. StageInv(r)'
        BY <1>0, <1>1, <1>4, <2>1, <2>2, StageKept DEF StageInv, Types, Rots
    <2>8. ClaimOf(r)'
        BY <1>0, <1>1, <2>1, Apart DEF ClaimOf, claims_an_owner
    <2>9. \A p \in adrift' : AdriftInv(p)'
        BY <1>1, <2>1, <2>2 DEF RotationInv, AdriftInv
    <2>10. Types'
        BY <1>0, <1>1, <2>1 DEF Types
    <2>11. CacheInv'
        BY <1>1, <2>3, LandedCache
    <2> QED
        BY <2>5, <2>6, <2>7, <2>8, <2>9, <2>10, <2>11, Together
<1> QED
    BY <1>0, <1>5, <1>6, <1>7 DEF Requests

LEMMA ReadCredentialsKeeps ==
    ASSUME RotationInv, NEW a \in Apps, ReadCredentials(a)
    PROVE  RotationInv'
<1>1. /\ UNCHANGED <<creds, vault, clock, minted, adrift, rot, drifted>>
      /\ cached' = [app |-> a, keys |-> OnApp(a)]
    BY DEF ReadCredentials, service
<1>2. OnApp(a) \subseteq creds /\ \A k \in OnApp(a) : Known(k) /\ AppOf(k) = a
    BY DEF OnApp, RotationInv, CredsInv
<1>3. cached' \in Entries /\ cached'.app = a /\ cached'.keys = OnApp(a)
    BY <1>1, <1>2 DEF Entries, RotationInv, Types
<1>4. OnApp(a)' = OnApp(a)
    BY <1>1 DEF OnApp, AppOf
<1>5. CacheInv'
    <2>1. \A k \in OnApp(a) : Known(k)' /\ AppOf(k)' = a
        BY <1>1, <1>2 DEF Known, AppOf
    <2> QED
        BY <1>3, <1>4, <2>1 DEF CacheInv
<1>6. Types'
    BY <1>1, <1>3 DEF RotationInv, Types
<1>7. \A r \in Rotations : StageInv(r)'
    BY <1>1 DEF RotationInv, StageInv, Holds
<1>8. \A q \in adrift' : AdriftInv(q)'
    BY <1>1 DEF RotationInv, AdriftInv, Holds
<1>9. VaultInv'
    BY <1>1 DEF RotationInv, VaultInv, Minted, RemovedByAnother, Undoing
<1>10. CredsInv'
    BY <1>1 DEF RotationInv, CredsInv, Known, Minted, AppOf, RemovedByAnother
<1>11. ClaimIsRespected'
    BY <1>1 DEF RotationInv, ClaimIsRespected, claims_an_owner
<1> QED
    BY <1>5, <1>6, <1>7, <1>8, <1>9, <1>10, <1>11 DEF RotationInv

LEMMA StutterKeeps ==
    ASSUME RotationInv, UNCHANGED vars
    PROVE  RotationInv'
<1>1. UNCHANGED <<creds, vault, clock, minted, adrift, cached, rot, drifted>>
    BY DEF vars, service
<1>2. Types'
    BY <1>1 DEF RotationInv, Types
<1>3. \A r \in Rotations : StageInv(r)'
    BY <1>1 DEF RotationInv, StageInv, Holds
<1>4. \A q \in adrift' : AdriftInv(q)'
    BY <1>1 DEF RotationInv, AdriftInv, Holds
<1>5. VaultInv'
    BY <1>1 DEF RotationInv, VaultInv, Minted, RemovedByAnother, Undoing
<1>6. CredsInv'
    BY <1>1 DEF RotationInv, CredsInv, Known, Minted, AppOf, RemovedByAnother
<1>7. ClaimIsRespected'
    BY <1>1 DEF RotationInv, ClaimIsRespected, claims_an_owner
<1>8. CacheInv'
    BY <1>1 DEF RotationInv, CacheInv, Known, OnApp, AppOf, Excused, RolledBack
<1> QED
    BY <1>2, <1>3, <1>4, <1>5, <1>6, <1>7, <1>8 DEF RotationInv

LEMMA InitEstablishes ==
    ASSUME Init
    PROVE  RotationInv
<1>1. PICK h \in Histories : vault = h.versions /\ clock = h.clock
    BY DEF Init
<1>2. /\ creds = {Key(a, 0) : a \in Apps} /\ adrift = {} /\ cached = None
      /\ rot = [r \in Rotations |-> Idle] /\ minted = [r \in Rotations |-> 0]
    BY DEF Init
<1>3. /\ clock \in Nat /\ vault \in Seq(Versions)
      /\ \A i \in DOMAIN vault :
            /\ vault[i].key \in {Key(a, 0) : a \in Apps} \cup {None}
            /\ vault[i].at <= clock
            /\ \A j \in 1..i : vault[i].at = Undated \/ vault[j].at <= vault[i].at
    BY <1>1, HistoriesAssumption
<1>4. \A i \in DOMAIN vault : \A r \in Rotations : vault[i].key # Own(r)
    BY <1>3, OwnFacts
<1>5. \A r \in Rotations : ~Holds(Own(r))
    BY <1>4 DEF Holds, vault_holds_key, ToSet
<1>6. Idle \in Rots
    BY DEF Idle, Rots, Ops
<1>7. /\ Idle.op = "idle" /\ Idle.key = None /\ Idle.listed = {} /\ Idle.todo = {}
      /\ Idle.removed = {} /\ Idle.named = {} /\ Idle.result = "none" /\ Idle.saw = 0
      /\ ~Idle.vague
    BY DEF Idle
<1>8. \A r \in Rotations : rot[r] = Idle /\ minted[r] = 0
    BY <1>2
<1>9. Len(vault) \in Nat /\ DOMAIN vault = 1..Len(vault)
    BY <1>3
<1>10. Types
    BY <1>2, <1>3, <1>6, OwnFacts DEF Types
<1>11. \A r \in Rotations : StageInv(r)
    BY <1>5, <1>7, <1>8, <1>9 DEF StageInv, Holding
<1>12. VaultInv
    <2>1. \A i \in DOMAIN vault : ~Minted(vault[i])
        BY <1>4 DEF Minted
    <2>2. \A i \in DOMAIN vault : \A j \in 1..i : j \in DOMAIN vault
        BY <1>9
    <2> QED
        BY <1>3, <1>4, <2>1, <2>2 DEF VaultInv
<1>13. CredsInv
    BY <1>2, <1>7, <1>8, OwnFacts DEF CredsInv, Known
<1>14. ClaimIsRespected
    BY <1>7, <1>8 DEF ClaimIsRespected
<1>15. CacheInv
    BY <1>2 DEF CacheInv
<1> QED
    BY <1>2, <1>10, <1>11, <1>12, <1>13, <1>14, <1>15 DEF RotationInv

-----------------------------------------------------------------------------
(* The theorems.                                                           *)

\* The inductive invariant holds in every reachable state (Rotation.tla, Next):
\* every call of rotate_app_credential, its retries and its late requests keep it.
THEOREM RotationInvariance == Spec => []RotationInv
<1>1. Init => RotationInv
    BY InitEstablishes
<1>2. RotationInv /\ [Next]_vars => RotationInv'
    <2> SUFFICES ASSUME RotationInv, [Next]_vars PROVE RotationInv'
        OBVIOUS
    <2>1. ASSUME NEW r \in Rotations, NEW a \in Apps, Begin(r, a) PROVE RotationInv'
        BY <2>1, BeginKeeps
    <2>2. ASSUME NEW r \in Rotations, CheckOwner(r) PROVE RotationInv'
        BY <2>2, CheckOwnerKeeps
    <2>3. ASSUME NEW r \in Rotations, Mint(r) PROVE RotationInv'
        BY <2>3, MintKeeps
    <2>4. ASSUME NEW r \in Rotations, Store(r) PROVE RotationInv'
        BY <2>4, StoreKeeps
    <2>5. ASSUME NEW r \in Rotations, ReadBack(r) PROVE RotationInv'
        BY <2>5, ReadBackKeeps
    <2>6. ASSUME NEW r \in Rotations, Undo(r) PROVE RotationInv'
        BY <2>6, UndoKeeps
    <2>7. ASSUME NEW r \in Rotations, RemoveListed(r) PROVE RotationInv'
        BY <2>7, RemoveListedKeeps
    <2>8. ASSUME NEW r \in Rotations, Finish(r) PROVE RotationInv'
        BY <2>8, FinishKeeps
    <2>9. ASSUME NEW q \in adrift, Land(q) PROVE RotationInv'
        BY <2>9, LandKeeps
    <2>10. ASSUME NEW a \in Apps, ReadCredentials(a) PROVE RotationInv'
        BY <2>10, ReadCredentialsKeeps
    <2>11. CASE UNCHANGED vars
        BY <2>11, StutterKeeps
    <2> QED
        BY <2>1, <2>2, <2>3, <2>4, <2>5, <2>6, <2>7, <2>8, <2>9, <2>10, <2>11 DEF Next
<1> QED
    BY <1>1, <1>2, PTL DEF Spec

\* A secret of a rotation's that is on an app is the one it minted.
LEMMA MintedByIs ==
    ASSUME RotationInv, NEW r \in Rotations
    PROVE  minted[r] \in {0, 1} /\ MintedBy(r) \subseteq {Own(r)}
<1>1. minted[r] \in {0, 1}
    BY Apart DEF StageInv, Holding, Ops, RotationInv, Types, Rots
<1> QED
    BY <1>1 DEF MintedBy, Own

\* However often addPassword is throttled, challenged or left without an answer,
\* a rotation puts at most one secret on its app (http_retry.rs, with_retries).
THEOREM SecretsAreMintedOnce == Spec => []SecretMintedOnce
<1>1. RotationInv => SecretMintedOnce
    BY MintedByIs DEF SecretMintedOnce
<1> QED
    BY <1>1, RotationInvariance, PTL

\* The newest version of the vault secret is a client secret its app accepts, up
\* to writes that were given up and removals another rotation was told to make
\* (keyvault.rs, store_minted and roll_back).
THEOREM VaultsServeLiveSecrets == Spec => []VaultServesALiveSecret
<1>1. RotationInv => VaultServesALiveSecret
    <2> SUFFICES ASSUME RotationInv, vault # <<>>
                 PROVE  LET v == vault[Len(vault)] IN
                        v.key \in creds \cup {None} \/ v.late \/ RemovedByAnother(v.key)
        BY DEF VaultServesALiveSecret
    <2> DEFINE n == Len(vault)
    <2>1. vault \in Seq(Versions)
        BY DEF RotationInv, Types
    <2>2. n \in DOMAIN vault /\ n \in 1..n /\ DOMAIN vault = 1..n
        BY <2>1
    <2>3. CASE Minted(vault[n])
        BY <2>2, <2>3 DEF Minted, RotationInv, VaultInv
    <2>4. CASE ~Minted(vault[n])
        <3>1. /\ vault[n].key \in {Key(a, 0) : a \in Apps} \cup {None}
              /\ \A j \in 1..n : ~Minted(vault[j])
            BY <2>2, <2>4 DEF RotationInv, VaultInv
        <3> QED
            BY <2>2, <3>1 DEF RotationInv, CredsInv
    <2> QED
        BY <2>3, <2>4
<1> QED
    BY <1>1, RotationInvariance, PTL

\* What a rotation that ended tells the operator is true of the vault and of the
\* app (keyvault.rs, rotate_app_credential).
THEOREM EndsSayTheTruth == Spec => []EndSaysTheTruth
<1>1. RotationInv => EndSaysTheTruth
    <2> SUFFICES ASSUME RotationInv, NEW r \in Rotations
                 PROVE  /\ rot[r].result = "ok" =>
                              /\ vault_holds_key(vault, rot[r].key)
                              /\ rot[r].key \in creds \/ RemovedByAnother(rot[r].key)
                              /\ rot[r].removed \cap creds = {}
                        /\ rot[r].result = "err" =>
                              \/ MintedBy(r) \cap creds \subseteq rot[r].named
                              \/ rot[r].vague
        BY DEF EndSaysTheTruth
    <2>1. StageInv(r) /\ CredsOf(r)
        BY Apart
    <2>2. CASE rot[r].result = "ok"
        <3>1. rot[r].key = Own(r) /\ Holds(Own(r))
            BY <2>1, <2>2 DEF StageInv
        <3> QED
            BY <2>1, <2>2, <3>1 DEF CredsOf, Holds
    <2>3. CASE rot[r].result = "err"
        BY <2>1, <2>3, MintedByIs DEF CredsOf
    <2> QED
        BY <2>2, <2>3
<1> QED
    BY <1>1, RotationInvariance, PTL

\* No rotation passes its gate against the newest claim on the vault secret
\* (keyvault.rs, current_owner_if_other).
THEOREM ClaimsAreRespected == Spec => []ClaimIsRespected
<1>1. RotationInv => ClaimIsRespected
    BY DEF RotationInv
<1> QED
    BY <1>1, RotationInvariance, PTL

\* Once the rotations rest, an app's cached credentials are the ones it has, up to
\* what only a late or an open request explains (keyvault.rs, "bust on the landed
\* write").
THEOREM CachesHearOfRotation == Spec => []CacheHearsOfRotation
<1>1. RotationInv => CacheHearsOfRotation
    BY DEF RotationInv, CacheInv, CacheHearsOfRotation, Excused, Holding
<1> QED
    BY <1>1, RotationInvariance, PTL

=============================================================================
