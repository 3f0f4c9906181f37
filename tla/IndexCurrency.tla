--------------------------- MODULE IndexCurrency ----------------------------
(***************************************************************************)
(* What the guarded cache promises, without watches, stamps or retries: a  *)
(* key holds a snapshot or nothing, and a snapshot that is put there, or   *)
(* that is still there when the invalidation for a write is over, reflects *)
(* every write whose invalidation of that key is over.                     *)
(***************************************************************************)
CONSTANTS Keys, Writes, NoValue

VARIABLES
    value,  \* [Keys -> SUBSET Writes or NoValue]
    acked   \* [Keys -> SUBSET Writes]: writes whose invalidation is over

cvars == <<value, acked>>

CInit ==
    /\ value = [k \in Keys |-> NoValue]
    /\ acked = [k \in Keys |-> {}]

\* A fetch commits a snapshot that is not older than any acknowledged write.
Fill(k) ==
    /\ \E s \in SUBSET Writes :
          /\ acked[k] \subseteq s
          /\ value' = [value EXCEPT ![k] = s]
    /\ UNCHANGED acked

\* Entries may go at any time: expiry, eviction, an overtaken store.
Evict ==
    /\ \E gone \in SUBSET Keys :
          value' = [k \in Keys |-> IF k \in gone THEN NoValue ELSE value[k]]
    /\ UNCHANGED acked

\* An invalidation is over with some keys: they are empty.
Invalidate ==
    \E gone \in SUBSET Keys, w \in Writes :
        /\ value' = [k \in Keys |-> IF k \in gone THEN NoValue ELSE value[k]]
        /\ acked' = [k \in Keys |-> IF k \in gone THEN acked[k] \cup {w} ELSE acked[k]]

\* A patch is over with a key: the snapshot there has gained the write and
\* lost nothing.
Patch(k) ==
    /\ value[k] # NoValue
    /\ \E w \in Writes :
          /\ value' = [value EXCEPT ![k] = @ \cup {w}]
          /\ acked' = [acked EXCEPT ![k] = @ \cup {w}]

CNext ==
    \/ \E k \in Keys : Fill(k) \/ Patch(k)
    \/ Evict
    \/ Invalidate

CSpec == CInit /\ [][CNext]_cvars

=============================================================================
