-------------------------- MODULE MCKeyringChunks ---------------------------
(* Small instances of KeyringChunks for TLC: who runs, which tokens exist. *)
EXTENDS KeyringChunks, TLC

CONSTANTS p1, p2, t1, t2, t3, small, long

\* Two threads of one instance, one of another.
TwoProcesses == [t \in Threads |-> IF t = t3 THEN p2 ELSE p1]

\* The other instance signs in, over and over.
EveryCall == {"save", "load", "delete", "purge"}
TwoProcessCalls == [t \in Threads |-> IF t = t3 THEN {"save"} ELSE EveryCall]

\* How many entries each token takes: the second is longer than GAP_TOLERANCE.
PartsOf == [k \in Tokens |-> (small :> 2 @@ long :> 5)[k]]

\* The two threads of one instance are interchangeable.
ThreadSymmetry == Permutations({t1, t2})
=============================================================================
