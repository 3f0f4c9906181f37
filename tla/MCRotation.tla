----------------------------- MODULE MCRotation -----------------------------
(* Two rotations of one app, or of two, into one vault secret.             *)
EXTENDS Rotation, TLC

CONSTANTS A, B, R1, R2

Version(k, o, t) == [key |-> k, owner |-> o, at |-> t, late |-> FALSE]

\* No secret yet; A's own; another app's, undated and under an untagged version;
\* two apps' within one second.
MCHistories ==
    {[versions |-> <<>>, clock |-> 0],
     [versions |-> <<Version(Key(A, 0), A, 1)>>, clock |-> 1],
     [versions |-> <<Version(Key(B, 0), B, Undated), Version(None, None, 2)>>, clock |-> 2],
     [versions |-> <<Version(Key(B, 0), B, 1), Version(Key(A, 0), A, 1)>>, clock |-> 1]}

\* The rotations are alike.
Alike == Permutations(Rotations)
=============================================================================
