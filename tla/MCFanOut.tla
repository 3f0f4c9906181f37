------------------------------ MODULE MCFanOut ------------------------------
(* Small instances of FanOut for TLC: which commands run, on how much. *)
EXTENDS FanOut, TLC

CONSTANTS r1, r2, p1, p2

Plan(k1, n1, k2, n2, width, storms, ps) ==
    [kind |-> r1 :> k1 @@ r2 :> k2, size |-> r1 :> n1 @@ r2 :> n2,
     cap |-> width, throttles |-> storms, presses |-> ps]

\* One run of each kind, with a Cancel at any time.
Alone == {Plan(k, 2, "none", 0, 2, 0, {p1}) : k \in Kinds \ {"delete"}}
         \cup {Plan("delete", 3, "none", 0, 2, 0, {p1})}

\* A run wide enough for the cap to be halved twice, to recover and to lose a
\* halving to the recovery.
Throttled == {Plan("backup", 2, "none", 0, 4, 3, {})}

\* Two runs on one flag under two presses of Cancel; two in one observer slot.
Together == {Plan("delete", 1, "core", 1, 2, 0, {p1, p2}),
             Plan("audit", 1, "backup", 1, 2, 1, {})}

MCPlans == Alone \cup Throttled \cup Together
=============================================================================
