--------------------------- MODULE MCAuthSession ----------------------------
(* Small instances of AuthSession for TLC: which flows run, for which slot. *)
EXTENDS AuthSession, TLC

CONSTANTS read, write, anna, ben, si1, si2, so1, re1, ra1, ia1, b1, b2, rf1, fg1

AllKinds ==
    si1 :> "sign_in" @@ si2 :> "sign_in" @@ so1 :> "sign_out"
    @@ re1 :> "restore" @@ ra1 :> "reauth" @@ ia1 :> "interactive"
    @@ b1 :> "bearer" @@ b2 :> "bearer" @@ rf1 :> "refresh" @@ fg1 :> "forget"

MCKind == [o \in Ops |-> AllKinds[o]]

\* The interactive flow and the first client use the write scopes.
MCSlotOf == [o \in Ops |-> IF o \in {ia1, b1} THEN write ELSE read]
=============================================================================
