------------------------- MODULE AuthSessionProofs --------------------------
(***************************************************************************)
(* Proofs about AuthSession, for every set of accounts, slots and flows.   *)
(*                                                                         *)
(* The fences work because what a flow stored never changes its owner or   *)
(* its session afterwards (StoredIsStable) and nothing is ahead of the     *)
(* epoch (EpochIsLatest): a token stored under the current epoch belongs   *)
(* to the current session.  Most steps are quiet: they leave the epoch,    *)
(* the registry and the slots alone.  Quiet says what such a step may do,  *)
(* and the invariant is shown once for it and once for each of the six     *)
(* actions that are not quiet.                                             *)
(***************************************************************************)
EXTENDS AuthSession, TLAPS

\* Where a flow can be once a token it stored, or its registration, is visible.
\* Its account and its fence no longer change there.
StoredPC == {"commit", "deliver", "ok", "failed"}

Stored(o) ==
    \/ o = registry
    \/ \E s \in Slots : cache[s] = o
    \/ \E a \in Accounts : keyring[a] = o
    \/ \E p \in Ops : got[p] = o

StoredIsStable == \A o \in Ops : Stored(o) => pc[o] \in StoredPC

\* Nothing is ahead of the epoch.
EpochIsLatest ==
    /\ \A o \in Ops : fence[o] <= epoch /\ built[o] <= epoch
    /\ \A a \in Accounts : deletedAt[a] <= epoch
    /\ emptiedAt <= epoch /\ replacedAt <= epoch

\* Which flows can be where, as far as the proofs need it.
Ending == {"idle", "delete", "sweep", "forget", "out", "ok", "failed"}

Roles ==
    \A o \in Ops :
        /\ pc[o] = "forget" => Kind[o] = "forget"
        /\ Kind[o] \in {"sign_out", "forget"} => pc[o] \in Ending
        /\ pc[o] = "deliver" => got[o] \in Ops
        /\ Kind[o] = "bearer" /\ pc[o] = "ok" => got[o] \in Ops

\* A slot is filled while nobody is registered only if the registry was
\* emptied in this epoch, or is about to be swept.
EmptyWasEmptied ==
    registry = Nobody /\ cache # NoSlots => emptiedAt = epoch \/ SweepOwed

\* A flow that took its account from the registry and whose session is still
\* the current one: the tenant is registered, or was emptied in this epoch.
KeepFlow(o) ==
    /\ Kind[o] \in {"interactive", "bearer", "refresh"}
    /\ pc[o] \in {"browser", "load", "post", "purge", "superseded", "unregister",
                  "save", "commit"}

KeepsTheRegistered ==
    \A o \in Ops : KeepFlow(o) /\ fence[o] = epoch =>
        registry # Nobody \/ emptiedAt = epoch

AuthInv ==
    /\ AuthTypeOK
    /\ StoredIsStable
    /\ EpochIsLatest
    /\ Roles
    /\ NoLateSave
    /\ SlotsAreCurrent
    /\ NoNewerSessionServed
    /\ EmptyWasEmptied
    /\ KeepsTheRegistered
    /\ SlotsOfOneAccount

-----------------------------------------------------------------------------
(* Quiet steps.                                                            *)

QuietPC(o) ==
    /\ pc[o] # "sweep"
    /\ \E to \in PC \ {"sweep"} : pc' = [pc EXCEPT ![o] = to]
    /\ pc[o] \in StoredPC => pc'[o] \in StoredPC
    /\ pc'[o] = "forget" => Kind[o] = "forget"
    /\ Kind[o] \in {"sign_out", "forget"} => pc'[o] \in Ending

QuietKeyring(o) ==
    \/ keyring' = keyring
    \/ keyring' = [keyring EXCEPT ![who[o]] = NoToken]
    \/ /\ keyring' = [keyring EXCEPT ![who[o]] = o]
       /\ epoch = fence[o]
       /\ pc'[o] = "commit"

QuietAccount(o) ==
    \/ UNCHANGED <<who, fence>>
    \/ /\ pc[o] \notin StoredPC
       /\ UNCHANGED keyring
       /\ \E a \in Accounts : who' = [who EXCEPT ![o] = a]
       /\ fence' = fence \/ fence' = [fence EXCEPT ![o] = epoch]

QuietToken(o) ==
    /\ built' = built \/ (built' = [built EXCEPT ![o] = epoch] /\ pc[o] = "idle")
    /\ got' = got \/ \E s \in Slots : /\ cache[s] # NoToken
                                     /\ got' = [got EXCEPT ![o] = cache[s]]
                                     /\ pc[o] \in {"check", "locked"}
    /\ pc'[o] = "deliver" => got'[o] \in Ops
    /\ Kind[o] = "bearer" /\ pc'[o] = "ok" => /\ pc[o] = "deliver"
                                             /\ built'[o] = epoch
                                             /\ got' = got

QuietKeep(o) ==
    KeepFlow(o)' => (KeepFlow(o) /\ fence'[o] = fence[o]) \/ registry # Nobody

Quiet(o) ==
    /\ UNCHANGED <<epoch, registry, cache, deletedAt, emptiedAt, replacedAt>>
    /\ secret' \in [Ops -> Ops \cup {Boot, NoToken}]
    /\ retried' \in [Ops -> BOOLEAN]
    /\ QuietPC(o) /\ QuietKeyring(o) /\ QuietAccount(o) /\ QuietToken(o) /\ QuietKeep(o)

QuietAction(o) ==
    \/ SignIn(o) \/ InteractiveForScopes(o) \/ BuildClient(o)
    \/ \E a \in Accounts : \/ Reauthenticate(o, a) \/ RestoreSession(o, a)
                           \/ SignOut(o, a) \/ ForgetPrevious(o, a)
    \/ Bearer(o) \/ BrowserEnds(o) \/ Save(o)
    \/ CheckSlot(o) \/ Lock(o) \/ Capture(o) \/ Load(o) \/ Post(o)
    \/ Purge(o) \/ Superseded(o) \/ Deliver(o) \/ DropMismatched(o)
    \/ ForgetDelete(o)

\* Every action that is called quiet is quiet.
LEMMA QuietActions ==
    ASSUME AuthInv, NEW o \in Ops, QuietAction(o)
    PROVE  Quiet(o)
<1> USE AuthAssumption DEF AuthInv, AuthTypeOK, Roles, Goto, Act, session, history, locals,
        KeyringFailure, HeldByAnother, Kinds, Acquiring, PC, StoredPC, Ending, Quiet, QuietPC,
        QuietKeyring, QuietAccount, QuietToken, QuietKeep, KeepFlow
<1>1. CASE SignIn(o)
  BY <1>1 DEF SignIn
<1>2. CASE InteractiveForScopes(o)
  BY <1>2 DEF InteractiveForScopes
<1>3. CASE BuildClient(o)
  BY <1>3 DEF BuildClient
<1>4. ASSUME NEW a \in Accounts, Reauthenticate(o, a) PROVE Quiet(o)
  BY <1>4 DEF Reauthenticate
<1>5. ASSUME NEW a \in Accounts, RestoreSession(o, a) PROVE Quiet(o)
  BY <1>5 DEF RestoreSession
<1>6. ASSUME NEW a \in Accounts, SignOut(o, a) PROVE Quiet(o)
  BY <1>6 DEF SignOut
<1>7. ASSUME NEW a \in Accounts, ForgetPrevious(o, a) PROVE Quiet(o)
  BY <1>7 DEF ForgetPrevious
<1>8. CASE Bearer(o)
  BY <1>8 DEF Bearer
<1>9. CASE BrowserEnds(o)
  BY <1>9 DEF BrowserEnds
<1>10. CASE Save(o)
  BY <1>10 DEF Save
<1>11. CASE CheckSlot(o)
  BY <1>11 DEF CheckSlot
<1>12. CASE Lock(o)
  BY <1>12 DEF Lock
<1>13. CASE Capture(o)
  BY <1>13 DEF Capture
<1>14. CASE Load(o)
  BY <1>14 DEF Load
<1>15. CASE Post(o)
  BY <1>15 DEF Post
<1>16. CASE Purge(o)
  BY <1>16 DEF Purge
<1>17. CASE Superseded(o)
  <2>1. /\ pc[o] = "superseded"
        /\ UNCHANGED <<session, who, fence, secret, built, got>>
        /\ \/ Goto(o, "load") /\ retried' = [retried EXCEPT ![o] = TRUE]
           \/ Goto(o, "failed") /\ UNCHANGED retried
    BY <1>17, Zenon DEF Superseded
  <2> QED
    BY <2>1
<1>18. CASE Deliver(o)
  BY <1>18 DEF Deliver
<1>19. CASE DropMismatched(o)
  BY <1>19 DEF DropMismatched
<1>20. CASE ForgetDelete(o)
  BY <1>20 DEF ForgetDelete
<1> QED
  BY <1>1, <1>2, <1>3, <1>4, <1>5, <1>6, <1>7, <1>8, <1>9, <1>10, <1>11, <1>12, <1>13, <1>14, <1>15, <1>16, <1>17, <1>18, <1>19, <1>20 DEF QuietAction
-----------------------------------------------------------------------------
(* The invariant.                                                          *)

\* A quiet step keeps a pending sweep pending.
LEMMA QuietSweep ==
    ASSUME AuthTypeOK, NEW o \in Ops, Quiet(o), SweepOwed
    PROVE  SweepOwed'
  BY DEF AuthTypeOK, Quiet, QuietPC, QuietAccount, SweepOwed

\* A quiet step keeps the invariant.
LEMMA QuietKeeps ==
    ASSUME AuthInv, NEW o \in Ops, Quiet(o)
    PROVE  AuthInv'
<1> USE DEF AuthInv
<1>a. SweepOwed => SweepOwed'
  BY QuietSweep
<1>b. \A p \in Ops : Stored(p) => who'[p] = who[p] /\ fence'[p] = fence[p]
  BY DEF StoredIsStable, Quiet, QuietAccount, AuthTypeOK
<1>1. AuthTypeOK'
  <2>1. /\ pc' \in [Ops -> PC] /\ who' \in [Ops -> Accounts] /\ fence' \in [Ops -> Nat]
        /\ built' \in [Ops -> Nat] /\ got' \in [Ops -> Ops \cup {NoToken}]
    BY DEF AuthTypeOK, Quiet, QuietPC, QuietAccount, QuietToken
  <2>2. keyring' \in [Accounts -> Ops \cup {Boot, NoToken}]
    BY DEF AuthTypeOK, Quiet, QuietKeyring
  <2>3. \A s \in Slots : cache'[s] # NoToken => SlotOf[cache'[s]] = s
    BY DEF AuthTypeOK, Quiet
  <2>4. ASSUME NEW a \in Accounts, keyring'[a] \in Ops PROVE who'[keyring'[a]] = a
    <3>1. CASE keyring'[a] = keyring[a]
      BY <1>b, <2>4, <3>1 DEF Stored, AuthTypeOK
    <3>2. CASE keyring'[a] # keyring[a]
      <4>1. who[o] = a /\ keyring'[a] = o /\ UNCHANGED who
        BY <2>4, <3>2, AuthAssumption DEF Quiet, QuietKeyring, QuietAccount, AuthTypeOK
      <4> QED
        BY <4>1
    <3> QED
      BY <3>1, <3>2
  <2> QED
    BY <2>1, <2>2, <2>3, <2>4 DEF AuthTypeOK, Quiet
<1>2. StoredIsStable'
  <2> SUFFICES ASSUME NEW p \in Ops, Stored(p)' PROVE pc'[p] \in StoredPC
    BY DEF StoredIsStable
  <2>1. CASE Stored(p)
    BY <2>1 DEF StoredIsStable, AuthTypeOK, Quiet, QuietPC
  <2>2. CASE ~ Stored(p)
    <3>1. \/ \E a \in Accounts : keyring'[a] = p
          \/ \E q \in Ops : got'[q] = p
      BY <2>2 DEF Stored, Quiet
    <3>2. CASE \E a \in Accounts : keyring'[a] = p
      <4>1. p = o /\ pc'[o] = "commit"
        BY <2>2, <3>2, AuthAssumption DEF Stored, AuthTypeOK, Quiet, QuietKeyring
      <4> QED
        BY <4>1 DEF StoredPC
    <3>3. CASE \E q \in Ops : got'[q] = p
      BY <2>2, <3>3 DEF Stored, AuthTypeOK, Quiet, QuietToken
    <3> QED
      BY <3>1, <3>2, <3>3
  <2> QED
    BY <2>1, <2>2
<1>3. EpochIsLatest'
  BY DEF EpochIsLatest, AuthTypeOK, Quiet, QuietAccount, QuietToken
<1>4. Roles'
  BY DEF Roles, AuthTypeOK, Quiet, QuietPC, QuietToken
<1>5. NoLateSave'
  BY <1>b, AuthAssumption DEF NoLateSave, AuthTypeOK, EpochIsLatest, Stored, Quiet, QuietKeyring, QuietAccount
<1>6. SlotsAreCurrent'
  BY <1>a, <1>b DEF SlotsAreCurrent, Stored, Quiet
<1>7. NoNewerSessionServed'
  BY <1>b DEF NoNewerSessionServed, Stored, EpochIsLatest, Roles, AuthTypeOK, Quiet, QuietPC, QuietToken
<1>8. EmptyWasEmptied'
  BY <1>a DEF EmptyWasEmptied, Quiet
<1>9. KeepsTheRegistered'
  BY DEF KeepsTheRegistered, KeepFlow, AuthTypeOK, Quiet, QuietPC, QuietAccount, QuietKeep
<1>10. SlotsOfOneAccount'
  BY <1>a, <1>b DEF SlotsOfOneAccount, Stored, AuthTypeOK, Quiet
<1> QED
  BY <1>1, <1>2, <1>3, <1>4, <1>5, <1>6, <1>7, <1>8, <1>9, <1>10
\* A sign-in's switch keeps the invariant: it empties what it fences off.
LEMMA SwitchKeeps ==
    ASSUME AuthInv, NEW o \in Ops, NEW a \in Accounts, SignInSwitch(o, a)
    PROVE  AuthInv'
<1> USE AuthAssumption DEF AuthInv, AuthTypeOK, Goto, Act, session, history, locals, PC
<1>1. AuthTypeOK'
  BY DEF SignInSwitch, StoredIsStable, Stored, StoredPC, NoSlots
<1>2. StoredIsStable'
  BY DEF SignInSwitch, StoredIsStable, Stored, StoredPC, NoSlots
<1>3. EpochIsLatest'
  BY DEF SignInSwitch, EpochIsLatest, NoSlots
<1>4. Roles'
  BY DEF SignInSwitch, Roles, Ending, NoSlots
<1>5. NoLateSave'
  BY DEF SignInSwitch, NoLateSave, StoredIsStable, Stored, StoredPC, EpochIsLatest, NoSlots
<1>6. SlotsAreCurrent'
  BY DEF SignInSwitch, SlotsAreCurrent, SweepOwed, StoredIsStable, Stored, StoredPC, NoSlots
<1>7. NoNewerSessionServed'
  BY DEF SignInSwitch, NoNewerSessionServed, Roles, StoredIsStable, Stored, StoredPC, NoSlots
<1>8. EmptyWasEmptied'
  BY DEF SignInSwitch, EmptyWasEmptied, SweepOwed, NoSlots
<1>9. KeepsTheRegistered'
  BY DEF SignInSwitch, KeepsTheRegistered, KeepFlow, EpochIsLatest, NoSlots
<1>10. SlotsOfOneAccount'
  BY DEF SignInSwitch, SlotsOfOneAccount, SweepOwed, StoredIsStable, Stored, StoredPC, NoSlots
<1> QED
  BY <1>1, <1>2, <1>3, <1>4, <1>5, <1>6, <1>7, <1>8, <1>9, <1>10

\* A commit keeps the invariant: the fence and the holder were checked.
LEMMA CommitKeeps ==
    ASSUME AuthInv, NEW o \in Ops, Commit(o)
    PROVE  AuthInv'
<1> USE AuthAssumption DEF AuthInv, AuthTypeOK, Goto, Act, session, history, locals, PC
<1>a. CASE Refused(o)
  <2>1. /\ pc' = [pc EXCEPT ![o] = "failed"] /\ pc[o] = "commit"
        /\ UNCHANGED <<session, who, fence, locals>>
    BY <1>a DEF Commit
  <2>2. SweepOwed' <=> SweepOwed
    BY <2>1 DEF SweepOwed
  <2>3. AuthTypeOK' /\ EpochIsLatest' /\ NoLateSave' /\ Roles' /\ StoredIsStable'
    BY <2>1 DEF EpochIsLatest, NoLateSave, Roles, Ending, StoredIsStable, Stored, StoredPC
  <2>4. SlotsAreCurrent' /\ EmptyWasEmptied' /\ SlotsOfOneAccount'
    BY <2>1, <2>2 DEF SlotsAreCurrent, EmptyWasEmptied, SlotsOfOneAccount
  <2>5. NoNewerSessionServed' /\ KeepsTheRegistered'
    BY <2>1 DEF NoNewerSessionServed, KeepsTheRegistered, KeepFlow
  <2> QED
    BY <2>3, <2>4, <2>5
<1>b. CASE ~ Refused(o)
  <2>1. /\ pc[o] = "commit" /\ epoch = fence[o]
        /\ Kind[o] = "sign_in" \/ registry = Nobody \/ who[registry] = who[o]
        /\ cache' = [cache EXCEPT ![SlotOf[o]] = o]
        /\ registry' = IF Kind[o] \in {"sign_in", "reauth", "restore"} THEN o ELSE registry
        /\ replacedAt' = IF Kind[o] = "sign_in" /\ HeldByAnother(who[o])
                         THEN epoch ELSE replacedAt
        /\ got' = [got EXCEPT ![o] = o]
        /\ pc' = [pc EXCEPT ![o] = IF Kind[o] = "bearer" THEN "deliver" ELSE "ok"]
        /\ UNCHANGED <<epoch, keyring, deletedAt, emptiedAt, who, fence, secret, retried, built>>
    BY <1>b DEF Commit, Refused, HeldByAnother
  <2>2. SweepOwed' <=> SweepOwed
    BY <2>1 DEF SweepOwed
  <2>3. Kind[o] \notin {"sign_out", "forget"}
    BY <2>1 DEF Roles, Ending
  <2>4. AuthTypeOK'
    BY <2>1
  <2>5. EpochIsLatest' /\ NoLateSave'
    BY <2>1 DEF EpochIsLatest, NoLateSave
  <2>6. Roles' /\ NoNewerSessionServed'
    BY <2>1 DEF Roles, Ending, NoNewerSessionServed
  <2>7. StoredIsStable'
    BY <2>1 DEF StoredIsStable, Stored, StoredPC
  <2>8. SlotsAreCurrent'
    BY <2>1, <2>2 DEF SlotsAreCurrent
  <2>9. KeepsTheRegistered'
    BY <2>1 DEF KeepsTheRegistered, KeepFlow
  <2>10. registry = Nobody /\ registry' = Nobody => emptiedAt = epoch
    BY <2>1, <2>3 DEF KeepsTheRegistered, KeepFlow, Kinds
  <2>11. EmptyWasEmptied'
    BY <2>1, <2>10 DEF EmptyWasEmptied
  <2>12. SlotsOfOneAccount'
    <3> SUFFICES ASSUME NEW s \in Slots, cache'[s] # NoToken, registry' # Nobody,
                        who[cache'[s]] # who[registry']
                 PROVE  emptiedAt = epoch \/ replacedAt' = epoch \/ SweepOwed
      BY <2>1, <2>2 DEF SlotsOfOneAccount
    <3>1. CASE registry = Nobody
      <4>1. registry' = o /\ s # SlotOf[o] /\ cache[s] # NoToken
        BY <2>1, <3>1
      <4> QED
        BY <3>1, <4>1 DEF EmptyWasEmptied, NoSlots
    <3>2. CASE registry # Nobody /\ who[registry] # who[o]
      BY <2>1, <3>2 DEF HeldByAnother
    <3>3. CASE registry # Nobody /\ who[registry] = who[o]
      <4>1. who[registry'] = who[registry] /\ s # SlotOf[o] /\ cache'[s] = cache[s]
        BY <2>1, <3>3
      <4> QED
        BY <2>1, <3>3, <4>1 DEF SlotsOfOneAccount, HeldByAnother
    <3> QED
      BY <3>1, <3>2, <3>3
  <2> QED
    BY <2>4, <2>5, <2>6, <2>7, <2>8, <2>9, <2>11, <2>12
<1> QED
  BY <1>a, <1>b

\* Dropping the slots keeps the invariant.
LEMMA RefreshKeeps ==
    ASSUME AuthInv, NEW o \in Ops, RefreshSession(o)
    PROVE  AuthInv'
<1> USE AuthAssumption DEF AuthInv, AuthTypeOK, Goto, Act, session, history, locals, PC
<1>1. AuthTypeOK'
  BY DEF RefreshSession, StoredIsStable, Stored, StoredPC, NoSlots
<1>2. StoredIsStable'
  BY DEF RefreshSession, StoredIsStable, Stored, StoredPC, NoSlots
<1>3. EpochIsLatest'
  BY DEF RefreshSession, EpochIsLatest, NoSlots
<1>4. Roles'
  BY DEF RefreshSession, Roles, Ending, NoSlots
<1>5. NoLateSave'
  BY DEF RefreshSession, NoLateSave, StoredIsStable, Stored, StoredPC, EpochIsLatest, NoSlots
<1>6. SlotsAreCurrent'
  BY DEF RefreshSession, SlotsAreCurrent, SweepOwed, StoredIsStable, Stored, StoredPC, NoSlots
<1>7. NoNewerSessionServed'
  BY DEF RefreshSession, NoNewerSessionServed, Roles, StoredIsStable, Stored, StoredPC, NoSlots
<1>8. EmptyWasEmptied'
  BY DEF RefreshSession, EmptyWasEmptied, SweepOwed, NoSlots
<1>9. KeepsTheRegistered'
  BY DEF RefreshSession, KeepsTheRegistered, KeepFlow, EpochIsLatest, NoSlots
<1>10. SlotsOfOneAccount'
  BY DEF RefreshSession, SlotsOfOneAccount, SweepOwed, StoredIsStable, Stored, StoredPC, NoSlots
<1> QED
  BY <1>1, <1>2, <1>3, <1>4, <1>5, <1>6, <1>7, <1>8, <1>9, <1>10

\* A dead-session purge keeps the invariant.
LEMMA UnregisterKeeps ==
    ASSUME AuthInv, NEW o \in Ops, Unregister(o)
    PROVE  AuthInv'
<1> USE AuthAssumption DEF AuthInv, AuthTypeOK, Goto, Act, session, history, locals, PC
<1>1. AuthTypeOK'
  BY DEF Unregister, StoredIsStable, Stored, StoredPC, NoSlots
<1>2. StoredIsStable'
  BY DEF Unregister, StoredIsStable, Stored, StoredPC, NoSlots
<1>3. EpochIsLatest'
  BY DEF Unregister, EpochIsLatest, NoSlots
<1>4. Roles'
  BY DEF Unregister, Roles, Ending, NoSlots
<1>5. NoLateSave'
  BY DEF Unregister, NoLateSave, StoredIsStable, Stored, StoredPC, EpochIsLatest, NoSlots
<1>6. SlotsAreCurrent'
  BY DEF Unregister, SlotsAreCurrent, SweepOwed, StoredIsStable, Stored, StoredPC, NoSlots
<1>7. NoNewerSessionServed'
  BY DEF Unregister, NoNewerSessionServed, Roles, StoredIsStable, Stored, StoredPC, NoSlots
<1>8. EmptyWasEmptied'
  BY DEF Unregister, EmptyWasEmptied, SweepOwed, NoSlots
<1>9. KeepsTheRegistered'
  BY DEF Unregister, KeepsTheRegistered, KeepFlow, EpochIsLatest, NoSlots
<1>10. SlotsOfOneAccount'
  BY DEF Unregister, SlotsOfOneAccount, SweepOwed, StoredIsStable, Stored, StoredPC, NoSlots
<1> QED
  BY <1>1, <1>2, <1>3, <1>4, <1>5, <1>6, <1>7, <1>8, <1>9, <1>10

\* A sign-out's delete keeps the invariant: it owes a sweep.
LEMMA DeleteKeeps ==
    ASSUME AuthInv, NEW o \in Ops, SignOutDelete(o)
    PROVE  AuthInv'
<1> USE AuthAssumption DEF AuthInv, AuthTypeOK, Goto, Act, session, history, locals, PC
<1>1. AuthTypeOK'
  BY DEF SignOutDelete, StoredIsStable, Stored, StoredPC, KeyringFailure
<1>2. StoredIsStable'
  BY DEF SignOutDelete, StoredIsStable, Stored, StoredPC, KeyringFailure
<1>3. EpochIsLatest'
  BY DEF SignOutDelete, EpochIsLatest, KeyringFailure
<1>4. Roles'
  BY DEF SignOutDelete, Roles, Ending, KeyringFailure
<1>5. NoLateSave'
  BY DEF SignOutDelete, NoLateSave, StoredIsStable, Stored, StoredPC, EpochIsLatest, KeyringFailure
<1>6. SlotsAreCurrent'
  BY DEF SignOutDelete, SlotsAreCurrent, SweepOwed, StoredIsStable, Stored, StoredPC, KeyringFailure
<1>7. NoNewerSessionServed'
  BY DEF SignOutDelete, NoNewerSessionServed, Roles, StoredIsStable, Stored, StoredPC, KeyringFailure
<1>8. EmptyWasEmptied'
  BY DEF SignOutDelete, EmptyWasEmptied, SweepOwed, KeyringFailure
<1>9. KeepsTheRegistered'
  BY DEF SignOutDelete, KeepsTheRegistered, KeepFlow, EpochIsLatest, KeyringFailure
<1>10. SlotsOfOneAccount'
  BY DEF SignOutDelete, SlotsOfOneAccount, SweepOwed, StoredIsStable, Stored, StoredPC, KeyringFailure
<1> QED
  BY <1>1, <1>2, <1>3, <1>4, <1>5, <1>6, <1>7, <1>8, <1>9, <1>10

\* The sweep keeps the invariant.
LEMMA SweepKeeps ==
    ASSUME AuthInv, NEW o \in Ops, Sweep(o)
    PROVE  AuthInv'
<1> USE AuthAssumption DEF AuthInv, AuthTypeOK, Goto, Act, session, history, locals, PC
<1>1. AuthTypeOK'
  BY DEF Sweep, StoredIsStable, Stored, StoredPC, NoSlots
<1>2. StoredIsStable'
  BY DEF Sweep, StoredIsStable, Stored, StoredPC, NoSlots
<1>3. EpochIsLatest'
  BY DEF Sweep, EpochIsLatest, NoSlots
<1>4. Roles'
  BY DEF Sweep, Roles, Ending, NoSlots
<1>5. NoLateSave'
  BY DEF Sweep, NoLateSave, StoredIsStable, Stored, StoredPC, EpochIsLatest, NoSlots
<1>6. SlotsAreCurrent'
  BY DEF Sweep, SlotsAreCurrent, SweepOwed, StoredIsStable, Stored, StoredPC, NoSlots
<1>7. NoNewerSessionServed'
  BY DEF Sweep, NoNewerSessionServed, Roles, StoredIsStable, Stored, StoredPC, NoSlots
<1>8. EmptyWasEmptied'
  BY DEF Sweep, EmptyWasEmptied, SweepOwed, NoSlots
<1>9. KeepsTheRegistered'
  BY DEF Sweep, KeepsTheRegistered, KeepFlow, EpochIsLatest, NoSlots
<1>10. SlotsOfOneAccount'
  BY DEF Sweep, SlotsOfOneAccount, SweepOwed, StoredIsStable, Stored, StoredPC, NoSlots
<1> QED
  BY <1>1, <1>2, <1>3, <1>4, <1>5, <1>6, <1>7, <1>8, <1>9, <1>10

\* The invariant holds initially (EntraAuthService::new_in_cloud).
LEMMA AuthInit == Init => AuthInv
<1> SUFFICES ASSUME Init PROVE AuthInv
  OBVIOUS
<1> USE AuthAssumption DEF Init, NoSlots
<1>1. AuthTypeOK
  BY DEF AuthTypeOK, PC
<1>2. StoredIsStable
  BY <1>1 DEF AuthTypeOK, StoredIsStable, Stored
<1>3. EpochIsLatest /\ NoLateSave
  BY DEF EpochIsLatest, NoLateSave
<1>4. Roles /\ SlotsAreCurrent /\ NoNewerSessionServed
  BY DEF Roles, Ending, SlotsAreCurrent, NoNewerSessionServed
<1>5. EmptyWasEmptied /\ KeepsTheRegistered /\ SlotsOfOneAccount
  BY DEF EmptyWasEmptied, KeepsTheRegistered, KeepFlow, SlotsOfOneAccount
<1> QED
  BY <1>1, <1>2, <1>3, <1>4, <1>5 DEF AuthInv

\* Every step of every flow keeps the invariant.
LEMMA AuthStep == AuthInv /\ [Next]_vars => AuthInv'
<1> SUFFICES ASSUME AuthInv, [Next]_vars PROVE AuthInv'
  OBVIOUS
<1>1. CASE UNCHANGED vars
  BY <1>1 DEF vars, session, history, locals, AuthInv, AuthTypeOK, StoredIsStable, Stored,
     EpochIsLatest, Roles, NoLateSave, SlotsAreCurrent, NoNewerSessionServed,
     EmptyWasEmptied, KeepsTheRegistered, KeepFlow, SlotsOfOneAccount, SweepOwed
<1>2. ASSUME NEW o \in Ops, Begin(o) \/ Bearer(o) \/ Continue(o) PROVE AuthInv'
  <2>1. CASE QuietAction(o)
    BY <2>1, QuietActions, QuietKeeps
  <2>2. ASSUME NEW a \in Accounts, SignInSwitch(o, a) PROVE AuthInv'
    BY <2>2, SwitchKeeps
  <2>3. CASE Commit(o)
    BY <2>3, CommitKeeps
  <2>4. CASE RefreshSession(o)
    BY <2>4, RefreshKeeps
  <2>5. CASE Unregister(o)
    BY <2>5, UnregisterKeeps
  <2>6. CASE SignOutDelete(o)
    BY <2>6, DeleteKeeps
  <2>7. CASE Sweep(o)
    BY <2>7, SweepKeeps
  <2> QED
    BY <1>2, <2>1, <2>2, <2>3, <2>4, <2>5, <2>6, <2>7 DEF Begin, Continue, QuietAction
<1> QED
  BY <1>1, <1>2 DEF Next

\* The inductive invariant holds in every reachable state.
THEOREM AuthInvariance == Spec => []AuthInv
  BY AuthInit, AuthStep, PTL DEF Spec

\* Type correctness, with the two dependencies of AuthTypeOK: a slot never
\* holds a token of another scope set, nor a keyring entry another account's
\* (store_token_outcome, save_refresh_token_if).
THEOREM AuthTypes == Spec => []AuthTypeOK
<1>1. AuthInv => AuthTypeOK
  BY DEF AuthInv
<1> QED
  BY <1>1, AuthInvariance, PTL

\* A refresh token in the keyring was saved by a flow that began after the
\* account's last sign-out, for any number of flows in any interleaving
\* (save_refresh_token_if, delete_refresh_token_then).
THEOREM LateSavesAreRefused == Spec => []NoLateSave
<1>1. AuthInv => NoLateSave
  BY DEF AuthInv
<1> QED
  BY <1>1, AuthInvariance, PTL

\* No cached token and no registration outlives the session it was stored
\* under (store_token_outcome, sign_in, sweep_after_sign_out).
THEOREM SlotsStayCurrent == Spec => []SlotsAreCurrent
<1>1. AuthInv => SlotsAreCurrent
  BY DEF AuthInv
<1> QED
  BY <1>1, AuthInvariance, PTL

\* No client is served a token of a session later than the one it was built
\* under (ScopedTokenAdapter).
THEOREM ClientsKeepTheirSession == Spec => []NoNewerSessionServed
<1>1. AuthInv => NoNewerSessionServed
  BY DEF AuthInv
<1> QED
  BY <1>1, AuthInvariance, PTL

\* Cached tokens are the registered account's outside the three exceptions
\* that SlotsOfOneAccount names (held_by_another_account).
THEOREM OneAccountPerSession == Spec => []SlotsOfOneAccount
<1>1. AuthInv => SlotsOfOneAccount
  BY DEF AuthInv
<1> QED
  BY <1>1, AuthInvariance, PTL

\* Only its own action moves a flow on from a purge or from a sweep.
LEMMA OnlyPurgeLeavesPurge ==
    ASSUME AuthTypeOK, NEW o \in Ops, [Next]_vars
    PROVE  /\ pc[o] = "purge" /\ pc'[o] # "purge" => Purge(o)
           /\ pc[o] = "sweep" /\ pc'[o] # "sweep" => Sweep(o)
<1>1. CASE UNCHANGED vars
  BY <1>1 DEF vars
<1>2. ASSUME NEW p \in Ops, Begin(p) \/ Bearer(p) \/ Continue(p)
      PROVE  /\ pc[o] = "purge" /\ pc'[o] # "purge" => Purge(o)
             /\ pc[o] = "sweep" /\ pc'[o] # "sweep" => Sweep(o)
  <2>1. CASE p # o
    <3>1. \E to \in PC : pc' = [pc EXCEPT ![p] = to]
      <4>1. CASE Begin(p)
        BY <4>1 DEF Begin, SignIn, InteractiveForScopes, BuildClient, RefreshSession,
           Reauthenticate, RestoreSession, SignOut, ForgetPrevious, Goto, PC
      <4>2. CASE Bearer(p)
        BY <4>2 DEF Bearer, Goto, PC
      <4>3. CASE Continue(p)
        BY <4>3 DEF Continue, SignInSwitch, BrowserEnds, Save, Commit, CheckSlot, Lock,
           Capture, Load, Post, Purge, Superseded, Unregister, Deliver, DropMismatched,
           SignOutDelete, Sweep, ForgetDelete, Goto, PC
      <4> QED
        BY <1>2, <4>1, <4>2, <4>3
    <3> QED
      BY <2>1, <3>1 DEF AuthTypeOK
  <2>2. CASE p = o
    <3>1. Begin(p) => pc[p] = "idle"
      BY DEF Begin, SignIn, InteractiveForScopes, BuildClient, RefreshSession,
         Reauthenticate, RestoreSession, SignOut, ForgetPrevious
    <3>2. Bearer(p) => pc[p] = "built"
      BY DEF Bearer
    <3>3. Continue(p) => Purge(p) \/ Sweep(p) \/ pc[p] \notin {"purge", "sweep"}
      BY DEF Continue, SignInSwitch, BrowserEnds, Save, Commit, CheckSlot, Lock, Capture,
         Load, Post, Superseded, Unregister, Deliver, DropMismatched, SignOutDelete,
         ForgetDelete
    <3>4. (Purge(p) => pc[p] = "purge") /\ (Sweep(p) => pc[p] = "sweep")
      BY DEF Purge, Sweep
    <3> QED
      BY <1>2, <2>2, <3>1, <3>2, <3>3, <3>4
  <2> QED
    BY <2>1, <2>2
<1> QED
  BY <1>1, <1>2 DEF Next

\* A purge after invalid_grant deletes the rejected token or nothing
\* (delete_refresh_token_if_current).
THEOREM PurgesSpareNewer == Spec => PurgeSparesNewer
<1> DEFINE Kept == \A o \in Ops : pc[o] = "purge" /\ pc'[o] # "purge" =>
          \A a \in Accounts : keyring[a] # secret[o] => keyring'[a] = keyring[a]
<1>1. AuthInv /\ [Next]_vars => Kept
  <2> SUFFICES ASSUME AuthInv, [Next]_vars, NEW o \in Ops, pc[o] = "purge", pc'[o] # "purge",
                      NEW a \in Accounts, keyring[a] # secret[o]
               PROVE  keyring'[a] = keyring[a]
    OBVIOUS
  <2>1. Purge(o)
    BY OnlyPurgeLeavesPurge DEF AuthInv
  <2> QED
    BY <2>1 DEF Purge, AuthInv, AuthTypeOK
<1>2. AuthInv /\ [Next]_vars => [Kept]_vars
  BY <1>1
<1> QED
  BY <1>2, AuthInvariance, PTL DEF Spec, PurgeSparesNewer

\* A sign-out's sweep never touches a later session (sweep_after_sign_out).
THEOREM SweepsSpareNewer == Spec => SweepSparesNewer
<1> DEFINE Spared == \A o \in Ops : pc[o] = "sweep" /\ pc'[o] # "sweep" =>
          /\ registry # Nobody /\ fence[registry] > fence[o] => registry' = registry
          /\ \A s \in Slots : cache[s] # NoToken /\ fence[cache[s]] > fence[o]
                                => cache'[s] = cache[s]
<1>1. AuthInv /\ [Next]_vars => Spared
  <2> SUFFICES ASSUME AuthInv, [Next]_vars, NEW o \in Ops, pc[o] = "sweep", pc'[o] # "sweep"
               PROVE  /\ registry # Nobody /\ fence[registry] > fence[o] => registry' = registry
                      /\ \A s \in Slots : cache[s] # NoToken /\ fence[cache[s]] > fence[o]
                                            => cache'[s] = cache[s]
    OBVIOUS
  <2>1. Sweep(o)
    BY OnlyPurgeLeavesPurge DEF AuthInv
  <2> QED
    BY <2>1 DEF Sweep, AuthInv, AuthTypeOK, EpochIsLatest
<1>2. AuthInv /\ [Next]_vars => [Spared]_vars
  BY <1>1
<1> QED
  BY <1>2, AuthInvariance, PTL DEF Spec, SweepSparesNewer
=============================================================================
