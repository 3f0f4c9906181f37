---------------------------- MODULE AuthSession -----------------------------
(***************************************************************************)
(* The session of crates/azapptoolkit-auth/src/service/mod.rs for the one  *)
(* tenant the application is configured for.                               *)
(*                                                                         *)
(* Four pieces of state describe a session: the registration of an account *)
(* (known_tenants), the access tokens cached per scope set, the refresh    *)
(* token in the operating system's credential store, and the epoch that    *)
(* sign_in and sign_out move.  They are guarded by two locks that are      *)
(* never held together: the registry's, under which slots are also swept,  *)
(* and the credential store's (CHUNK_SET_LOCK).  Every flow waits between  *)
(* them, for a browser, the token endpoint or the blocking pool, and the   *)
(* epoch it captured (its fence) is how it learns what it missed.          *)
(*                                                                         *)
(* A flow is a member of Ops and runs once; each step is one critical      *)
(* section.  A token is named by the flow that stored it, so its owner is  *)
(* that flow's account and its session that flow's fence.                  *)
(*                                                                         *)
(* A definition whose comment begins with "Fault:" is a seeded bug, never  *)
(* part of Next: the definition after it, replaced by it, must be caught.  *)
(***************************************************************************)
EXTENDS Naturals

CONSTANTS
    Accounts,   \* accounts of the tenant (oids)
    Slots,      \* scope sets, each with its cache slot and refresh lock
    ReadSlot,   \* default_graph_read_scopes
    Ops,        \* flows
    Kind,       \* [Ops -> Kinds]
    SlotOf,     \* [Ops -> Slots]
    Boot,       \* a refresh token an earlier process stored
    NoToken,    \* nothing in a slot or under a keyring entry
    Nobody      \* nothing registered

Kinds == {"sign_in", "sign_out", "restore", "reauth", "interactive",
          "bearer", "refresh", "forget"}

\* The flows that run through acquire_token, under their scope set's lock.
Acquiring == {"restore", "bearer", "refresh"}

ASSUME AuthAssumption ==
    /\ Accounts # {}
    /\ ReadSlot \in Slots
    /\ Kind \in [Ops -> Kinds]
    /\ SlotOf \in [Ops -> Slots]
    /\ \A o \in Ops : Kind[o] \in {"sign_in", "restore", "reauth", "refresh"}
                        => SlotOf[o] = ReadSlot
    /\ Boot \notin Ops /\ NoToken \notin Ops /\ Nobody \notin Ops
    /\ Boot # NoToken

VARIABLES
    epoch,     \* session_epoch
    registry,  \* the flow that registered the tenant, or Nobody
    cache,     \* [Slots -> the flow whose access token it holds, or NoToken]
    keyring,   \* [Accounts -> the flow that saved its refresh token, ...]
    pc,        \* where each flow is
    who,       \* the account a flow acts for
    fence,     \* the epoch a flow captured (sign_out: the epoch it made)
    secret,    \* the refresh token an acquisition loaded
    retried,   \* retried_superseded
    built,     \* ScopedTokenAdapter::epoch
    got,       \* the access token an acquisition returns
    deletedAt, \* history: the epoch the last sign-out of an account made
    emptiedAt, \* history: the epoch in which a purge or a sweep last emptied
               \* the registry
    replacedAt \* history: the epoch in which a sign-in last replaced another
               \* account's registration

history == <<deletedAt, emptiedAt, replacedAt>>
session == <<epoch, registry, cache, keyring, history>>
locals == <<secret, retried, built, got>>
vars == <<session, pc, who, fence, locals>>

-----------------------------------------------------------------------------
Goto(o, to) == pc' = [pc EXCEPT ![o] = to]

\* The flow holds the refresh lock of its scope set: the guard lives until
\* acquire_token returns.
Refreshing(o) ==
    /\ Kind[o] \in Acquiring
    /\ pc[o] \in {"locked", "capture", "load", "post", "purge", "superseded",
                  "unregister", "save", "commit"}

\* held_by_another_account
HeldByAnother(a) == registry # Nobody /\ who[registry] # a

\* cache.invalidate_tenant
NoSlots == [s \in Slots |-> NoToken]

\* What a fallible keyring write or delete of a's entry may leave when it
\* fails: the entry untouched (refused at chunk 0), or nothing loadable.
KeyringFailure(a) == {keyring, [keyring EXCEPT ![a] = NoToken]}

\* The account of a context the front end or settings.json supplies: any.
Act(o, a, e) ==
    /\ who' = [who EXCEPT ![o] = a]
    /\ fence' = [fence EXCEPT ![o] = e]

-----------------------------------------------------------------------------
(* Interactive flows: a browser round trip, then store_token_outcome.      *)

\* sign_in, to the browser.
SignIn(o) ==
    /\ Kind[o] = "sign_in" /\ pc[o] = "idle"
    /\ Goto(o, "browser")
    /\ UNCHANGED <<session, who, fence, locals>>

\* Fault: the previous account's slots stay.
SignInSwitchKeepsSlots(o, a) ==
    /\ Kind[o] = "sign_in" /\ pc[o] = "browser"
    /\ registry' = Nobody
    /\ epoch' = epoch + 1
    /\ Act(o, a, epoch + 1)
    /\ Goto(o, "save")
    /\ UNCHANGED <<cache, keyring, history, locals>>

\* sign_in, after the picker returned account a: one critical section sweeps
\* the tenant and moves the epoch.
SignInSwitch(o, a) ==
    /\ Kind[o] = "sign_in" /\ pc[o] = "browser"
    /\ cache' = NoSlots
    /\ registry' = Nobody
    /\ epoch' = epoch + 1
    /\ Act(o, a, epoch + 1)
    /\ Goto(o, "save")
    /\ UNCHANGED <<keyring, history, locals>>

\* reauthenticate for a context of account a.
Reauthenticate(o, a) ==
    /\ Kind[o] = "reauth" /\ pc[o] = "idle"
    /\ IF HeldByAnother(a)
       THEN Goto(o, "failed") /\ UNCHANGED <<who, fence>>
       ELSE Goto(o, "browser") /\ Act(o, a, epoch)
    /\ UNCHANGED <<session, locals>>

\* interactive_for_scopes: consent_for_scopes and step_up_for_scopes.
InteractiveForScopes(o) ==
    /\ Kind[o] = "interactive" /\ pc[o] = "idle"
    /\ IF registry = Nobody
       THEN Goto(o, "failed") /\ UNCHANGED <<who, fence>>
       ELSE Goto(o, "browser") /\ Act(o, who[registry], epoch)
    /\ UNCHANGED <<session, locals>>

\* The round trip ends: cancelled, timed out (REDIRECT_WAIT) or refused by
\* ensure_same_identity; or, for a flow that has its fence, with a token.
BrowserEnds(o) ==
    /\ pc[o] = "browser"
    /\ \/ Goto(o, "failed")
       \/ Kind[o] # "sign_in" /\ Goto(o, "save")
    /\ UNCHANGED <<session, who, fence, locals>>

-----------------------------------------------------------------------------
(* store_token_outcome.                                                    *)

\* Fault: the keyring write is not fenced.
SaveUnfenced(o) ==
    /\ pc[o] = "save"
    /\ keyring' = [keyring EXCEPT ![who[o]] = o]
    /\ Goto(o, "commit")
    /\ UNCHANGED <<epoch, registry, cache, history, who, fence, locals>>

\* save_refresh_token_if, under the keyring's lock.  A response without a
\* refresh token skips it.  A refused write fails an interactive flow
\* (RefreshTokenSave::Required) and only costs a silent one its rotation.
Save(o) ==
    /\ pc[o] = "save"
    /\ \/ Goto(o, "commit") /\ UNCHANGED keyring
       \/ /\ epoch # fence[o]
          /\ Goto(o, "failed")
          /\ UNCHANGED keyring
       \/ /\ epoch = fence[o]
          /\ keyring' = [keyring EXCEPT ![who[o]] = o]
          /\ Goto(o, "commit")
       \/ /\ epoch = fence[o]
          /\ keyring' \in KeyringFailure(who[o])
          /\ \/ Goto(o, "failed")
             \/ Kind[o] \in Acquiring /\ Goto(o, "commit")
    /\ UNCHANGED <<epoch, registry, cache, history, who, fence, locals>>

\* Fault: nobody looks whose the tenant is.
RefusedByFenceOnly(o) == epoch # fence[o]

\* The two refusals of the registry's critical section.
Refused(o) ==
    \/ epoch # fence[o]
    \/ Kind[o] # "sign_in" /\ HeldByAnother(who[o])

\* The registry's critical section: cache.put, and registry.insert for the
\* flows that register (Registration::Replace and Registration::Claim).
Commit(o) ==
    /\ pc[o] = "commit"
    /\ IF Refused(o)
       THEN Goto(o, "failed") /\ UNCHANGED <<cache, registry, got, replacedAt>>
       ELSE /\ cache' = [cache EXCEPT ![SlotOf[o]] = o]
            /\ registry' = IF Kind[o] \in {"sign_in", "reauth", "restore"}
                           THEN o ELSE registry
            /\ replacedAt' = IF Kind[o] = "sign_in" /\ HeldByAnother(who[o])
                             THEN epoch ELSE replacedAt
            /\ got' = [got EXCEPT ![o] = o]
            /\ Goto(o, IF Kind[o] = "bearer" THEN "deliver" ELSE "ok")
    /\ UNCHANGED <<epoch, keyring, deletedAt, emptiedAt, who, fence, secret, retried, built>>

-----------------------------------------------------------------------------
(* acquire_token: the silent flows.                                        *)

\* ScopedTokenAdapter::new_cae captures the epoch with the client.
BuildClient(o) ==
    /\ Kind[o] = "bearer" /\ pc[o] = "idle"
    /\ built' = [built EXCEPT ![o] = epoch]
    /\ Goto(o, "built")
    /\ UNCHANGED <<session, who, fence, secret, retried, got>>

\* BearerProvider::bearer: require_live_session, then the acquisition.
Bearer(o) ==
    /\ pc[o] = "built"
    /\ Goto(o, IF epoch = built[o] THEN "check" ELSE "failed")
    /\ UNCHANGED <<session, who, fence, locals>>

\* refresh_session drops every slot, without the registry's lock.
RefreshSession(o) ==
    /\ Kind[o] = "refresh" /\ pc[o] = "idle"
    /\ cache' = NoSlots
    /\ Goto(o, "check")
    /\ UNCHANGED <<epoch, registry, keyring, history, who, fence, locals>>

\* restore_session for the remembered account a: a registered tenant is
\* returned as it is.
RestoreSession(o, a) ==
    /\ Kind[o] = "restore" /\ pc[o] = "idle"
    /\ IF registry # Nobody
       THEN Goto(o, "ok") /\ UNCHANGED <<who, fence>>
       ELSE Goto(o, "lock") /\ Act(o, a, epoch)
    /\ UNCHANGED <<session, locals>>

\* A cached token that is fresh enough is returned; a stale one, a claims
\* challenge or an empty slot goes on.  Before and after the lock alike.
CheckSlot(o) ==
    /\ \/ pc[o] = "check"
       \/ pc[o] = "locked" /\ Kind[o] # "restore"
    /\ \/ /\ cache[SlotOf[o]] # NoToken
          /\ got' = [got EXCEPT ![o] = cache[SlotOf[o]]]
          /\ Goto(o, IF Kind[o] = "bearer" THEN "deliver" ELSE "ok")
       \/ /\ Goto(o, IF pc[o] = "check" THEN "lock" ELSE "capture")
          /\ UNCHANGED got
    /\ UNCHANGED <<session, who, fence, secret, retried, built>>

\* refresh_lock_for(...).lock()
Lock(o) ==
    /\ pc[o] = "lock"
    /\ \A p \in Ops : SlotOf[p] = SlotOf[o] => ~ Refreshing(p)
    /\ Goto(o, "locked")
    /\ UNCHANGED <<session, who, fence, locals>>

\* Fault: a tenant that is not registered is waited for.
CaptureWaits(o) ==
    /\ pc[o] = "capture"
    /\ registry # Nobody
    /\ Act(o, who[registry], epoch)
    /\ Goto(o, "load")
    /\ UNCHANGED <<session, locals>>

\* The account and the fence, in one critical section of the registry.
Capture(o) ==
    /\ pc[o] = "capture"
    /\ IF registry = Nobody
       THEN Goto(o, "failed") /\ UNCHANGED <<who, fence>>
       ELSE Act(o, who[registry], epoch) /\ Goto(o, "load")
    /\ UNCHANGED <<session, locals>>

\* load_refresh_token; a restore brings its account and fence along.
Load(o) ==
    /\ \/ pc[o] = "load"
       \/ pc[o] = "locked" /\ Kind[o] = "restore"
    /\ \/ Goto(o, "failed") /\ UNCHANGED secret
       \/ /\ keyring[who[o]] # NoToken
          /\ secret' = [secret EXCEPT ![o] = keyring[who[o]]]
          /\ Goto(o, "post")
    /\ UNCHANGED <<session, who, fence, retried, built, got>>

\* The token endpoint answers: a token, invalid_grant, or an error that
\* leaves everything alone.  A restore's id token may name someone else.
Post(o) ==
    /\ pc[o] = "post"
    /\ \/ Goto(o, "save")
       \/ Goto(o, "purge")
       \/ Goto(o, "failed")
       \/ Kind[o] = "restore" /\ Goto(o, "mismatch")
    /\ UNCHANGED <<session, who, fence, locals>>

\* Fault: invalid_grant deletes whatever is stored.
PurgeAnything(o) ==
    /\ pc[o] = "purge"
    /\ keyring' \in {[keyring EXCEPT ![who[o]] = NoToken], keyring}
    /\ Goto(o, "unregister")
    /\ UNCHANGED <<epoch, registry, cache, history, who, fence, locals>>

\* delete_refresh_token_if_current: only the rejected token is deleted.  A
\* keyring error is ignored, and taken for a dead session.
Purge(o) ==
    /\ pc[o] = "purge"
    /\ \/ /\ keyring[who[o]] \notin {NoToken, secret[o]}
          /\ Goto(o, "superseded")
          /\ UNCHANGED keyring
       \/ /\ keyring[who[o]] \in {NoToken, secret[o]}
          /\ keyring' = [keyring EXCEPT ![who[o]] = NoToken]
          /\ Goto(o, "unregister")
       \/ Goto(o, "unregister") /\ UNCHANGED keyring
    /\ UNCHANGED <<epoch, registry, cache, history, who, fence, locals>>

\* A newer token is stored: one retry with it, if the session is the same.
Superseded(o) ==
    /\ pc[o] = "superseded"
    /\ IF epoch = fence[o] /\ ~ retried[o]
       THEN Goto(o, "load") /\ retried' = [retried EXCEPT ![o] = TRUE]
       ELSE Goto(o, "failed") /\ UNCHANGED retried
    /\ UNCHANGED <<session, who, fence, secret, built, got>>

\* The session is dead: its slots and registration go, unless the epoch moved.
Unregister(o) ==
    /\ pc[o] = "unregister"
    /\ IF epoch = fence[o]
       THEN cache' = NoSlots /\ registry' = Nobody /\ emptiedAt' = epoch
       ELSE UNCHANGED <<cache, registry, emptiedAt>>
    /\ Goto(o, "failed")
    /\ UNCHANGED <<epoch, keyring, deletedAt, replacedAt, who, fence, locals>>

\* Fault: the adapter does not look again after the wait.
DeliverUnchecked(o) ==
    /\ pc[o] = "deliver"
    /\ Goto(o, "ok")
    /\ UNCHANGED <<session, who, fence, locals>>

\* BearerProvider::bearer: require_live_session again.
Deliver(o) ==
    /\ pc[o] = "deliver"
    /\ Goto(o, IF epoch = built[o] THEN "ok" ELSE "failed")
    /\ UNCHANGED <<session, who, fence, locals>>

\* restore_session after a proven mismatch: delete_refresh_token_if.
DropMismatched(o) ==
    /\ pc[o] = "mismatch"
    /\ IF epoch = fence[o]
       THEN keyring' \in KeyringFailure(who[o])
       ELSE UNCHANGED keyring
    /\ Goto(o, "failed")
    /\ UNCHANGED <<epoch, registry, cache, history, who, fence, locals>>

-----------------------------------------------------------------------------
(* Ending a session.                                                       *)

\* sign_out for a context of account a: whose token to delete.
SignOut(o, a) ==
    /\ Kind[o] = "sign_out" /\ pc[o] = "idle"
    /\ who' = [who EXCEPT ![o] = IF registry = Nobody THEN a ELSE who[registry]]
    /\ Goto(o, "delete")
    /\ UNCHANGED <<session, fence, locals>>

\* delete_refresh_token_then: the epoch moves with the delete.
SignOutDelete(o) ==
    /\ pc[o] = "delete"
    /\ \/ /\ keyring' = [keyring EXCEPT ![who[o]] = NoToken]
          /\ epoch' = epoch + 1
          /\ fence' = [fence EXCEPT ![o] = epoch + 1]
          /\ deletedAt' = [deletedAt EXCEPT ![who[o]] = epoch + 1]
          /\ Goto(o, "sweep")
       \/ /\ keyring' \in KeyringFailure(who[o])
          /\ Goto(o, "failed")
          /\ UNCHANGED <<epoch, fence, deletedAt>>
    /\ UNCHANGED <<registry, cache, emptiedAt, replacedAt, who, locals>>

\* Fault: the sweep does not look whether the epoch moved again.
SweepAlways(o) ==
    /\ pc[o] = "sweep"
    /\ cache' = NoSlots /\ registry' = Nobody /\ emptiedAt' = epoch
    /\ Goto(o, "out")
    /\ UNCHANGED <<epoch, keyring, deletedAt, replacedAt, who, fence, locals>>

\* sweep_after_sign_out
Sweep(o) ==
    /\ pc[o] = "sweep"
    /\ IF epoch = fence[o]
       THEN cache' = NoSlots /\ registry' = Nobody /\ emptiedAt' = epoch
       ELSE UNCHANGED <<cache, registry, emptiedAt>>
    /\ Goto(o, "out")
    /\ UNCHANGED <<epoch, keyring, deletedAt, replacedAt, who, fence, locals>>

\* forget_previous_account of account a: a no-op for the live account.
ForgetPrevious(o, a) ==
    /\ Kind[o] = "forget" /\ pc[o] = "idle"
    /\ IF registry # Nobody /\ who[registry] = a
       THEN Goto(o, "ok") /\ UNCHANGED who
       ELSE Goto(o, "forget") /\ who' = [who EXCEPT ![o] = a]
    /\ UNCHANGED <<session, fence, locals>>

\* delete_refresh_token
ForgetDelete(o) ==
    /\ pc[o] = "forget"
    /\ keyring' \in KeyringFailure(who[o])
    /\ Goto(o, "ok")
    /\ UNCHANGED <<epoch, registry, cache, history, who, fence, locals>>

-----------------------------------------------------------------------------
Init ==
    /\ epoch = 1
    /\ registry = Nobody
    /\ cache = NoSlots
    /\ keyring \in [Accounts -> {NoToken, Boot}]
    /\ pc = [o \in Ops |-> "idle"]
    /\ who = [o \in Ops |-> CHOOSE a \in Accounts : TRUE]
    /\ fence = [o \in Ops |-> 0]
    /\ secret = [o \in Ops |-> NoToken]
    /\ retried = [o \in Ops |-> FALSE]
    /\ built = [o \in Ops |-> 0]
    /\ got = [o \in Ops |-> NoToken]
    /\ deletedAt = [a \in Accounts |-> 0]
    /\ emptiedAt = 0
    /\ replacedAt = 0

Begin(o) ==
    \/ SignIn(o) \/ InteractiveForScopes(o) \/ BuildClient(o) \/ RefreshSession(o)
    \/ \E a \in Accounts : \/ Reauthenticate(o, a) \/ RestoreSession(o, a)
                           \/ SignOut(o, a) \/ ForgetPrevious(o, a)

Continue(o) ==
    \/ \E a \in Accounts : SignInSwitch(o, a)
    \/ BrowserEnds(o) \/ Save(o) \/ Commit(o)
    \/ CheckSlot(o) \/ Lock(o) \/ Capture(o) \/ Load(o) \/ Post(o)
    \/ Purge(o) \/ Superseded(o) \/ Unregister(o) \/ Deliver(o) \/ DropMismatched(o)
    \/ SignOutDelete(o) \/ Sweep(o) \/ ForgetDelete(o)

Next == \E o \in Ops : Begin(o) \/ Bearer(o) \/ Continue(o)

Spec == Init /\ [][Next]_vars

\* A started flow goes on: the browser wait and the token request have
\* timeouts, the blocking pool runs what it is given, and the refresh lock is
\* handed on.  Nothing obliges the operator to start a flow, or a client to
\* ask for a token.
FairSpec == Spec /\ \A o \in Ops : WF_vars(Continue(o))

-----------------------------------------------------------------------------
(* Properties.                                                             *)

PC == {"idle", "browser", "save", "commit", "built", "check", "lock", "locked",
       "capture", "load", "post", "purge", "superseded", "unregister", "deliver",
       "mismatch", "delete", "sweep", "forget", "ok", "out", "failed"}

\* The type invariant: the session's four pieces of state and the local state
\* of every flow have the shapes of the code's types; a slot holds a token of
\* its own scope set, a keyring entry one of its own account.
AuthTypeOK ==
    /\ epoch \in Nat
    /\ registry \in Ops \cup {Nobody}
    /\ cache \in [Slots -> Ops \cup {NoToken}]
    /\ keyring \in [Accounts -> Ops \cup {Boot, NoToken}]
    /\ pc \in [Ops -> PC]
    /\ who \in [Ops -> Accounts]
    /\ fence \in [Ops -> Nat]
    /\ secret \in [Ops -> Ops \cup {Boot, NoToken}]
    /\ retried \in [Ops -> BOOLEAN]
    /\ built \in [Ops -> Nat]
    /\ got \in [Ops -> Ops \cup {NoToken}]
    /\ deletedAt \in [Accounts -> Nat]
    /\ emptiedAt \in Nat
    /\ replacedAt \in Nat
    /\ \A s \in Slots : cache[s] # NoToken => SlotOf[cache[s]] = s
    /\ \A a \in Accounts : keyring[a] \in Ops => who[keyring[a]] = a

\* The latest move of the epoch was a sign-out whose sweep is still to come.
SweepOwed == \E o \in Ops : pc[o] = "sweep" /\ fence[o] = epoch

\* A sign-out is final for what ran before it: a refresh token in the keyring
\* was saved by a flow that began after the account's last sign-out
\* (delete_refresh_token_then against save_refresh_token_if).
NoLateSave ==
    \A a \in Accounts :
        /\ keyring[a] \in Ops => fence[keyring[a]] >= deletedAt[a]
        /\ keyring[a] = Boot => deletedAt[a] = 0

\* No cached access token and no registration outlives its session: each was
\* stored under the current epoch, or a sign-out is about to sweep it
\* (store_token_outcome against sign_in and sweep_after_sign_out).
SlotsAreCurrent ==
    \A o \in Ops : (o = registry \/ \E s \in Slots : cache[s] = o)
                      => fence[o] = epoch \/ SweepOwed

\* A client built under one session is never handed a later session's token,
\* however long its call was parked on the refresh lock
\* (ScopedTokenAdapter::bearer's second require_live_session).
NoNewerSessionServed ==
    \A o \in Ops : Kind[o] = "bearer" /\ pc[o] = "ok" => fence[got[o]] <= built[o]

\* A cached token belongs to the registered account, except where the code
\* takes a context on trust: a dead-session purge emptied the registry in this
\* epoch, a sign-in replaced what a claim had registered while it was storing,
\* or the sweep of a sign-out is still to come.
SlotsOfOneAccount ==
    \A s \in Slots : cache[s] # NoToken /\ registry # Nobody =>
        \/ who[cache[s]] = who[registry]
        \/ emptiedAt = epoch
        \/ replacedAt = epoch
        \/ SweepOwed

\* A purge after invalid_grant deletes the rejected token or nothing: a newer
\* one, saved by a re-authentication while the request was in flight, stays
\* (delete_refresh_token_if_current).
PurgeSparesNewer ==
    [][\A o \in Ops : pc[o] = "purge" /\ pc'[o] # "purge" =>
          \A a \in Accounts : keyring[a] # secret[o] => keyring'[a] = keyring[a]]_vars

\* The sweep of a sign-out touches only the session that sign-out ended: once
\* a sign-in moved the epoch again, its registration and slots stay
\* (sweep_after_sign_out's comparison).
SweepSparesNewer ==
    [][\A o \in Ops : pc[o] = "sweep" /\ pc'[o] # "sweep" =>
          /\ registry # Nobody /\ fence[registry] > fence[o] => registry' = registry
          /\ \A s \in Slots : cache[s] # NoToken /\ fence[cache[s]] > fence[o]
                                => cache'[s] = cache[s]]_vars

Ended(o) == pc[o] \in {"ok", "out", "failed"}

\* Every flow that began ends, whatever the others do to the session and to
\* the refresh locks it waits for (acquire_token).
EveryFlowEnds == \A o \in Ops : pc[o] \notin {"idle", "built"} ~> Ended(o)

-----------------------------------------------------------------------------
(* What comments of the code say and the interleavings refute.             *)

\* sign_out's comment: never a cleared session whose refresh token survives.
SignOutTakesTheToken ==
    [][\A o \in Ops : pc[o] = "sweep" /\ registry # Nobody /\ registry' = Nobody
          => keyring[who[registry]] = NoToken]_vars
=============================================================================
