------------------------------ MODULE Rotation ------------------------------
(***************************************************************************)
(* Rotating an application's client secret into Key Vault (commands/       *)
(* keyvault.rs), every request under the shared retry loop (http_retry.rs) *)
(* as the Graph and Key Vault transports drive it.  A rotation reads who   *)
(* owns the vault secret, mints a client secret, stores it as a new        *)
(* version, then removes the secrets the operator listed; a secret that    *)
(* could not be stored is taken off the app again, unless the vault may    *)
(* hold it.                                                                *)
(*                                                                         *)
(* An attempt and its answer are one step: until the answer is in, only    *)
(* the service has changed.  A request without an answer has landed, has   *)
(* not, or lands later.                                                    *)
(*                                                                         *)
(* A definition whose comment begins with "Fault:" is a seeded bug, never  *)
(* part of Next.                                                           *)
(***************************************************************************)
EXTENDS Naturals, Sequences, SequencesExt

CONSTANTS
    Rotations,   \* the calls of rotate_app_credential
    Apps,        \* the app registrations; each has one secret to begin with
    Histories,   \* what the vault may hold to begin with
    None,        \* no app, no key
    MAX_RETRIES, \* http_retry::MAX_RETRIES
    MaxTrouble   \* how many requests are not answered with success

Undated == 0  \* a version without a creation time

\* A client secret: the app's first one, or the n-th that rotation r minted.
Key(b, n) == [by |-> b, n |-> n]
Secrets == [by : Apps \cup Rotations, n : Nat]

\* A version of the vault secret: the client secret it holds and the app it is
\* tagged with, if any, the second it was written in, and whether its write had
\* been given up.
Versions == [key : Secrets \cup {None}, owner : Apps \cup {None}, at : Nat, late : BOOLEAN]

ASSUME BoundsAssumption == MAX_RETRIES \in Nat /\ MaxTrouble \in Nat

ASSUME NamesAssumption ==
    Apps \cap Rotations = {} /\ None \notin Apps \cup Rotations \cup Secrets

\* A history is a list of versions, as they were written, and the vault's clock.
ASSUME HistoriesAssumption ==
    \A h \in Histories :
        /\ h.clock \in Nat
        /\ h.versions \in Seq(Versions)
        /\ \A i \in DOMAIN h.versions :
              /\ h.versions[i].key \in {Key(a, 0) : a \in Apps} \cup {None}
              /\ h.versions[i].at <= h.clock /\ ~h.versions[i].late
              /\ \A j \in 1..i : \/ h.versions[i].at = Undated
                                  \/ h.versions[j].at <= h.versions[i].at

VARIABLES
    creds,   \* the client secrets on the apps
    vault,   \* the versions of the vault secret, oldest first
    clock,   \* the second the vault wrote its latest version in
    adrift,  \* requests that were given up and are yet to land
    cached,  \* the one credential entry followed: [app, keys], or None
    rot,     \* each rotation: where it is, its call's budget, what it knows
    trouble, \* how many requests went wrong
    minted,  \* history: how many secrets a rotation has put on its app
    drifted  \* history: secrets a late request put on the app or took off

service == <<creds, vault, clock, minted>>
vars == <<service, adrift, cached, rot, trouble, drifted>>

AppOf(k) == IF k.by \in Apps THEN k.by ELSE rot[k.by].app
OnApp(a) == {k \in creds : AppOf(k) = a}

Idle == [op |-> "idle", app |-> None, attempt |-> 0, cae |-> FALSE, key |-> None,
         listed |-> {}, todo |-> {}, target |-> None,
         removed |-> {}, named |-> {}, result |-> "none", saw |-> 0, vague |-> FALSE]

Init ==
    /\ creds = {Key(a, 0) : a \in Apps}
    /\ \E h \in Histories : vault = h.versions /\ clock = h.clock
    /\ adrift = {}
    /\ cached = None
    /\ rot = [r \in Rotations |-> Idle]
    /\ trouble = 0
    /\ minted = [r \in Rotations |-> 0]
    /\ drifted = {}

-----------------------------------------------------------------------------
(* The vault's tags.                                                       *)

claims_an_owner(v) == v.owner # None

\* The newest claimed versions, by second, and the ones that have no date.
Weighed(versions) ==
    LET claimed == {v \in ToSet(versions) : claims_an_owner(v)} IN
    {v \in claimed : v.at = Undated \/ \A w \in claimed : w.at <= v.at}

\* Fault: the newest version decides, tagged or not.
newest_version_decides(versions, a) ==
    \E v \in ToSet(versions) : /\ \A w \in ToSet(versions) : w.at <= v.at
                               /\ claims_an_owner(v) /\ v.owner # a

\* The secret is provably another app's.
current_owner_if_other(versions, a) == \E v \in Weighed(versions) : v.owner # a

vault_holds_key(versions, k) == \E v \in ToSet(versions) : v.key = k

-----------------------------------------------------------------------------
(* One call under the retry loop.                                          *)

Method(op) == CASE op \in {"owner", "readback"} -> "GET"
                [] op = "store" -> "PUT"
                [] OTHER -> "POST"
OverGraph(op) == op \in {"mint", "undo", "remove"}

\* Fault: every request is taken for one that may be replayed.
retry_class_for_any(op) == "Idempotent"

retry_class_for(op) == IF Method(op) = "POST" THEN "NonIdempotent" ELSE "Idempotent"

\* What one attempt comes back with: a body; a 2xx whose body cannot be used;
\* no response; a 5xx; a 429; a 401 with a claims challenge (a plain 401 to the
\* vault's transport); any other 4xx, or a challenge no bearer can be minted for;
\* before anything is sent, no bearer; and a mint without its value.
Answers(op) == {"ok", "garbled", "lost", "server", "throttled", "refused", "token"}
               \cup (IF OverGraph(op) THEN {"claims"} ELSE {})
               \cup (IF op = "mint" THEN {"blank"} ELSE {})

\* Whether the service did what was asked.
Landings(ans) == CASE ans \in {"ok", "garbled", "blank"} -> {"now"}
                   [] ans = "lost" -> {"no", "now", "late"}
                   [] ans = "server" -> {"no", "now"}
                   [] OTHER -> {"no"}

\* with_retries goes round again; so does the Graph transport, once per call, on
\* a claims challenge it re-minted its bearer for.
Again(c, ans) ==
    \/ /\ ans \in {"lost", "server"} /\ retry_class_for(c.op) = "Idempotent"
       /\ c.attempt < MAX_RETRIES
    \/ ans = "throttled" /\ c.attempt < MAX_RETRIES
    \/ ans = "claims" /\ ~c.cae

\* RetryBudget::wait; the loop a claims challenge restarts has a new budget.
NextAttempt(c, ans) == IF ans = "claims" THEN [c EXCEPT !.attempt = 0, !.cae = TRUE]
                       ELSE [c EXCEPT !.attempt = @ + 1]

\* The rotation goes on to another call.
To(c, op) == [c EXCEPT !.op = op, !.attempt = 0, !.cae = FALSE]
Ended(c, result) == [To(c, "ended") EXCEPT !.result = result, !.saw = 0]

\* The bearer is fetched once, before the first attempt.
Possible(c, ans) ==
    /\ ans \in Answers(c.op)
    /\ ans = "token" => c.attempt = 0 /\ ~c.cae

Pay(ans) ==
    /\ trouble' = trouble + (IF ans = "ok" THEN 0 ELSE 1)
    /\ trouble' <= MaxTrouble

-----------------------------------------------------------------------------
(* What the services do.                                                   *)

\* addPassword, PUT of a new current version, removePassword.
AddPassword(r) ==
    /\ minted' = [minted EXCEPT ![r] = @ + 1]
    /\ creds' = creds \cup {Key(r, minted[r] + 1)}
    /\ UNCHANGED <<vault, clock>>
SetSecret(r, k, late) ==
    /\ clock' \in {clock, clock + 1} \ {Undated}
    /\ vault' = Append(vault, [key |-> k, owner |-> rot[r].app, at |-> clock', late |-> late])
    /\ UNCHANGED <<creds, minted>>
RemovePassword(k) ==
    /\ creds' = creds \ {k}
    /\ UNCHANGED <<vault, clock, minted>>

Perform(q, late) ==
    CASE q.op = "mint" -> AddPassword(q.r)
      [] q.op = "store" -> SetSecret(q.r, q.key, late)
      [] q.op \in {"undo", "remove"} -> RemovePassword(q.key)

\* One attempt of rotation r's call, about key k.
Attempt(r, k, ans, land) ==
    LET q == [op |-> rot[r].op, r |-> r, key |-> k] IN
    /\ Possible(rot[r], ans) /\ land \in Landings(ans)
    /\ Pay(ans)
    /\ IF land = "now" THEN Perform(q, FALSE) ELSE UNCHANGED service
    /\ adrift' = IF land = "late" THEN adrift \cup {q} ELSE adrift

\* A request the client had given up reaches the service after all.
Land(q) ==
    /\ Perform(q, TRUE)
    /\ adrift' = adrift \ {q}
    /\ drifted' = drifted \cup (creds' \ creds) \cup (creds \ creds')
    /\ UNCHANGED <<cached, rot, trouble>>

-----------------------------------------------------------------------------
(* The rotation.                                                           *)

\* The operator rotates, keeping the existing secrets or listing those the
\* Credentials tab shows: the ones on the app, or the ones it once read there.
Begin(r, a) ==
    /\ rot[r].op = "idle"
    /\ \E ids \in {{}, {Key(a, 0)}, OnApp(a)} :
          rot' = [rot EXCEPT ![r] = [To(@, "owner") EXCEPT !.app = a, !.listed = ids]]
    /\ UNCHANGED <<service, adrift, cached, trouble, drifted>>

\* Step 0: the ownership gate, before anything is minted.  A secret that does
\* not exist has no versions.
CheckOwner(r) ==
    /\ rot[r].op = "owner"
    /\ \E ans \in Answers("owner") :
          /\ Possible(rot[r], ans) /\ Pay(ans)
          /\ rot' = [rot EXCEPT ![r] =
                CASE Again(@, ans) -> NextAttempt(@, ans)
                  [] ans = "ok" /\ ~current_owner_if_other(vault, @.app) ->
                        [To(@, "mint") EXCEPT !.saw = Len(vault)]
                  [] OTHER -> Ended(@, "err")]
    /\ UNCHANGED <<service, adrift, cached, drifted>>

\* Step 1: addPassword.  Graph may answer without the value it minted.
Mint(r) ==
    /\ rot[r].op = "mint"
    /\ \E ans \in Answers("mint") : \E land \in Landings(ans) :
          /\ Attempt(r, None, ans, land)
          /\ rot' = [rot EXCEPT ![r] =
                CASE Again(@, ans) -> NextAttempt(@, ans)
                  [] ans = "ok" -> [To(@, "store") EXCEPT !.key = Key(r, minted'[r])]
                  [] ans = "blank" -> [To(@, "undo") EXCEPT !.key = Key(r, minted'[r])]
                  [] OTHER -> [Ended(@, "err")
                                  EXCEPT !.vague = ans \in {"garbled", "lost", "server"}]]
    /\ UNCHANGED <<cached, drifted>>

\* Fault: a failed write is taken for one that did not land.
AfterStore_undo(ans) == IF ans = "ok" THEN "remove" ELSE "undo"

\* store_minted: where the rotation goes once set_secret has ended.
\* KeyVaultError::sent_nothing proves the write absent, nothing else does.
sent_nothing(ans) == ans = "token"
AfterStore(ans) == CASE ans = "ok" -> "remove"
                     [] sent_nothing(ans) -> "undo"
                     [] OTHER -> "readback"

\* Step 2: set_secret.
Store(r) ==
    /\ rot[r].op = "store"
    /\ \E ans \in Answers("store") : \E land \in Landings(ans) :
          /\ Attempt(r, rot[r].key, ans, land)
          /\ rot' = [rot EXCEPT ![r] =
                IF Again(@, ans) THEN NextAttempt(@, ans)
                ELSE [To(@, AfterStore(ans)) EXCEPT
                         !.todo = rot[r].listed \ {rot[r].key}]]
    /\ UNCHANGED <<cached, drifted>>

\* invalidate_app_credentials.
Bust(a) == cached' = IF cached # None /\ cached.app = a THEN None ELSE cached

\* Fault: the error is the vault's, as it came.
LeftOnApp_unnamed(c) == Ended(c, "err")

\* The rotation stopped after its mint with the secret still on the app: the
\* error names it.
LeftOnApp(c) == [Ended(c, "err") EXCEPT !.named = {c.key}]

\* Fault: only a rotation that succeeded is heard of.
HearsOf_success(c) == c.result = "ok"

\* A landed write busts the credential tier although the rotation failed.
HearsOf(c) == c.named # {}

Conclude(r, c) ==
    /\ rot' = [rot EXCEPT ![r] = c]
    /\ IF HearsOf(c) THEN Bust(c.app) ELSE UNCHANGED cached

\* Any other failure of the write is ambiguous, so the versions are read back:
\* the new one is there, or it is not, or nobody can tell and the secret stays.
ReadBack(r) ==
    /\ rot[r].op = "readback"
    /\ \E ans \in Answers("readback") :
          /\ Possible(rot[r], ans) /\ Pay(ans)
          /\ LET c == rot[r] IN
             Conclude(r, IF Again(c, ans) THEN NextAttempt(c, ans)
                         ELSE IF ans # "ok" THEN LeftOnApp(c)
                         ELSE To(c, IF vault_holds_key(vault, c.key) THEN "remove" ELSE "undo"))
    /\ UNCHANGED <<service, adrift, drifted>>

\* roll_back: the minted secret is taken off the app.  removePassword refuses a
\* key the app does not have.
Undo(r) ==
    /\ rot[r].op = "undo"
    /\ \E ans \in Answers("undo") : \E land \in Landings(ans) :
          /\ ans \in {"ok", "garbled"} => rot[r].key \in creds
          /\ Attempt(r, rot[r].key, ans, land)
          /\ LET c == rot[r] IN
             Conclude(r, CASE Again(c, ans) -> NextAttempt(c, ans)
                           [] ans = "ok" -> Ended(c, "err")
                           [] OTHER -> LeftOnApp(c))
    /\ UNCHANGED drifted

\* Step 3: the listed secrets are removed, in the order of the list, which may
\* be any; one that could not be is in the warnings, not among the removed.
RemoveListed(r) ==
    /\ rot[r].op = "remove"
    /\ LET c == rot[r] IN
       \E k \in c.todo, ans \in Answers("remove") : \E land \in Landings(ans) :
          /\ c.target \in {None, k}
          /\ ans \in {"ok", "garbled"} => k \in creds
          /\ Attempt(r, k, ans, land)
          /\ rot' = [rot EXCEPT ![r] =
                IF Again(c, ans) THEN [NextAttempt(c, ans) EXCEPT !.target = k]
                ELSE [To(c, "remove") EXCEPT
                         !.target = None, !.todo = c.todo \ {k},
                         !.removed = c.removed \cup {j \in {k} : ans = "ok"}]]
    /\ UNCHANGED <<cached, drifted>>

\* The rotation is done: the credential tier is busted and the vault remembered.
Finish(r) ==
    /\ rot[r].op = "remove" /\ rot[r].todo = {}
    /\ rot' = [rot EXCEPT ![r] = Ended(@, "ok")]
    /\ Bust(rot[r].app)
    /\ UNCHANGED <<service, adrift, trouble, drifted>>

\* Some view reads an app's credentials into the cache.
ReadCredentials(a) ==
    /\ cached = None
    /\ cached' = [app |-> a, keys |-> OnApp(a)]
    /\ UNCHANGED <<service, adrift, rot, trouble, drifted>>

Next ==
    \/ \E r \in Rotations :
          \/ \E a \in Apps : Begin(r, a)
          \/ CheckOwner(r) \/ Mint(r) \/ Store(r) \/ ReadBack(r) \/ Undo(r)
          \/ RemoveListed(r) \/ Finish(r)
    \/ \E q \in adrift : Land(q)
    \/ \E a \in Apps : ReadCredentials(a)

Spec == Init /\ [][Next]_vars

-----------------------------------------------------------------------------
(* Properties.                                                             *)

MintedBy(r) == {Key(r, n) : n \in 1..minted[r]}

\* A rotation puts at most one client secret on its app, however often its
\* addPassword is throttled, challenged or left without an answer
\* (http_retry.rs:241: a mutation is replayed only after a 429).
SecretMintedOnce == \A r \in Rotations : minted[r] <= 1

\* Another rotation was told to remove secret k.
RemovedByAnother(k) ==
    \E r \in Rotations \ {k.by} : k.by \in Rotations /\ k \in rot[r].listed

\* Whoever reads the vault secret gets a client secret its app still accepts: no
\* rollback revokes a secret the vault holds, and no existing secret is removed
\* before the vault serves the new one (keyvault.rs:260, store_minted).  Out of a
\* rotation's hands are a write that lands after it was given up and a second
\* rotation that was told to remove the first one's secret.
VaultServesALiveSecret ==
    vault # <<>> =>
        LET v == vault[Len(vault)] IN
        v.key \in creds \cup {None} \/ v.late \/ RemovedByAnother(v.key)

\* What a rotation that ended told the operator is true.  A success: the vault
\* holds the new secret, the app has it unless another rotation was told to
\* remove it, and the secrets reported removed are gone.  A failure: whatever
\* secret is left on the app is named in the error, except after a mint whose
\* outcome the error leaves open (keyvault.rs:350, "any secret left on the app
\* is named in the error").
EndSaysTheTruth ==
    \A r \in Rotations :
        /\ rot[r].result = "ok" =>
              /\ vault_holds_key(vault, rot[r].key)
              /\ rot[r].key \in creds \/ RemovedByAnother(rot[r].key)
              /\ rot[r].removed \cap creds = {}
        /\ rot[r].result = "err" =>
              \/ MintedBy(r) \cap creds \subseteq rot[r].named
              \/ rot[r].vague

\* No rotation goes past its gate when the newest claim on the vault secret, in
\* the order the versions were really written, was another app's: an untagged
\* version written over it does not hide it, nor do two written in one second
\* (keyvault.rs:139, current_owner_if_other).
ClaimIsRespected ==
    \A r \in Rotations : rot[r].op \in {"mint", "store", "readback", "undo", "remove"} =>
        LET claims == {i \in 1..rot[r].saw : claims_an_owner(vault[i])} IN
        \A i \in claims : (\A j \in claims : j <= i) => vault[i].owner = rot[r].app

\* The rotation failed after its mint and left nothing on the app.
RolledBack(r) == rot[r].result = "err" /\ rot[r].key # None /\ rot[r].named = {}

\* Once the rotations are at rest, an app's cached credentials are the ones it
\* has (keyvault.rs:424, "bust on the landed write").  They may differ by a
\* secret whose mint had an open outcome, one that a late request put there or
\* took off, and one a reader saw between the mint and a clean rollback.
CacheHearsOfRotation ==
    (cached # None /\ \A r \in Rotations : rot[r].op \in {"idle", "ended"}) =>
        LET real == OnApp(cached.app) IN
        \A k \in (cached.keys \ real) \cup (real \ cached.keys) :
            \/ k \in drifted
            \/ k.by \in Rotations /\ (rot[k.by].vague \/ RolledBack(k.by))
=============================================================================
