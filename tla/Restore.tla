------------------------------ MODULE Restore ------------------------------
(***************************************************************************)
(* The disaster-recovery restore (commands/restore.rs and commands/        *)
(* restore/): a backup's app registrations, enterprise apps and managed    *)
(* identity are replayed into a tenant in five passes, and an operator who *)
(* was interrupted runs the same backup again.                             *)
(*                                                                         *)
(* The runs follow one another: the front end starts one at a time.  What  *)
(* happens around them is counted as trouble: an answer that is an error   *)
(* (after the write landed, or instead of it), a session that dies, a      *)
(* Cancel, the process ending, and what other people do in the tenant in   *)
(* the meantime, all at any moment.                                        *)
(*                                                                         *)
(* A definition whose comment begins with "Fault:" is a seeded bug, never  *)
(* part of Next.                                                           *)
(***************************************************************************)
EXTENDS Integers, Sequences, FiniteSets, SequencesExt

CONSTANTS
    Manifests,   \* the backups considered (see ManifestsAssumption)
    Stranger,    \* the client someone else pre-authorizes, the API they declare
    MaxRuns,     \* how often the operator runs the restore
    MaxTrouble   \* how many things go wrong in a behaviour

Keys == {"key", "old"}  \* client secrets by name; "old" had expired at backup

ASSUME ManifestsAssumption ==
    \A m \in Manifests :
        LET apps == ToSet(m.apps) IN
        /\ m.apps \in Seq(apps)
        /\ \A i, j \in DOMAIN m.apps : m.apps[i] = m.apps[j] => i = j
        /\ m.sps \cup m.auth \cup m.fics \cup m.owners \cup m.consents \cup m.broad
             \cup m.groups \cup m.approved \subseteq apps
        /\ \A s \in apps : m.secrets[s] \in Seq(Keys)
        /\ m.identities \in Nat /\ m.identityApproved \in BOOLEAN

\* Somebody else's client or API is neither one the backup names nor an app the
\* restore creates.
ASSUME StrangerAssumption ==
    /\ Stranger \notin Nat
    /\ \A m \in Manifests : \A s \in ToSet(m.apps) : Stranger \notin m.perms[s] \cup m.pre[s]

\* The backup's names are not the numbers of the destination's apps: an appId
\* the restore is given is a new one.
ASSUME NamesAssumption ==
    \A m \in Manifests :
        /\ ToSet(m.apps) \cap Nat = {}
        /\ \A s \in ToSet(m.apps) : (m.perms[s] \cup m.pre[s]) \cap Nat = {}

ASSUME BoundsAssumption == MaxRuns \in Nat /\ MaxTrouble \in Nat

VARIABLES
    manifest,  \* the backup
    tenant,    \* the destination's app registrations, by number
    bound,     \* the managed identity holds its app roles
    at,        \* where the restore is
    pos,       \* the app, or enterprise app, it is at
    item,      \* the step of wire_application it is at
    remap,     \* app_id_remap: source app to destination app
    created,   \* Pass 1's created and pending
    hit,       \* the adoption candidate or the re-read app, as read
    refused,   \* refuse_foreign_pre_authorized: [apps, again]
    memo,      \* PrincipalMemo: the one principal the backup names
    withheld,  \* unapproved_apps
    cancelled, \* CancelToken::is_cancelled
    dead,      \* SessionDead
    report,    \* RestoreReport
    runs,      \* how many runs have begun
    trouble,   \* how much has gone wrong
    spent,     \* history: trouble when the run began
    edited,    \* history: somebody else has changed the tenant
    touched,   \* history: apps a write of this run has landed on
    dirty      \* history: candidates somebody had changed when looked up

world == <<tenant, bound>>
locals == <<pos, item, remap, created, hit, refused, memo, withheld>>
stops == <<cancelled, dead>>
history == <<runs, spent, edited, dirty>>
vars == <<manifest, world, at, locals, stops, report, trouble, history, touched>>

-----------------------------------------------------------------------------
(* What the backup asks for, in this tenant.                               *)

Apps == ToSet(manifest.apps)
Stopped == cancelled \/ dead

\* remap_required_resource_access: an API of the backup under its new appId.
remap_required_resource_access(s) ==
    {IF p \in DOMAIN remap THEN remap[p] ELSE p : p \in manifest.perms[s]}

\* plan_pre_authorized: the backup's own clients under their new appIds, those
\* that have none left out; a client from outside as listed.
LeftOut(s) == (manifest.pre[s] \cap Apps) \ DOMAIN remap
plan_pre_authorized(s) ==
    {IF c \in Apps THEN remap[c] ELSE c : c \in manifest.pre[s] \ LeftOut(s)}

\* requires_approval of classify; an API that could not be read makes every
\* permission on it unknown.
RequiresApproval(s, unread) ==
    \/ s \in manifest.fics \cup manifest.groups
    \/ /\ s \in manifest.consents /\ manifest.perms[s] # {}
       /\ unread \/ s \in manifest.broad \cup manifest.owners \cup manifest.auth

\* The manifest's live secrets of one name (expired_at_backup leaves one out).
Issuable(s, k) == IF k = "old" THEN 0
                  ELSE Cardinality({i \in DOMAIN manifest.secrets[s] : manifest.secrets[s][i] = k})

Tagged(s) == {a \in DOMAIN tenant : tenant[a].there /\ tenant[a].src = s}

\* The app as the create POST leaves it: tagged, with nothing else.
NewApp(s) == [src |-> s, made |-> TRUE, there |-> TRUE, sp |-> FALSE, perms |-> {},
              pre |-> {}, auth |-> FALSE, fic |-> FALSE, owner |-> FALSE,
              secrets |-> [k \in Keys |-> 0], consent |-> {}, role |-> FALSE,
              group |-> FALSE, marks |-> {}]

EmptyReport == [apps |-> <<>>, ents |-> <<>>, failures |-> {}, manual |-> {},
                cancelled |-> FALSE, expired |-> FALSE]

-----------------------------------------------------------------------------
(* Requests.  A write whose answer is "lost" has landed and reports an     *)
(* error.  Nothing succeeds on an app that has been deleted.               *)

ReadAnswers(a) == IF tenant[a].there THEN {"ok", "plain", "fatal"} ELSE {"plain"}
WriteAnswers(a) == IF tenant[a].there THEN {"ok", "lost", "plain", "fatal"} ELSE {"plain"}
Landed(o) == o \in {"ok", "lost"}

\* Pays for what went wrong; note_code latches the session that a fatal answer
\* reports.
Answered(wrong, fatal) ==
    /\ trouble + wrong <= MaxTrouble
    /\ trouble' = trouble + wrong
    /\ dead' = (dead \/ fatal)

Cost(o, free) == IF o = "ok" \/ free THEN 0 ELSE 1

\* resolve_principal: one lookup a run; its failure is remembered too.
Lookups == IF memo = "unknown" THEN {"ok", "plain", "fatal"} ELSE {memo}
Remember(r) == memo' = IF r = "ok" THEN "ok" ELSE "plain"
LookupCost(r) == Cost(r, memo # "unknown")

-----------------------------------------------------------------------------
(* A run begins: the cancel token, then the approvals.                     *)

\* restore_tenant, run_restore up to Pass 1.
Begin ==
    /\ at \in {"idle", "done"} /\ runs < MaxRuns
    /\ runs' = runs + 1
    /\ at' = "classify"
    /\ pos' = 1 /\ item' = 0
    /\ remap' = <<>> /\ created' = <<>> /\ hit' = <<>>
    /\ refused' = [apps |-> {}, again |-> FALSE]
    /\ memo' = "unknown" /\ withheld' = {}
    /\ cancelled' = FALSE /\ dead' = FALSE
    /\ report' = EmptyReport
    /\ spent' = trouble
    /\ touched' = {} /\ dirty' = {}
    /\ UNCHANGED <<manifest, world, trouble, edited>>

\* unapproved_apps: classified again, from the destination, when any app was
\* not approved.
Classify ==
    /\ at = "classify"
    /\ \E o \in IF Apps \subseteq manifest.approved THEN {"ok"} ELSE {"ok", "plain", "fatal"} :
         /\ Answered(Cost(o, FALSE), o = "fatal")
         /\ withheld' = {s \in Apps \ manifest.approved : RequiresApproval(s, o # "ok")}
    /\ at' = "lookup"
    /\ UNCHANGED <<manifest, world, pos, item, remap, created, hit, refused, memo, cancelled,
                   report, history, touched>>

-----------------------------------------------------------------------------
(* Pass 1: create or adopt.                                                *)

Source == manifest.apps[pos]

NextApp == at' = "lookup" /\ pos' = pos + 1

\* Adoption::Refuse: a runbook item, and nothing is created.
Refuse ==
    /\ report' = [report EXCEPT !.manual = @ \cup {Source}]
    /\ NextApp
    /\ UNCHANGED <<created, remap>>

\* live_secrets: the named secrets the candidate holds at the lookup.
LiveSecrets_none(a) == [k \in Keys |-> 0]   \* Fault: not looked at.
LiveSecrets(a) == tenant[a].secrets

\* has_service_principal; Pass 1 ensures it for created and adopted alike.
Ensures(s) == s \in manifest.sps

\* The entry Pass 1 keeps for an app it created or adopted; one that
\* pre-authorizes clients stays pending.
Keep(a, adopted, secrets, pre) ==
    /\ remap' = [s \in DOMAIN remap \cup {Source} |-> IF s = Source THEN a ELSE remap[s]]
    /\ created' = Append(created, [src |-> Source, id |-> a, adopted |-> adopted, left |-> secrets,
                                   pre |-> pre, pending |-> pre # {}, warn |-> {}])
    /\ IF pre = {} /\ Ensures(Source) THEN at' = "ensure" /\ pos' = pos ELSE NextApp

\* The loop ends; what the run stopped before is left to its re-run.
EndLoop ==
    /\ at = "lookup" /\ (Stopped \/ pos > Len(manifest.apps))
    /\ at' = "settle" /\ pos' = 1
    /\ IF Stopped   \* its pending adoptions are held: unreported, without a write
       THEN /\ report' = [report EXCEPT !.cancelled = TRUE]
            /\ refused' = [apps |-> {c.src : c \in {d \in ToSet(created) : d.pending}},
                           again |-> FALSE]
            /\ remap' = [s \in DOMAIN remap \ refused'.apps |-> remap[s]]
       ELSE UNCHANGED <<report, refused, remap>>
    /\ UNCHANGED <<manifest, world, item, created, hit, memo, withheld, stops, trouble, history,
                   touched>>

\* decide_adoption: the tag lookup, and what adoption_for sees in its answer.
Lookup ==
    /\ at = "lookup" /\ ~Stopped /\ pos <= Len(manifest.apps)
    /\ dirty' = dirty \cup {a \in Tagged(Source) : tenant[a].marks # {} \/ Stranger \in tenant[a].pre}
    /\ \E o \in {"ok", "plain", "fatal"} :
         /\ Answered(Cost(o, FALSE), o = "fatal")
         /\ \/ /\ o # "ok" \/ Cardinality(Tagged(Source)) > 1
               /\ Refuse /\ UNCHANGED hit
            \/ /\ o = "ok" /\ Tagged(Source) = {}
               /\ at' = "create"
               /\ UNCHANGED <<report, created, remap, pos, hit>>
            \/ \E a \in Tagged(Source) :
                 /\ o = "ok" /\ Tagged(Source) = {a}
                 /\ hit' = [id |-> a, pre |-> tenant[a].pre, secrets |-> LiveSecrets(a)]
                 /\ IF "settings" \in tenant[a].marks
                    THEN Refuse
                    ELSE at' = "owners" /\ UNCHANGED <<report, created, remap, pos>>
    /\ UNCHANGED <<manifest, world, item, refused, memo, withheld, cancelled, runs, spent, edited,
                   touched>>

\* list_owners; the manifest's owner is resolved when the app has it.
CheckOwners ==
    /\ at = "owners"
    /\ \E o \in ReadAnswers(hit.id), r \in Lookups :
         LET asks == o = "ok" /\ tenant[hit.id].owner /\ Source \in manifest.owners IN
         /\ asks \/ r = IF memo = "unknown" THEN "ok" ELSE memo
         /\ Answered(Cost(o, ~tenant[hit.id].there) + (IF asks THEN LookupCost(r) ELSE 0),
                     o = "fatal" \/ (asks /\ r = "fatal"))
         /\ IF asks THEN Remember(r) ELSE UNCHANGED memo
         /\ IF o # "ok" \/ "owner" \in tenant[hit.id].marks \/ (asks /\ r # "ok")
            THEN Refuse
            ELSE at' = "fics" /\ UNCHANGED <<report, created, remap, pos>>
    /\ UNCHANGED <<manifest, world, item, hit, refused, withheld, cancelled, history, touched>>

\* list_federated_credentials: each must be one of the manifest's.
CheckFics ==
    /\ at = "fics"
    /\ \E o \in ReadAnswers(hit.id) :
         /\ Answered(Cost(o, ~tenant[hit.id].there), o = "fatal")
         /\ IF o # "ok" \/ "fic" \in tenant[hit.id].marks
            THEN Refuse
            ELSE at' = "principal" /\ UNCHANGED <<report, created, remap, pos>>
    /\ UNCHANGED <<manifest, world, item, hit, refused, memo, withheld, cancelled, history, touched>>

\* check_service_principal, and the adoption.  No service principal passes.
CheckPrincipal ==
    /\ at = "principal"
    /\ \E o \in {"ok", "plain", "fatal"} :
         /\ Answered(Cost(o, FALSE), o = "fatal")
         /\ IF o # "ok" \/ (tenant[hit.id].there /\ "principal" \in tenant[hit.id].marks)
            THEN Refuse
            ELSE Keep(hit.id, TRUE, hit.secrets, hit.pre) /\ UNCHANGED report
    /\ UNCHANGED <<manifest, world, item, hit, refused, memo, withheld, cancelled, history, touched>>

\* create_application_core_with: the POST carries the restore tag.
Create ==
    /\ at = "create"
    /\ \E o \in {"ok", "lost", "plain", "fatal"} :
         /\ Answered(Cost(o, FALSE), o = "fatal")
         /\ IF Landed(o)
            THEN /\ tenant' = Append(tenant, NewApp(Source))
                 /\ touched' = touched \cup {Len(tenant')}
            ELSE UNCHANGED <<tenant, touched>>
         /\ IF o = "ok"
            THEN Keep(Len(tenant'), FALSE, [k \in Keys |-> 0], {}) /\ UNCHANGED report
            ELSE /\ report' = [report EXCEPT !.failures = @ \cup {Source}]
                 /\ NextApp
                 /\ UNCHANGED <<created, remap>>
    /\ UNCHANGED <<manifest, bound, item, hit, refused, memo, withheld, cancelled, history>>

\* A write to the app of entry c: what it changes there, and what the run
\* remembers of it.
Write(a, o, change) ==
    /\ Answered(Cost(o, ~tenant[a].there), o = "fatal")
    /\ touched' = IF Landed(o) THEN touched \cup {a} ELSE touched
    /\ tenant' = IF Landed(o) THEN [tenant EXCEPT ![a] = change] ELSE tenant

\* ensure_service_principal for created[i]: nothing if it exists, else a POST.
EnsurePrincipal(i) ==
    LET a == created[i].id IN
    \E o \in WriteAnswers(a) :
        /\ Write(a, o, [tenant[a] EXCEPT !.sp = TRUE])
        /\ created' = IF o = "ok" THEN created ELSE [created EXCEPT ![i].warn = @ \cup {"sp"}]

\* The service principal of the app just created or adopted.
Ensure ==
    /\ at = "ensure"
    /\ EnsurePrincipal(Len(created))
    /\ NextApp
    /\ UNCHANGED <<manifest, bound, item, remap, hit, refused, memo, withheld, cancelled, report,
                   history>>

\* The clients a candidate pre-authorizes that Pass 2 would not write now.
foreign_pre_authorized_unmapped(c) == c.pre \ manifest.pre[c.src]   \* Fault: as listed.
foreign_pre_authorized(c) == c.pre \ plan_pre_authorized(c.src)

\* refuse_foreign_pre_authorized: one candidate after the other is held to what
\* Pass 2 would write now, round after round until a round refuses none.
JudgePending ==
    /\ at = "settle" /\ pos <= Len(created)
    /\ LET c == created[pos] IN
       IF c.pending /\ c.src \notin refused.apps /\ foreign_pre_authorized(c) # {}
       THEN /\ refused' = [apps |-> refused.apps \cup {c.src}, again |-> TRUE]
            /\ remap' = [s \in DOMAIN remap \ {c.src} |-> remap[s]]
            /\ report' = [report EXCEPT !.manual = @ \cup {c.src}]
       ELSE UNCHANGED <<refused, remap, report>>
    /\ pos' = pos + 1
    /\ UNCHANGED <<manifest, world, at, item, created, hit, memo, withheld, stops, trouble, history,
                   touched>>

\* The round refused somebody, so an earlier candidate may have lost a client.
AnotherRound_never == FALSE   \* Fault: one round only.
AnotherRound == refused.again

\* Vec::retain: the entries at the indexes of kept, in their order.
Retain(kept) ==
    \E index \in [1..Cardinality(kept) -> kept] :
        /\ ToSet(index) = kept
        /\ \A i, j \in DOMAIN index : i < j => index[i] < index[j]
        /\ created' = [i \in DOMAIN index |-> created[index[i]]]

\* Another round, or the pending adoptions that are left are taken.
EndRound ==
    /\ at = "settle" /\ pos > Len(created)
    /\ pos' = 1
    /\ IF AnotherRound
       THEN refused' = [refused EXCEPT !.again = FALSE] /\ UNCHANGED <<at, created>>
       ELSE /\ at' = "take"
            /\ Retain({i \in DOMAIN created : created[i].src \notin refused.apps})
            /\ UNCHANGED refused
    /\ UNCHANGED <<manifest, world, item, remap, hit, memo, withheld, stops, report, trouble,
                   history, touched>>

\* The service principals of the pending adoptions that were taken.
TakePending ==
    /\ at = "take" /\ pos <= Len(created) /\ ~Stopped
    /\ IF created[pos].pending /\ Ensures(created[pos].src)
       THEN EnsurePrincipal(pos)
       ELSE UNCHANGED <<tenant, created, touched, trouble, dead>>
    /\ pos' = pos + 1
    /\ UNCHANGED <<manifest, bound, at, item, remap, hit, refused, memo, withheld, cancelled, report,
                   history>>

EndTake ==
    /\ at = "take" /\ (pos > Len(created) \/ Stopped)
    /\ report' = [report EXCEPT !.cancelled = @ \/ \E i \in pos..Len(created) : created[i].pending]
    /\ at' = "wire" /\ pos' = 1 /\ item' = 0
    /\ UNCHANGED <<manifest, world, remap, created, hit, refused, memo, withheld, stops, trouble,
                   history, touched>>

-----------------------------------------------------------------------------
(* Pass 2: wire_application, its steps in order.                           *)

When(condition, steps) == IF condition THEN steps ELSE <<>>

\* What there is to do for entry c.  A withheld app gets no federated
\* credential and no owner; an adopted one is read before either is added.
Steps(c) ==
    LET fics == c.src \in manifest.fics \ withheld
        owners == c.src \in manifest.owners \ withheld
    IN  When(manifest.perms[c.src] # {}, <<"perms">>)
        \o When(manifest.pre[c.src] # {}, <<"expose">>)
        \o When(c.src \in manifest.auth, <<"auth">>)
        \o When(fics /\ c.adopted, <<"readfics">>) \o When(fics, <<"fic">>)
        \o When(owners /\ c.adopted, <<"readowners">>) \o When(owners, <<"owner">>)
        \o manifest.secrets[c.src]

Entry == created[pos]
Step == Steps(Entry)[item]

\* The steps that are items of a loop, each preceded by a look at the stops.
Looped == {"fic", "owner"} \cup Keys

Wiring(steps) == at = "wire" /\ item > 0 /\ item <= Len(Steps(Entry)) /\ Step \in steps

Warn(w) == report' = [report EXCEPT !.apps[pos].warn = @ \cup {w}]

RestoredApp(c, incomplete) ==
    [src |-> c.src, id |-> c.id, incomplete |-> incomplete,
     warn |-> c.warn \cup (IF LeftOut(c.src) = {} \/ incomplete THEN {} ELSE {"client"})]

\* not_wired: the entries of the apps the run stopped before.
not_wired_silent(rest) == <<>>   \* Fault: they are left out of the report.
not_wired(rest) == [i \in DOMAIN rest |-> RestoredApp(rest[i], TRUE)]

\* pass2_wire: the next app, or the end.  What is withheld from it is a runbook
\* item.
NextWire ==
    /\ at = "wire" /\ item = 0
    /\ IF pos > Len(created) \/ Stopped
       THEN /\ report' = [report EXCEPT !.apps = @ \o not_wired(SubSeq(created, pos, Len(created))),
                                        !.cancelled = @ \/ (cancelled /\ pos <= Len(created))]
            /\ at' = "consent" /\ pos' = 1 /\ UNCHANGED item
       ELSE /\ report' = [report EXCEPT
                 !.apps = Append(@, RestoredApp(Entry, FALSE)),
                 !.manual = @ \cup ({Entry.src} \cap withheld \cap (manifest.fics \cup manifest.owners))]
            /\ item' = 1 /\ UNCHANGED <<at, pos>>
    /\ UNCHANGED <<manifest, world, remap, created, hit, refused, memo, withheld, stops, trouble,
                   history, touched>>

\* stopped_before: an item the run stops before.
SkipStep ==
    /\ Wiring(Looped) /\ Stopped
    /\ report' = [report EXCEPT !.apps[pos].incomplete = TRUE]
    /\ item' = item + 1
    /\ UNCHANGED <<manifest, world, at, pos, remap, created, hit, refused, memo, withheld, stops,
                   trouble, history, touched>>

\* The three PATCHes: full-replace, so simply sent again on an adopted app.
Patched(a, s) ==
    [perms  |-> [tenant[a] EXCEPT !.perms = remap_required_resource_access(s)],
     expose |-> [tenant[a] EXCEPT !.pre = plan_pre_authorized(s)],
     auth   |-> [tenant[a] EXCEPT !.auth = TRUE]]

PatchStep ==
    /\ Wiring({"perms", "expose", "auth"})
    /\ \E o \in WriteAnswers(Entry.id) :
         /\ Write(Entry.id, o, Patched(Entry.id, Entry.src)[Step])
         /\ IF o = "ok" THEN UNCHANGED report ELSE Warn(Step)
    /\ item' = item + 1
    /\ UNCHANGED <<manifest, bound, at, pos, remap, created, hit, refused, memo, withheld, cancelled,
                   history>>

\* What an adopted app already has; a failed read falls through to adding.
ReadStep ==
    /\ Wiring({"readfics", "readowners"})
    /\ \E o \in ReadAnswers(Entry.id) :
         /\ Answered(Cost(o, ~tenant[Entry.id].there), o = "fatal")
         /\ hit' = (o = "ok" /\ IF Step = "readfics" THEN tenant[Entry.id].fic
                                                     ELSE tenant[Entry.id].owner)
    /\ item' = item + 1
    /\ UNCHANGED <<manifest, world, at, pos, remap, created, refused, memo, withheld, cancelled,
                   report, history, touched>>

Exists == Entry.adopted /\ hit

\* Adds something Graph refuses to add twice; Noted is how a failure shows.
Add(a, field, Noted) ==
    \E o \in IF tenant[a][field] THEN {"plain"} ELSE WriteAnswers(a) :
        /\ Answered(Cost(o, tenant[a][field] \/ ~tenant[a].there), o = "fatal")
        /\ touched' = IF Landed(o) THEN touched \cup {a} ELSE touched
        /\ tenant' = IF Landed(o) THEN [tenant EXCEPT ![a][field] = TRUE] ELSE tenant
        /\ IF o = "ok" THEN UNCHANGED report ELSE Noted

\* A federated credential the app does not have yet.
FicStep ==
    /\ Wiring({"fic"}) /\ ~Stopped
    /\ IF Exists
       THEN UNCHANGED <<tenant, touched, trouble, dead, report>>
       ELSE Add(Entry.id, "fic", Warn("fic"))
    /\ item' = item + 1
    /\ UNCHANGED <<manifest, bound, at, pos, remap, created, hit, refused, memo, withheld, cancelled,
                   history>>

\* An owner; one that does not resolve is listed as such.
OwnerStep ==
    /\ Wiring({"owner"}) /\ ~Stopped
    /\ \E r \in Lookups :
         /\ Remember(r)
         /\ IF r = "ok" /\ ~Exists
            THEN Add(Entry.id, "owner", Warn("owner"))
            ELSE /\ Answered(LookupCost(r), r = "fatal")
                 /\ IF r = "ok" THEN UNCHANGED report ELSE Warn("owner")
                 /\ UNCHANGED <<tenant, touched>>
    /\ item' = item + 1
    /\ UNCHANGED <<manifest, bound, at, pos, remap, created, hit, refused, withheld, cancelled,
                   history>>

\* The secrets: not one that had expired, nor one the candidate already held
\* when it was looked up (by name, as a multiset).
SecretStep ==
    /\ Wiring(Keys) /\ ~Stopped
    /\ CASE Step = "old" ->
              UNCHANGED <<tenant, touched, created, trouble, dead, report>>
         [] Step # "old" /\ Entry.left[Step] > 0 ->
              /\ created' = [created EXCEPT ![pos].left[Step] = @ - 1]
              /\ UNCHANGED <<tenant, touched, trouble, dead, report>>
         [] OTHER ->
              /\ \E o \in WriteAnswers(Entry.id) :
                   /\ Write(Entry.id, o, [tenant[Entry.id] EXCEPT !.secrets[Step] = @ + 1])
                   /\ IF o = "ok" THEN UNCHANGED report ELSE Warn("secret")
              /\ UNCHANGED created
    /\ item' = item + 1
    /\ UNCHANGED <<manifest, bound, at, pos, remap, hit, refused, memo, withheld, cancelled, history>>

\* The end of wire_application: a session that died in any step shows.
EndWire ==
    /\ at = "wire" /\ item > 0 /\ item > Len(Steps(Entry))
    /\ report' = [report EXCEPT !.apps[pos].incomplete = @ \/ dead]
    /\ pos' = pos + 1 /\ item' = 0
    /\ UNCHANGED <<manifest, world, at, remap, created, hit, refused, memo, withheld, stops, trouble,
                   history, touched>>

-----------------------------------------------------------------------------
(* Pass 3: admin consent, for exactly the permissions the plan classified. *)

\* pass3_reconsent: the run stops, or the next app; not_reconsented marks the
\* apps it did not reach.
NextConsent ==
    /\ at = "consent"
    /\ \/ /\ pos > Len(created) \/ Stopped
          /\ report' = [report EXCEPT
                !.apps = [i \in DOMAIN @ |-> IF i >= pos /\ @[i].src \in manifest.consents
                                            THEN [@[i] EXCEPT !.incomplete = TRUE] ELSE @[i]],
                !.cancelled = @ \/ (cancelled /\ pos <= Len(created))]
          /\ at' = "ents" /\ pos' = 1 /\ UNCHANGED <<trouble, dead, hit>>
       \/ /\ pos <= Len(created) /\ ~Stopped /\ Entry.src \notin manifest.consents
          /\ pos' = pos + 1 /\ UNCHANGED <<at, report, trouble, dead, hit>>
       \/ /\ pos <= Len(created) /\ ~Stopped /\ Entry.src \in manifest.consents \cap withheld
          /\ report' = [report EXCEPT !.apps[pos].warn = @ \cup {"consent"},
                                      !.manual = @ \cup {Entry.src}]
          /\ pos' = pos + 1 /\ UNCHANGED <<at, trouble, dead, hit>>
    /\ UNCHANGED <<manifest, world, item, remap, created, refused, memo, withheld, cancelled,
                   history, touched>>

\* reconsent: the live list is read again and must be the remapped backup's.
Reread ==
    /\ at = "consent" /\ pos <= Len(created) /\ ~Stopped
    /\ Entry.src \in manifest.consents \ withheld
    /\ \E o \in ReadAnswers(Entry.id) :
         /\ Answered(Cost(o, ~tenant[Entry.id].there), o = "fatal")
         /\ LET live == tenant[Entry.id].perms
                matches == live = remap_required_resource_access(Entry.src)
            IN  /\ hit' = live
                /\ IF o = "ok" /\ matches /\ live # {}
                   THEN at' = "grant" /\ UNCHANGED <<pos, report>>
                   ELSE /\ at' = at /\ pos' = pos + 1
                        /\ report' = IF o = "ok" /\ matches THEN report
                                     ELSE [report EXCEPT
                                             !.apps[pos].warn = @ \cup {"consent"},
                                             !.manual = @ \cup (IF o = "ok" THEN {Entry.src} ELSE {})]
    /\ UNCHANGED <<manifest, world, item, remap, created, refused, memo, withheld, cancelled,
                   history, touched>>

\* An API whose service principal is in the tenant.
Resolvable(p) == p \notin Apps /\ (p \in DOMAIN tenant => tenant[p].there /\ tenant[p].sp)

\* The list consent is granted for: the one that was compared.
ListToGrant_again == tenant[Entry.id].perms   \* Fault: read a second time.
ListToGrant == hit

\* grant_admin_consent_to_app_core over the list as read: ensures the client's
\* service principal, then grants resource by resource.  A grant that failed
\* is a warning and does not latch the session, whatever its code.
Grant ==
    /\ at = "grant"
    /\ LET a == Entry.id
           able == {p \in ListToGrant : Resolvable(p) \/ p = a}
       IN  \E o \in WriteAnswers(a), g \in SUBSET able, ensured \in BOOLEAN :
             /\ o = "ok" => g = able
             /\ o \in {"plain", "fatal"} => g = {}
             /\ Landed(o) => ensured
             /\ ensured => tenant[a].there
             /\ Answered(Cost(o, ~tenant[a].there), o = "fatal")
             /\ touched' = IF ensured THEN touched \cup {a} ELSE touched
             /\ tenant' = IF ensured
                          THEN [tenant EXCEPT ![a].sp = TRUE, ![a].consent = @ \cup g]
                          ELSE tenant
             /\ IF o = "ok" /\ able = ListToGrant THEN UNCHANGED report ELSE Warn("consent")
    /\ at' = "consent" /\ pos' = pos + 1
    /\ UNCHANGED <<manifest, bound, item, remap, created, hit, refused, memo, withheld, cancelled,
                   history>>

-----------------------------------------------------------------------------
(* Pass 4: the enterprise apps' access.                                    *)

Ent == manifest.ents[pos]
EntApp == remap[Ent]
WarnEnt(w) == report' = [report EXCEPT !.ents[Len(report.ents)].warn = @ \cup {w}]

\* pass4_enterprise, and restore_enterprise_app up to its loops: an app this
\* run did not restore, or whose service principal is missing or unread, is a
\* runbook item.
NextEnt ==
    /\ at = "ents"
    /\ \/ /\ pos > Len(manifest.ents) \/ Stopped
          /\ report' = [report EXCEPT !.cancelled = @ \/ cancelled]
          /\ at' = "identities" /\ UNCHANGED <<pos, trouble, dead>>
       \/ /\ pos <= Len(manifest.ents) /\ ~Stopped /\ Ent \notin DOMAIN remap
          /\ report' = [report EXCEPT !.manual = @ \cup {Ent}]
          /\ pos' = pos + 1 /\ UNCHANGED <<at, trouble, dead>>
       \/ /\ pos <= Len(manifest.ents) /\ ~Stopped /\ Ent \in DOMAIN remap
          /\ \E o \in {"ok", "plain", "fatal"} :
               /\ Answered(Cost(o, FALSE), o = "fatal")
               /\ IF o = "ok" /\ tenant[EntApp].there /\ tenant[EntApp].sp
                  THEN /\ report' = [report EXCEPT !.ents = Append(@, [src |-> Ent, id |-> EntApp,
                                                                       warn |-> {}])]
                       /\ at' = "settings" /\ UNCHANGED pos
                  ELSE /\ report' = [report EXCEPT !.manual = @ \cup {Ent}]
                       /\ pos' = pos + 1 /\ UNCHANGED at
    /\ UNCHANGED <<manifest, world, item, remap, created, hit, refused, memo, withheld, cancelled,
                   history, touched>>

\* The tags and the assignment-required flag, each if the backup has it: best
\* effort, behind no gate.  A failure of either is a warning, whether or not the
\* other landed.
ApplySettings ==
    LET there == tenant[EntApp].there IN
    /\ at = "settings"
    /\ \E o \in {"ok", "plain", "fatal"}, landed \in {there, FALSE} :
         /\ Answered(Cost(o, o = "plain" /\ ~there), o = "fatal")
         /\ touched' = IF landed THEN touched \cup {EntApp} ELSE touched
         /\ IF o = "ok" THEN UNCHANGED report ELSE WarnEnt("settings")
    /\ at' = "role"
    /\ UNCHANGED <<manifest, world, pos, item, remap, created, hit, refused, memo, withheld, cancelled,
                   history>>

\* The role assignment, its principal resolved by name.
AssignRole ==
    /\ at = "role"
    /\ IF Stopped
       THEN UNCHANGED <<tenant, touched, trouble, dead, memo, report>>
       ELSE \E r \in Lookups :
              /\ Remember(r)
              /\ IF r = "ok"
                 THEN Add(EntApp, "role", WarnEnt("role"))
                 ELSE /\ Answered(LookupCost(r), r = "fatal")
                      /\ WarnEnt("role")
                      /\ UNCHANGED <<tenant, touched>>
    /\ at' = "group"
    /\ UNCHANGED <<manifest, bound, pos, item, remap, created, hit, refused, withheld, cancelled,
                   history>>

\* The group membership, only for an app the operator approved.
JoinGroup ==
    /\ at = "group"
    /\ CASE Ent \notin manifest.groups ->
              UNCHANGED <<tenant, touched, trouble, dead, report>>
         [] Ent \in manifest.groups /\ Ent \notin manifest.approved ->
              /\ report' = [report EXCEPT !.manual = @ \cup {Ent}]
              /\ UNCHANGED <<tenant, touched, trouble, dead>>
         [] Ent \in manifest.groups /\ Ent \in manifest.approved ->
              IF Stopped THEN UNCHANGED <<tenant, touched, trouble, dead, report>>
              ELSE Add(EntApp, "group", WarnEnt("group"))
    /\ at' = "ents" /\ pos' = pos + 1
    /\ UNCHANGED <<manifest, bound, item, remap, created, hit, refused, memo, withheld, cancelled,
                   history>>

-----------------------------------------------------------------------------
(* Pass 5: the managed identity, and the end.                              *)

\* restore_managed_identities: the tenant's identities, listed once; without
\* the list one runbook item stands for all of them.
ListIdentities ==
    /\ at = "identities"
    /\ IF Stopped \/ manifest.identities = 0
       THEN at' = "finish" /\ UNCHANGED <<trouble, dead, report>>
       ELSE \E o \in {"ok", "plain", "fatal"} :
              /\ Answered(Cost(o, FALSE), o = "fatal")
              /\ IF o = "ok"
                 THEN at' = "rebind" /\ UNCHANGED report
                 ELSE at' = "finish" /\ report' = [report EXCEPT !.manual = @ \cup {"identity"}]
    /\ UNCHANGED <<manifest, world, locals, cancelled, history, touched>>

\* rebind_one: bound again only if exactly one identity matches and the
\* operator approved its roles; the Azure roles are a runbook item always.
Rebind ==
    /\ at = "rebind"
    /\ IF cancelled
       THEN report' = [report EXCEPT !.cancelled = TRUE] /\ UNCHANGED <<bound, trouble, dead>>
       ELSE /\ report' = [report EXCEPT !.manual = @ \cup {"identity"}]
            /\ IF manifest.identities = 1 /\ manifest.identityApproved
               THEN \E o \in {"ok", "lost", "plain", "fatal"} :
                      /\ Answered(Cost(o, FALSE), o = "fatal")
                      /\ bound' = (bound \/ Landed(o))
               ELSE UNCHANGED <<bound, trouble, dead>>
    /\ at' = "finish"
    /\ UNCHANGED <<manifest, tenant, locals, cancelled, history, touched>>

\* The report comes back, flagged, whatever happened.
Finish ==
    /\ at = "finish"
    /\ at' = "done"
    /\ report' = [report EXCEPT !.expired = dead]
    /\ UNCHANGED <<manifest, world, locals, stops, trouble, history, touched>>

-----------------------------------------------------------------------------
(* What happens around the runs.                                           *)

Trouble == trouble < MaxTrouble /\ trouble' = trouble + 1

Running == at \notin {"idle", "done"}

\* cancel_restore.
PressCancel ==
    /\ Running /\ ~cancelled /\ Trouble
    /\ cancelled' = TRUE
    /\ UNCHANGED <<manifest, world, at, locals, dead, report, history, touched>>

\* The process ends: the report is gone, the tenant keeps what landed.
Crash ==
    /\ Running /\ Trouble
    /\ at' = "idle"
    /\ report' = EmptyReport
    /\ touched' = {} /\ dirty' = {}
    /\ UNCHANGED <<manifest, world, locals, stops, runs, spent, edited>>

Change(a, app) ==
    /\ Trouble
    /\ tenant' = [tenant EXCEPT ![a] = app]
    /\ edited' = TRUE
    /\ UNCHANGED <<manifest, bound, at, locals, stops, report, runs, spent, dirty, touched>>

\* Somebody deletes an app, with its service principal.
Delete(a) ==
    /\ tenant[a].there
    /\ Change(a, [tenant[a] EXCEPT !.there = FALSE, !.sp = FALSE])

\* Somebody gives an app an owner, a federated credential, a credential on its
\* service principal, or a name, certificate, secret or setting that is not the
\* manifest's; pre-authorizes a client; or declares a permission.
Tamper(a) ==
    /\ tenant[a].there
    /\ \/ \E m \in {"settings", "owner", "fic", "principal"} :
            /\ m = "principal" => tenant[a].sp
            /\ m \notin tenant[a].marks
            /\ Change(a, [tenant[a] EXCEPT !.marks = @ \cup {m}])
       \/ /\ Stranger \notin tenant[a].pre
          /\ Change(a, [tenant[a] EXCEPT !.pre = @ \cup {Stranger}])
       \/ /\ Stranger \notin tenant[a].perms
          /\ Change(a, [tenant[a] EXCEPT !.perms = @ \cup {Stranger}])

\* Somebody registers an app with a restore tag: they are its owner.
Plant(s) ==
    /\ Trouble
    /\ tenant' = Append(tenant, [NewApp(s) EXCEPT !.made = FALSE, !.marks = {"owner"}])
    /\ edited' = TRUE
    /\ UNCHANGED <<manifest, bound, at, locals, stops, report, runs, spent, dirty, touched>>

-----------------------------------------------------------------------------

Init ==
    /\ manifest \in Manifests
    /\ tenant = <<>> /\ bound = FALSE
    /\ at = "idle" /\ pos = 1 /\ item = 0
    /\ remap = <<>> /\ created = <<>> /\ hit = <<>>
    /\ refused = [apps |-> {}, again |-> FALSE]
    /\ memo = "unknown" /\ withheld = {}
    /\ cancelled = FALSE /\ dead = FALSE
    /\ report = EmptyReport
    /\ runs = 0 /\ trouble = 0 /\ spent = 0 /\ edited = FALSE
    /\ touched = {} /\ dirty = {}

Pass1 ==
    \/ EndLoop \/ Lookup \/ CheckOwners \/ CheckFics \/ CheckPrincipal \/ Create \/ Ensure
    \/ JudgePending \/ EndRound \/ TakePending \/ EndTake
Pass2 ==
    \/ NextWire \/ SkipStep \/ PatchStep \/ ReadStep \/ FicStep \/ OwnerStep \/ SecretStep \/ EndWire
Pass3 == NextConsent \/ Reread \/ Grant
Pass4 == NextEnt \/ ApplySettings \/ AssignRole \/ JoinGroup
Pass5 == ListIdentities \/ Rebind \/ Finish

Next ==
    \/ Begin \/ Classify \/ Pass1 \/ Pass2 \/ Pass3 \/ Pass4 \/ Pass5
    \/ PressCancel \/ Crash
    \/ \E a \in DOMAIN tenant : Delete(a) \/ Tamper(a)
    \/ \E s \in Apps : Plant(s)

Spec == Init /\ [][Next]_vars

-----------------------------------------------------------------------------
(* Properties.                                                             *)

\* Pass 1 and the secret loop: however often the backup is run again, after
\* lost answers, crashes and cancels, no app registration is created a second
\* time while the first is there, and no app holds more secrets of a name than
\* the manifest lists.
RerunRepeatsNothing ==
    /\ \A s \in Apps : Cardinality({a \in Tagged(s) : tenant[a].made}) <= 1
    /\ \A a \in DOMAIN tenant, k \in Keys : tenant[a].secrets[k] <= Issuable(tenant[a].src, k)

\* decide_adoption, refuse_foreign_pre_authorized: an app somebody else had
\* changed when the run looked it up gets no write from the run, whichever read
\* fails; and once the adoptions are settled, a client an adopted app
\* pre-authorized is one the run would write for it under the final remap.
ForeignIsLeftAlone ==
    /\ touched \cap dirty = {}
    /\ at \in {"take", "wire"} =>
         \A c \in ToSet(created) : c.pending => foreign_pre_authorized(c) = {}

\* The approval gate and reconsent: nothing the plan did not show and the
\* operator did not approve becomes standing access: no consent to a permission
\* somebody else declared, and no consent, federated credential, owner or group
\* for an app that needed approval and has none; no role for an identity that
\* is not approved, or not the only match.
NothingUnapproved ==
    /\ \A a \in DOMAIN tenant :
         /\ Stranger \notin tenant[a].consent
         /\ RequiresApproval(tenant[a].src, FALSE) /\ tenant[a].src \notin manifest.approved =>
              /\ tenant[a].consent = {}
              /\ ~tenant[a].fic /\ ~tenant[a].owner /\ ~tenant[a].group
    /\ bound => manifest.identities = 1 /\ manifest.identityApproved

\* App a is all the manifest makes of app s in this run.
IsRestored(s, a) ==
    LET app == tenant[a] IN
    /\ s \in manifest.sps => app.sp
    /\ remap_required_resource_access(s) \subseteq app.perms
    /\ plan_pre_authorized(s) \subseteq app.pre /\ LeftOut(s) = {}
    /\ s \in manifest.auth => app.auth
    /\ s \in manifest.fics \ withheld => app.fic
    /\ s \in manifest.owners \ withheld => app.owner
    /\ s \in manifest.consents \ withheld => remap_required_resource_access(s) \subseteq app.consent
    /\ \A k \in Keys : app.secrets[k] = Issuable(s, k)

\* The report, the operator's only record: every app the run wrote to is in
\* it; an app it does not name was stopped before, and it says so; an entry
\* without a warning that is not marked incomplete is a restored app; an
\* enterprise entry without one has its access, unless the run stopped.
ReportIsTrue ==
    at = "done" /\ runs > 0 =>
        /\ \A a \in touched : \/ \E e \in ToSet(report.apps) : e.id = a
                              \/ tenant[a].src \in report.failures
        /\ \/ Apps \subseteq report.failures \cup report.manual \cup {e.src : e \in ToSet(report.apps)}
           \/ report.cancelled \/ report.expired
        /\ \A e \in ToSet(report.apps) :
             e.warn = {} /\ ~e.incomplete /\ tenant[e.id].there => IsRestored(e.src, e.id)
        /\ \A e \in ToSet(report.ents) :
             e.warn = {} /\ ~report.cancelled /\ ~report.expired =>
                /\ tenant[e.id].role
                /\ e.src \in manifest.groups \cap manifest.approved => tenant[e.id].group

\* Adoption: a run in which nothing goes wrong finishes what the earlier ones
\* left, wherever they were interrupted, unless somebody else changed the
\* tenant.  (The backups considered consent only to APIs of theirs that have a
\* service principal: consent to another one is reported as not given.)
RerunConverges ==
    at = "done" /\ trouble = spent /\ ~edited =>
        /\ \A s \in Apps : \E a \in Tagged(s) : IsRestored(s, a)
        /\ \A e \in ToSet(report.apps) :
             ~e.incomplete /\ (e.warn = {} \/ e.src \in manifest.consents \cap withheld)
=============================================================================
