------------------------------- MODULE FanOut -------------------------------
(***************************************************************************)
(* The long-running commands that work through a list of items: the bulk   *)
(* writes (commands/bulk.rs) and the tenant-wide reads (audit, site sweep, *)
(* mailbox probe, Key Vault sweep, backup).  What they share:              *)
(*                                                                         *)
(*   CancelFlag, CancelToken   state.rs: generations instead of a reset    *)
(*   dispatch_capped           dispatch.rs: at most cap() tasks in flight  *)
(*   SessionDead               dispatch.rs: one fatal answer stops a run   *)
(*   ConcurrencyThrottle       throttle.rs: the cap follows Graph's 429s   *)
(*   the observer slot         client.rs: one per tenant, the last attach  *)
(*                             wins                                        *)
(*                                                                         *)
(* A run is one call of one command.  Its items are numbered; an item is   *)
(* worked off in one or two parts, each one request whose outcome the      *)
(* service decides.  A write that failed may have landed all the same.     *)
(*                                                                         *)
(* A definition whose comment begins with "Fault:" is a seeded bug, never  *)
(* part of Next.                                                           *)
(***************************************************************************)
EXTENDS Integers, FiniteSets, FiniteSetsExt

CONSTANTS
    Runs,     \* calls of long-running commands
    Presses,  \* clicks on Cancel, and sign-outs
    Plans,    \* what the runs are: a set of [kind, size, cap, throttles, presses]
    Nobody    \* the empty observer slot

Writers == {"delete", "grant", "sweep"}                       \* run_bulk_capped
Sequential == {"create", "owner", "restore", "stage", "core"} \* run_bulk_seq
Readers == {"audit", "sites", "backup", "probe", "vaults"}
Kinds == Writers \cup Sequential \cup Readers

\* FanOutMeter::attach: at the claim, with no await in between, or once the
\* first read has returned.
AttachesFirst == {"delete", "grant", "audit", "backup"}
AttachesLater == {"sweep", "sites"}

\* Tasks that loop over their parts, checking Cancel and the latch before each.
Looping == {"sweep", "sites"}

\* Tasks that note a dead session themselves; the others leave it to collect.
Latching == Looping \cup {"backup"}

Writes == {"row", "state", "secret", "board"}
Errors == {"none", "plain", "fatal"}

MIN_CONCURRENCY == 1

ASSUME PlansAssumption ==
    \A p \in Plans :
        /\ p.kind \in [Runs -> Kinds \cup {"none"}]
        /\ p.size \in [Runs -> Nat]
        /\ p.cap \in Nat
        /\ p.throttles \in Nat
        /\ p.presses \subseteq Presses

ASSUME NobodyAssumption == Nobody \notin Runs

VARIABLES
    plan,       \* the plan of this behaviour
    current,    \* [Flags -> Nat]: CancelInner::current
    cancelled,  \* [Flags -> Nat]: CancelInner::cancelled
    press,      \* [Presses -> [at, saw, meant]]: a CancelFlag::cancel in progress
    stopped,    \* history: the runs a completed press was meant for
    gen,        \* the generation of each run's token, 0 before claim
    pc,         \* where each run is
    item,       \* [Runs -> [Nat -> record]]: the work on each item
    dead,       \* SessionDead of each run
    early,      \* dispatch_capped returned true
    result,     \* what the command returned
    observer,   \* the observer slot of the tenant's Graph client
    attached,   \* history: the last run that filled the slot
    cap,        \* ThrottleInner::current of each run
    quiet,      \* last_throttle of each run: "never", "recent", "old"
    window,     \* the halve window of each run is open
    recovery,   \* the recovery loop of each run: [at, prev]
    throttled   \* how many 429s have arrived

cancelVars == <<current, cancelled, press, stopped>>
throttleVars == <<cap, quiet, window, recovery, throttled>>
slotVars == <<observer, attached>>
vars == <<plan, current, cancelled, press, stopped, gen, pc, item, dead, early,
          result, observer, attached, cap, quiet, window, recovery, throttled>>

Kind(r) == plan.kind[r]
Items(r) == 1..plan.size[r]

\* One flag per kind of run; the bulk commands share theirs.
Flags == {"bulk"} \cup Readers
Flag(r) == IF Kind(r) \in Readers THEN Kind(r) ELSE "bulk"

-----------------------------------------------------------------------------
(* CancelFlag and CancelToken (state.rs).                                  *)

IsCancelled(r) == cancelled[Flag(r)] >= gen[r]
Claimed(f) == {r \in Runs : Kind(r) # "none" /\ Flag(r) = f /\ gen[r] > 0}

\* cancel(): loads the newest generation ...
PressLoad(p, f) ==
    /\ p \in plan.presses /\ press[p].at = "idle"
    /\ \E r \in Runs : Kind(r) # "none" /\ Flag(r) = f
    /\ press' = [press EXCEPT ![p] = [at |-> f, saw |-> current[f], meant |-> Claimed(f)]]
    /\ UNCHANGED <<plan, current, cancelled, stopped, gen, pc, item, dead, early, result,
                   slotVars, throttleVars>>

\* Fault: the mark is stored instead of raised.
RaiseMarkByStore(f, saw) == saw

\* ... and raises the mark to it (fetch_max).
RaiseMark(f, saw) == IF saw > cancelled[f] THEN saw ELSE cancelled[f]

PressMark(p) ==
    LET f == press[p].at IN
    /\ f \in Flags
    /\ cancelled' = [cancelled EXCEPT ![f] = RaiseMark(f, press[p].saw)]
    /\ stopped' = stopped \cup press[p].meant
    /\ press' = [press EXCEPT ![p].at = "done"]
    /\ UNCHANGED <<plan, current, gen, pc, item, dead, early, result, slotVars, throttleVars>>

-----------------------------------------------------------------------------
(* ConcurrencyThrottle (throttle.rs) and the observer slot (client.rs).    *)

Running(r) == pc[r] \in {"prepare", "room", "spawn", "drain"}
Flying(r) == {i \in Items(r) : item[r][i].ph = "flying"}
InFlight(r) == {i \in Items(r) : item[r][i].ph \in {"flying", "ended", "lost"}}

Halved(c) == IF c \div 2 < MIN_CONCURRENCY THEN MIN_CONCURRENCY ELSE c \div 2

\* A request of some task is answered 429: on_throttle of the observer.
OnThrottle(r) ==
    /\ observer = r
    /\ throttled < plan.throttles
    /\ \E s \in Runs : Flying(s) # {}
    /\ throttled' = throttled + 1
    /\ quiet' = [quiet EXCEPT ![r] = "recent"]
    /\ IF window[r] \/ Halved(cap[r]) = cap[r]
       THEN UNCHANGED <<cap, window>>
       ELSE /\ cap' = [cap EXCEPT ![r] = Halved(cap[r])]
            /\ window' = [window EXCEPT ![r] = TRUE]
    /\ UNCHANGED <<plan, cancelVars, gen, pc, item, dead, early, result, slotVars, recovery>>

\* HALVE_WINDOW_SECS, then RECOVERY_SECS, go by.
Elapse(r) ==
    /\ \/ window[r] /\ window' = [window EXCEPT ![r] = FALSE] /\ UNCHANGED quiet
       \/ ~window[r] /\ quiet[r] = "recent" /\ quiet' = [quiet EXCEPT ![r] = "old"]
          /\ UNCHANGED window
    /\ UNCHANGED <<plan, cancelVars, gen, pc, item, dead, early, result, slotVars,
                   cap, recovery, throttled>>

RecoverAt(r, at, prev) == recovery' = [recovery EXCEPT ![r] = [at |-> at, prev |-> prev]]

\* A tick of the recovery loop: the quiet check takes the marks' lock and
\* lets go of it, the load and the store are two more steps.
RecoverLook(r) ==
    /\ Running(r) /\ recovery[r].at = "asleep" /\ quiet[r] = "old"
    /\ cap[r] < plan.cap   \* at the limit the tick changes nothing
    /\ RecoverAt(r, "load", 0)
    /\ UNCHANGED <<plan, cancelVars, gen, pc, item, dead, early, result, slotVars,
                   cap, quiet, window, throttled>>

RecoverLoad(r) ==
    /\ recovery[r].at = "load"
    /\ RecoverAt(r, "store", cap[r])
    /\ UNCHANGED <<plan, cancelVars, gen, pc, item, dead, early, result, slotVars,
                   cap, quiet, window, throttled>>

Recovered(prev) == IF prev + 1 < plan.cap THEN prev + 1 ELSE plan.cap

RecoverStore(r) ==
    /\ recovery[r].at = "store"
    /\ cap' = [cap EXCEPT ![r] = IF Recovered(recovery[r].prev) > recovery[r].prev
                                 THEN Recovered(recovery[r].prev) ELSE @]
    /\ RecoverAt(r, "asleep", 0)
    /\ UNCHANGED <<plan, cancelVars, gen, pc, item, dead, early, result, slotVars,
                   quiet, window, throttled>>

\* Fault: a guard clears the slot whoever fills it.
DetachedAlways(r) == Nobody

\* ThrottleGuard::drop: compare and clear.
Detached(r) == IF observer = r THEN Nobody ELSE observer

-----------------------------------------------------------------------------
(* A run: claim, prepare, dispatch_capped, finish.                         *)

\* FanOutMeter::attach puts the run's tracker into the slot.
Attach(r, kinds) ==
    IF Kind(r) \in kinds THEN observer' = r /\ attached' = r ELSE UNCHANGED slotVars

Claim(r) ==
    /\ pc[r] = "idle" /\ Kind(r) # "none"
    /\ current' = [current EXCEPT ![Flag(r)] = @ + 1]
    /\ gen' = [gen EXCEPT ![r] = current[Flag(r)] + 1]
    /\ pc' = [pc EXCEPT ![r] = "prepare"]
    /\ Attach(r, AttachesFirst)
    /\ UNCHANGED <<plan, cancelled, press, stopped, item, dead, early, result, throttleVars>>

NoResult == [error |-> "none", cancelled |-> FALSE, failures |-> {}, fresh |-> {},
             complete |-> FALSE]

\* What is read between the claim and the first item: the sweep reads the
\* selected applications and reports those it cannot read; the tenant-wide
\* reads fail as a whole; the rest read nothing they depend on.
Unreadable(r) ==
    IF Kind(r) = "sweep" THEN [Items(r) -> Errors] ELSE {[i \in Items(r) |-> "none"]}

Prepare(r) ==
    /\ pc[r] = "prepare"
    /\ pc' = [pc EXCEPT ![r] = "spawn"]
    /\ \E u \in Unreadable(r) :
         /\ item' = [item EXCEPT ![r] = [i \in Items(r) |->
                        IF u[i] = "none" THEN @[i]
                        ELSE [@[i] EXCEPT !.ph = "unread", !.err = u[i]]]]
         /\ dead' = [dead EXCEPT ![r] = \E i \in Items(r) : u[i] = "fatal"]
    /\ Attach(r, AttachesLater)
    /\ UNCHANGED <<plan, cancelVars, gen, early, result, throttleVars>>

PrepareFails(r) ==
    /\ pc[r] = "prepare" /\ Kind(r) \in Readers
    /\ pc' = [pc EXCEPT ![r] = "done"]
    /\ result' = [result EXCEPT ![r].error = "unread"]
    /\ observer' = Detached(r)
    /\ UNCHANGED <<plan, cancelVars, gen, item, dead, early, attached, throttleVars>>

Limit(r) == IF Kind(r) \in Sequential THEN 1 ELSE cap[r]

\* The while of dispatch_capped: the cap is read again before each spawn.
Room(r) ==
    /\ pc[r] = "room" /\ Cardinality(InFlight(r)) < Limit(r)
    /\ pc' = [pc EXCEPT ![r] = "spawn"]
    /\ UNCHANGED <<plan, cancelVars, gen, item, dead, early, result, slotVars, throttleVars>>

Todo(r) == {i \in Items(r) : item[r][i].ph = "todo"}
Gate(r) == IsCancelled(r) \/ dead[r]

Spawn(r) ==
    /\ pc[r] = "spawn" /\ Todo(r) # {} /\ ~Gate(r)
    /\ item' = [item EXCEPT ![r][Min(Todo(r))].ph = "flying"]
    /\ pc' = [pc EXCEPT ![r] = "room"]
    /\ UNCHANGED <<plan, cancelVars, gen, dead, early, result, slotVars, throttleVars>>

\* The gate declines an item, or there is none left.
EndDispatch(r) ==
    /\ pc[r] = "spawn" /\ (Todo(r) = {} \/ Gate(r))
    /\ early' = [early EXCEPT ![r] = Todo(r) # {}]
    /\ pc' = [pc EXCEPT ![r] = "drain"]
    /\ UNCHANGED <<plan, cancelVars, gen, item, dead, result, slotVars, throttleVars>>

\* Fault: nothing is awaited before the last item is out.
JoinsAtTheEnd(r) == pc[r] = "drain"

\* A finished task is awaited to make room, and once all are out.
Joins(r) ==
    \/ pc[r] = "room" /\ Cardinality(InFlight(r)) >= Limit(r)
    \/ pc[r] = "drain"

\* in_flight.next().await, then collect.
Collect(r, i) ==
    /\ Joins(r)
    /\ item[r][i].ph \in {"ended", "lost"}
    /\ item' = [item EXCEPT ![r][i].ph = IF @ = "ended" THEN "joined" ELSE "gone"]
    /\ dead' = [dead EXCEPT ![r] = @ \/ (item[r][i].ph = "ended" /\ item[r][i].err = "fatal")]
    /\ UNCHANGED <<plan, cancelVars, gen, pc, early, result, slotVars, throttleVars>>

-----------------------------------------------------------------------------
(* The work on one item.                                                   *)

\* The sweep and the site chunk loop over keys and sites; consent and
\* creation write the service principal or the registration first, a restore
\* the application before its principal.
Parts(k) == IF k \in Looping \cup {"grant", "create", "restore"} THEN 1..2 ELSE 1..1

WriteOf(k, p) ==
    CASE k \in {"delete", "restore"}      -> {"row"}
      [] k \in {"grant", "create"}        -> IF p = 1 THEN {"row"} ELSE {"state"}
      [] k = "owner"                      -> {"state"}
      [] k = "sweep"                      -> {"secret"}
      [] k = "stage"                      -> {"board"}
      [] OTHER                            -> {}

\* Parts that may find nothing to do: the principal exists, the role is
\* granted, the owner is one already, a certificate is staged.
Idempotent == {"grant", "owner", "stage", "core"} \X {1, 2}
              \cup {<<"create", 2>>, <<"restore", 2>>}

\* What the service answers to a part: done (ack), the write may have landed
\* without an answer, the error.  A consent that could not make every grant
\* reports a partial failure beside those it made.
Answers(k, p) ==
    [ack : {TRUE}, land : {WriteOf(k, p) # {}}, err : {"none"}]
    \cup [ack : {FALSE}, land : {FALSE, WriteOf(k, p) # {}}, err : {"plain"}]
    \cup [ack : {FALSE}, land : {FALSE}, err : {"fatal"}]
    \cup (IF <<k, p>> \in Idempotent THEN [ack : {FALSE}, land : {FALSE}, err : {"none"}] ELSE {})
    \cup (IF <<k, p>> = <<"grant", 2>> THEN [ack : {TRUE}, land : {TRUE}, err : {"plain"}] ELSE {})

Add(set, p, yes) == IF yes THEN set \cup {p} ELSE set

\* Fault: the error slot keeps the first failure, whatever comes later.
FirstError(old, new) == IF old = "none" THEN new ELSE old

\* The error slot keeps the first failure unless a later one is fatal.
KeptError(old, new) == IF new = "fatal" \/ old = "none" THEN new ELSE old

\* The task checks Cancel and the latch before a part.
Stops(r) ==
    \/ Kind(r) \in Looping /\ Gate(r)
    \/ Kind(r) = "audit" /\ IsCancelled(r)

Part(r, i) ==
    LET k == Kind(r)  t == item[r][i]  p == t.tried + 1 IN
    /\ t.ph = "flying" /\ ~Stops(r)
    /\ \E a \in Answers(k, p) :
         LET over == \/ p + 1 \notin Parts(k)
                     \/ a.err = "fatal"
                     \/ a.err = "plain" /\ k \notin Looping
         IN
         /\ item' = [item EXCEPT ![r][i] =
                        [ph     |-> IF over THEN "ended" ELSE "flying",
                         tried  |-> p,
                         acked  |-> Add(t.acked, p, a.ack),
                         landed |-> Add(t.landed, p, a.land),
                         err    |-> KeptError(t.err, a.err)]]
         /\ dead' = [dead EXCEPT ![r] = @ \/ (k \in Latching /\ a.err = "fatal")]
    /\ UNCHANGED <<plan, cancelVars, gen, pc, early, result, slotVars, throttleVars>>

\* The task's loop breaks, or the audit's task returns before it starts.
Halt(r, i) ==
    /\ item[r][i].ph = "flying" /\ Stops(r)
    /\ item' = [item EXCEPT ![r][i].ph = "ended"]
    /\ UNCHANGED <<plan, cancelVars, gen, pc, dead, early, result, slotVars, throttleVars>>

\* A spawned task panics or is aborted in a request, which may have landed.
\* What runs in the command itself takes the command with it.
Lose(r, i) ==
    LET p == item[r][i].tried + 1 IN
    /\ item[r][i].ph = "flying" /\ Kind(r) \notin Sequential
    /\ \E land \in {FALSE, WriteOf(Kind(r), p) # {}} :
         item' = [item EXCEPT ![r][i].ph = "lost",
                              ![r][i].landed = Add(@, p, land)]
    /\ UNCHANGED <<plan, cancelVars, gen, pc, dead, early, result, slotVars, throttleVars>>

-----------------------------------------------------------------------------
(* The result.                                                             *)

Reported(r) == {i \in Items(r) : item[r][i].ph = "joined"}
Lost(r) == {i \in Items(r) : item[r][i].ph = "gone"}
Acked(r, p) == {i \in Reported(r) : p \in item[r][i].acked}
Erring(r) == {i \in Items(r) : item[r][i].ph \in {"joined", "unread"} /\ item[r][i].err # "none"}

\* Sweep rows the loop broke part-way are marked INTERRUPTED.
Interrupted(r) ==
    {i \in Reported(r) : Kind(r) = "sweep" /\ item[r][i].tried = 1}

Everything(r) == Items(r) \X Writes

\* Fault: a lost delete alone leaves the caches as they are.
DeleteRefreshUnlost(r) ==
    LET failed == Erring(r) \cup Lost(r) IN
    IF Acked(r, 1) # {} /\ failed # {} THEN Everything(r) ELSE Acked(r, 1) \X {"row"}

\* finish_bulk_delete: drop the lists, or take the deleted rows out of them.
DeleteRefresh(r) ==
    LET failed == Erring(r) \cup Lost(r) IN
    IF Lost(r) # {} \/ (Acked(r, 1) # {} /\ failed # {})
    THEN Everything(r) ELSE Acked(r, 1) \X {"row"}

\* finish_bulk_grant: a created principal, or a lost task, costs the lists.
GrantRefresh(r) ==
    IF Acked(r, 1) \cup Lost(r) # {} THEN Everything(r)
    ELSE IF Acked(r, 2) # {} THEN Items(r) \X {"state"} ELSE {}

\* finish_expired_sweep: the credential tier of every application that lost
\* a secret or its task.
SweepRefresh(r) == (Acked(r, 1) \cup Acked(r, 2) \cup Lost(r)) \X {"secret"}

\* bulk_create_applications: clean creations are patched into the lists.
CreateRefresh(r) ==
    IF Acked(r, 1) \cap Erring(r) # {} THEN Everything(r)
    ELSE Acked(r, 1) \X {"row", "state"}

\* What the command drops from, or patches into, the caches at its end.  The
\* "core" commands leave it to the single-item command they call.
Refreshed(r) ==
    CASE Kind(r) = "delete"  -> DeleteRefresh(r)
      [] Kind(r) = "grant"   -> GrantRefresh(r)
      [] Kind(r) = "sweep"   -> SweepRefresh(r)
      [] Kind(r) = "create"  -> CreateRefresh(r)
      [] Kind(r) = "owner"   -> IF Acked(r, 1) # {} THEN Items(r) \X {"state"} ELSE {}
      [] Kind(r) = "restore" -> IF Acked(r, 1) # {} THEN Everything(r) ELSE {}
      [] Kind(r) = "stage"   -> IF Acked(r, 1) # {} THEN Items(r) \X {"board"} ELSE {}
      [] OTHER               -> {}

ReportCancelled(r) ==
    CASE Kind(r) \in Writers    -> IsCancelled(r) \/ (early[r] /\ ~dead[r])
      [] Kind(r) \in Sequential -> IsCancelled(r)
      [] OTHER                  -> early[r] \/ IsCancelled(r)

\* A tenant-wide read returns an error instead of a result the session cut
\* short; the backup also instead of a cancelled or a thinned one.
ReportError(r) ==
    IF Kind(r) \notin Readers THEN "none"
    ELSE IF dead[r] THEN "dead"
    ELSE IF Kind(r) = "backup" /\ ReportCancelled(r) THEN "cancelled"
    ELSE IF Kind(r) = "backup" /\ Lost(r) # {} THEN "lost"
    ELSE "none"

\* Fault: a task that never came back is in no count.
SitesNotCounted(r) == Erring(r) # {}

\* sweep_site_permissions: failed sites, and those of tasks that never came
\* back unless the run was cancelled (sites_lost).
SitesFailed(r) == Erring(r) # {} \/ (~ReportCancelled(r) /\ Lost(r) # {})

\* The result claims to cover every item: it may be cached, exported and read
\* as an all-clear.
Complete(r) ==
    /\ ReportError(r) = "none"
    /\ CASE Kind(r) = "backup" -> TRUE
         [] Kind(r) = "sites"  -> ~ReportCancelled(r) /\ ~SitesFailed(r)
         [] Kind(r) = "probe"  -> ~ReportCancelled(r)
         [] OTHER              -> ~ReportCancelled(r) /\ Erring(r) \cup Lost(r) = {}

Finish(r) ==
    /\ pc[r] = "drain" /\ InFlight(r) = {}
    /\ result' = [result EXCEPT ![r] =
                    [error     |-> ReportError(r),
                     cancelled |-> ReportCancelled(r),
                     failures  |-> Erring(r) \cup Lost(r) \cup Interrupted(r),
                     fresh     |-> Refreshed(r),
                     complete  |-> Complete(r)]]
    /\ observer' = Detached(r)
    /\ pc' = [pc EXCEPT ![r] = "done"]
    /\ UNCHANGED <<plan, cancelVars, gen, item, dead, early, attached, throttleVars>>

-----------------------------------------------------------------------------
NewItem == [ph |-> "todo", tried |-> 0, acked |-> {}, landed |-> {}, err |-> "none"]

Init ==
    /\ plan \in Plans
    /\ current = [f \in Flags |-> 0]
    /\ cancelled = [f \in Flags |-> 0]
    /\ press = [p \in Presses |-> [at |-> "idle", saw |-> 0, meant |-> {}]]
    /\ stopped = {}
    /\ gen = [r \in Runs |-> 0]
    /\ pc = [r \in Runs |-> "idle"]
    /\ item = [r \in Runs |-> [i \in Items(r) |-> NewItem]]
    /\ dead = [r \in Runs |-> FALSE]
    /\ early = [r \in Runs |-> FALSE]
    /\ result = [r \in Runs |-> NoResult]
    /\ observer = Nobody
    /\ attached = Nobody
    /\ cap = [r \in Runs |-> plan.cap]
    /\ quiet = [r \in Runs |-> "never"]
    /\ window = [r \in Runs |-> FALSE]
    /\ recovery = [r \in Runs |-> [at |-> "asleep", prev |-> 0]]
    /\ throttled = 0

\* What a claimed run does.
Continue(r) ==
    \/ Prepare(r) \/ PrepareFails(r) \/ Room(r) \/ Spawn(r) \/ EndDispatch(r) \/ Finish(r)
    \/ \E i \in Items(r) : Part(r, i) \/ Halt(r, i) \/ Lose(r, i) \/ Collect(r, i)

Next ==
    \/ \E r \in Runs :
         \/ Claim(r) \/ Continue(r)
         \/ OnThrottle(r) \/ Elapse(r)
         \/ RecoverLook(r) \/ RecoverLoad(r) \/ RecoverStore(r)
    \/ \E p \in Presses, f \in Flags : PressLoad(p, f)
    \/ \E p \in Presses : PressMark(p)

Spec == Init /\ [][Next]_vars

\* A claimed run goes on: every request has a timeout and a retry budget, and
\* a spawned task is polled.  Nothing obliges the operator to press Cancel, the
\* service to throttle, or the clock to reach a recovery tick before the end.
FairSpec == Spec /\ \A r \in Runs : WF_vars(Continue(r))

-----------------------------------------------------------------------------
(* Properties.                                                             *)

\* CancelFlag: a run's token answers "cancelled" exactly when a Cancel that has
\* completed was pressed while the run was claimed; a later press, a later run
\* and two presses at once change nothing of that.
CancelIsExact ==
    \A r \in Runs : gen[r] > 0 => (IsCancelled(r) <=> r \in stopped)

\* finish_bulk_delete, finish_bulk_grant, finish_expired_sweep and the
\* sequential commands: however a run ends, a write that was acknowledged, or
\* whose task was lost, is no longer served from the caches, and one that
\* landed without an answer is named in a failure row.
LandedIsAccountedFor ==
    \A r \in Runs : pc[r] = "done" /\ Kind(r) \notin Readers =>
        \A i \in Items(r) : \A p \in item[r][i].landed :
            IF p \in item[r][i].acked \/ i \in Lost(r)
            THEN {i} \X WriteOf(Kind(r), p) \subseteq result[r].fresh
            ELSE i \in result[r].failures

\* run_bulk_capped, run_bulk_seq: a run that left an item untried, or stopped
\* inside one, says why: it reports a Cancel that was pressed for it, or a row
\* with the code the re-authentication prompt reads.
StopsAreExplained ==
    \A r \in Runs : pc[r] = "done" /\ Kind(r) \notin Readers =>
        /\ (\E i \in Items(r) : \/ item[r][i].ph = "todo"
                                \/ i \in Reported(r) /\ item[r][i].err = "none"
                                   /\ item[r][i].tried + 1 \in Parts(Kind(r)))
           => \/ result[r].cancelled
              \/ \E i \in result[r].failures : item[r][i].err = "fatal"
        /\ result[r].cancelled => r \in stopped

\* The audit, the site and Key Vault sweeps and the backup: a result that may
\* be cached or read as complete covers every item (the backup lists the
\* objects it skipped); the mailbox probe covers every task that came back.
CompleteIsComplete ==
    \A r \in Runs : pc[r] = "done" /\ Kind(r) \in Readers /\ result[r].complete =>
        \A i \in Items(r) :
            \/ Kind(r) = "probe" /\ i \in Lost(r)
            \/ /\ i \in Reported(r)
               /\ \/ item[r][i].acked = Parts(Kind(r))
                  \/ Kind(r) \in {"backup", "probe"} /\ item[r][i].err = "plain"

\* ThrottleGuard: the slot holds the last attached run while it runs and
\* nobody after it; an earlier run that ends never empties it.
ObserverIsLive ==
    observer = IF attached # Nobody /\ Running(attached) THEN attached ELSE Nobody

\* Every claimed run ends, whatever is cancelled, throttled, lost or refused.
EveryRunEnds == \A r \in Runs : pc[r] = "prepare" ~> pc[r] = "done"
=============================================================================
