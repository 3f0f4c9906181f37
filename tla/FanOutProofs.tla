---------------------------- MODULE FanOutProofs ----------------------------
(***************************************************************************)
(* Proofs about FanOut, for every set of runs, presses and plans.          *)
(*                                                                         *)
(* Three parts of the state hardly meet.  FlagInv is about the generations *)
(* of the Cancel flags, SlotInv about the observer slot, and RunInv about  *)
(* one run and its items; of the others it reads only whether the run has  *)
(* been stopped, and that only grows.  A step therefore disturbs RunInv of *)
(* one run at most, and the adaptive cap disturbs nothing: a run reports   *)
(* the truth whatever its width.                                           *)
(***************************************************************************)
EXTENDS FanOut, WellFoundedInduction, TLAPS

-----------------------------------------------------------------------------
(* The inductive invariant.                                                *)

PlanInv == plan \in Plans

FlagTypes ==
    /\ current \in [Flags -> Nat]
    /\ cancelled \in [Flags -> Nat]
    /\ press \in [Presses -> [at : Flags \cup {"idle", "done"}, saw : Nat, meant : SUBSET Runs]]
    /\ stopped \in SUBSET Runs
    /\ gen \in [Runs -> Nat]

\* A generation is never ahead of its flag, and a mark never ahead either.
Generations ==
    /\ \A f \in Flags : cancelled[f] <= current[f]
    /\ \A r \in Runs : gen[r] <= current[Flag(r)]
    /\ \A r \in stopped : gen[r] > 0

\* A press in progress is meant for the runs of its flag up to the generation
\* it saw: a run claimed since then has a later one.
PressesMeantForSeen ==
    \A p \in Presses : press[p].at \in Flags =>
        /\ press[p].saw <= current[press[p].at]
        /\ \A r \in Runs :
             r \in press[p].meant <=> /\ Flag(r) = press[p].at
                                      /\ gen[r] > 0 /\ gen[r] <= press[p].saw

FlagInv == FlagTypes /\ Generations /\ PressesMeantForSeen /\ CancelIsExact

Places == {"idle", "prepare", "room", "spawn", "drain", "done"}

PlaceInv ==
    /\ pc \in [Runs -> Places]
    /\ \A r \in Runs : pc[r] = "idle" <=> gen[r] = 0
    /\ \A r \in Runs : gen[r] > 0 => Kind(r) # "none"

SlotInv ==
    /\ observer \in Runs \cup {Nobody}
    /\ attached \in Runs \cup {Nobody}
    /\ attached # Nobody => pc[attached] # "idle"
    /\ ObserverIsLive

Phases == {"todo", "unread", "flying", "ended", "lost", "joined", "gone"}
ItemRecord == [ph : Phases, tried : 0..2, acked : SUBSET {1, 2}, landed : SUBSET {1, 2},
               err : Errors]

\* What the work on one item has done, as its record says it.
ItemInv(k, t) ==
    /\ t \in ItemRecord
    /\ t.tried # 0 => t.tried \in Parts(k)
    /\ t.landed \subseteq Parts(k)
    /\ t.ph \in {"todo", "unread"} => t.tried = 0 /\ t.acked = {} /\ t.landed = {}
    /\ t.ph = "todo" => t.err = "none"
    /\ t.ph = "unread" => k = "sweep" /\ t.err # "none"
    /\ t.ph = "flying" => t.tried + 1 \in Parts(k)
    /\ t.ph \in {"lost", "gone"} => k \notin Sequential
    /\ t.landed \subseteq t.acked \/ t.err # "none" \/ t.ph \in {"lost", "gone"}
    /\ k \in {"create", "restore"} =>
         /\ t.ph = "flying" /\ t.tried = 1 => 1 \in t.acked
         /\ 2 \in t.acked => 1 \in t.acked
    /\ k \in Readers /\ t.err = "none" => t.acked = 1..t.tried

\* An item whose work ended between two parts without an error.
CutShort(k, t) ==
    t.ph \in {"ended", "joined"} /\ t.err = "none" /\ t.tried + 1 \in Parts(k)

\* Why a run that stopped did: a fatal answer it will report, or a press.
StopInv(r) ==
    /\ dead[r] => \E i \in Items(r) : /\ item[r][i].err = "fatal"
                                      /\ item[r][i].ph \in {"ended", "joined", "unread"}
    /\ \A i \in Items(r) : item[r][i].ph = "joined" /\ item[r][i].err = "fatal" => dead[r]
    /\ early[r] => dead[r] \/ r \in stopped
    /\ \A i \in Items(r) : CutShort(Kind(r), item[r][i]) => dead[r] \/ r \in stopped

\* Where a run is and what its items are by then.
StageInv(r) ==
    /\ pc[r] \in {"idle", "prepare"} => \A i \in Items(r) : item[r][i].ph = "todo"
    /\ pc[r] = "drain" \/ (pc[r] = "done" /\ Kind(r) \notin Readers) =>
         \A i \in Items(r) : item[r][i].ph = "todo" => early[r]
    /\ pc[r] = "done" => InFlight(r) = {}
    /\ pc[r] # "done" => result[r] = NoResult

\* The three properties of a run's result, for one run.
LandedOf(r) ==
    pc[r] = "done" /\ Kind(r) \notin Readers =>
        \A i \in Items(r) : \A p \in item[r][i].landed :
            IF p \in item[r][i].acked \/ i \in Lost(r)
            THEN {i} \X WriteOf(Kind(r), p) \subseteq result[r].fresh
            ELSE i \in result[r].failures

StopsOf(r) ==
    pc[r] = "done" /\ Kind(r) \notin Readers =>
        /\ (\E i \in Items(r) : \/ item[r][i].ph = "todo"
                                \/ i \in Reported(r) /\ item[r][i].err = "none"
                                   /\ item[r][i].tried + 1 \in Parts(Kind(r)))
           => \/ result[r].cancelled
              \/ \E i \in result[r].failures : item[r][i].err = "fatal"
        /\ result[r].cancelled => r \in stopped

CompleteOf(r) ==
    pc[r] = "done" /\ Kind(r) \in Readers /\ result[r].complete =>
        \A i \in Items(r) :
            \/ Kind(r) = "probe" /\ i \in Lost(r)
            \/ /\ i \in Reported(r)
               /\ \/ item[r][i].acked = Parts(Kind(r))
                  \/ Kind(r) \in {"backup", "probe"} /\ item[r][i].err = "plain"

ResultInv(r) == LandedOf(r) /\ StopsOf(r) /\ CompleteOf(r)

RunTypes ==
    /\ item = [r \in Runs |-> item[r]]
    /\ result = [r \in Runs |-> result[r]]
    /\ dead \in [Runs -> BOOLEAN]
    /\ early \in [Runs -> BOOLEAN]

RunInv(r) ==
    /\ item[r] \in [Items(r) -> ItemRecord]
    /\ \A i \in Items(r) : ItemInv(Kind(r), item[r][i])
    /\ StopInv(r) /\ StageInv(r) /\ ResultInv(r)

RunsInv == RunTypes /\ \A r \in Runs : RunInv(r)

FanInv == PlanInv /\ FlagInv /\ PlaceInv /\ SlotInv /\ RunsInv

-----------------------------------------------------------------------------
(* The plan and the flags.                                                 *)

\* What PlansAssumption says of the plan that runs.
LEMMA PlanFacts ==
    ASSUME PlanInv, NEW r \in Runs
    PROVE  /\ Kind(r) \in Kinds \cup {"none"}
           /\ Flag(r) \in Flags
           /\ plan.size[r] \in Nat
<1>1. plan.kind \in [Runs -> Kinds \cup {"none"}] /\ plan.size \in [Runs -> Nat]
  BY PlansAssumption DEF PlanInv
<1>2. Kind(r) \in Kinds \cup {"none"} /\ plan.size[r] \in Nat
  BY <1>1 DEF Kind
<1> QED
  BY <1>2 DEF Flag, Flags

\* A step that leaves the flags, the presses and the generations alone.
LEMMA FlagsQuiet ==
    ASSUME FlagInv, UNCHANGED <<plan, cancelVars, gen>>
    PROVE  FlagInv'
  BY DEF FlagInv, FlagTypes, Generations, PressesMeantForSeen, CancelIsExact, IsCancelled,
         cancelVars, Flag, Kind

\* CancelFlag::claim: the new generation is later than every mark and than all
\* that any press has seen.
LEMMA ClaimKeepsFlags ==
    ASSUME PlanInv, FlagInv, PlaceInv, NEW r \in Runs, Claim(r)
    PROVE  FlagInv'
<1> DEFINE f == Flag(r)
           new == current[f] + 1
<1>1. /\ f \in Flags /\ gen[r] = 0 /\ r \notin stopped
      /\ \A s \in Runs : Flag(s) \in Flags
  BY PlanFacts DEF Claim, PlaceInv, FlagInv, FlagTypes, Generations
<1>2. /\ current' = [current EXCEPT ![f] = new]
      /\ gen' = [gen EXCEPT ![r] = new]
      /\ UNCHANGED <<plan, cancelled, press, stopped>>
  BY DEF Claim, FlagInv, FlagTypes
<1>3. \A s \in Runs : Flag(s)' = Flag(s)
  BY <1>2 DEF Flag, Kind
<1>4. new \in Nat /\ new > cancelled[f]
  BY <1>1 DEF FlagInv, FlagTypes, Generations
<1>5. FlagTypes'
  BY <1>1, <1>2, <1>4 DEF FlagInv, FlagTypes
<1>6. Generations'
  BY <1>1, <1>2, <1>3, <1>4 DEF FlagInv, FlagTypes, Generations
<1>7. PressesMeantForSeen'
  <2> SUFFICES ASSUME NEW p \in Presses, press[p].at \in Flags
               PROVE  /\ press[p].saw <= current'[press[p].at]
                      /\ \A s \in Runs :
                           s \in press[p].meant <=> /\ Flag(s) = press[p].at
                                                    /\ gen'[s] > 0 /\ gen'[s] <= press[p].saw
    BY <1>2, <1>3 DEF PressesMeantForSeen
  <2>1. /\ press[p].saw \in Nat /\ press[p].saw <= current[press[p].at]
        /\ \A s \in Runs :
             s \in press[p].meant <=> /\ Flag(s) = press[p].at
                                      /\ gen[s] > 0 /\ gen[s] <= press[p].saw
    BY DEF FlagInv, FlagTypes, PressesMeantForSeen
  <2> QED
    BY <1>1, <1>2, <1>4, <2>1 DEF FlagInv, FlagTypes
<1>8. CancelIsExact'
  BY <1>1, <1>2, <1>3, <1>4 DEF FlagInv, FlagTypes, CancelIsExact, IsCancelled
<1> QED
  BY <1>5, <1>6, <1>7, <1>8 DEF FlagInv

\* The first half of cancel(): what the press saw is the newest generation.
LEMMA PressLoadKeepsFlags ==
    ASSUME PlanInv, FlagInv, PlaceInv, NEW q \in Presses, NEW f \in Flags, PressLoad(q, f)
    PROVE  FlagInv'
<1>1. /\ press' = [press EXCEPT ![q] = [at |-> f, saw |-> current[f], meant |-> Claimed(f)]]
      /\ UNCHANGED <<plan, current, cancelled, stopped, gen>>
  BY DEF PressLoad
<1>2. Claimed(f) = {r \in Runs : Flag(r) = f /\ gen[r] > 0}
  BY DEF Claimed, PlaceInv
<1>3. FlagTypes'
  BY <1>1, <1>2 DEF FlagInv, FlagTypes
<1>4. Generations' /\ CancelIsExact'
  BY <1>1 DEF FlagInv, Generations, CancelIsExact, IsCancelled, Flag, Kind
<1>5. PressesMeantForSeen'
  BY <1>1, <1>2 DEF FlagInv, FlagTypes, Generations, PressesMeantForSeen, Flag, Kind
<1> QED
  BY <1>3, <1>4, <1>5 DEF FlagInv

\* The second half: the mark is raised over the runs the press was meant for,
\* and over no other.
LEMMA PressMarkKeepsFlags ==
    ASSUME PlanInv, FlagInv, NEW q \in Presses, PressMark(q)
    PROVE  FlagInv' /\ stopped \subseteq stopped'
<1> DEFINE f == press[q].at
           mark == RaiseMark(f, press[q].saw)
<1>1. /\ f \in Flags
      /\ cancelled' = [cancelled EXCEPT ![f] = mark]
      /\ stopped' = stopped \cup press[q].meant
      /\ press' = [press EXCEPT ![q].at = "done"]
      /\ UNCHANGED <<plan, current, gen>>
  BY DEF PressMark
<1>2. /\ press[q].saw \in Nat /\ press[q].saw <= current[f]
      /\ press[q].meant \subseteq Runs
      /\ \A r \in Runs : r \in press[q].meant <=> /\ Flag(r) = f
                                                  /\ gen[r] > 0 /\ gen[r] <= press[q].saw
  BY <1>1 DEF FlagInv, FlagTypes, PressesMeantForSeen
<1>3. /\ mark \in Nat /\ mark <= current[f]
      /\ \A n \in Nat : mark >= n <=> press[q].saw >= n \/ cancelled[f] >= n
  BY <1>1, <1>2 DEF RaiseMark, FlagInv, FlagTypes, Generations
<1>4. \A r \in Runs : Flag(r)' = Flag(r) /\ Flag(r) \in Flags
  BY <1>1, PlanFacts DEF Flag, Kind
<1>5. FlagTypes'
  BY <1>1, <1>2, <1>3 DEF FlagInv, FlagTypes
<1>6. Generations'
  BY <1>1, <1>2, <1>3, <1>4 DEF FlagInv, FlagTypes, Generations
<1>7. PressesMeantForSeen'
  <2>1. "done" \notin Flags
    BY DEF Flags, Readers
  <2> QED
    BY <1>1, <1>4, <2>1 DEF FlagInv, FlagTypes, PressesMeantForSeen
<1>8. CancelIsExact'
  <2> SUFFICES ASSUME NEW r \in Runs, gen[r] > 0
               PROVE  cancelled'[Flag(r)] >= gen[r] <=> r \in stopped'
    BY <1>1, <1>4 DEF CancelIsExact, IsCancelled
  <2>1. gen[r] \in Nat /\ (cancelled[Flag(r)] >= gen[r] <=> r \in stopped)
    BY DEF FlagInv, FlagTypes, CancelIsExact, IsCancelled
  <2>2. CASE Flag(r) = f
    BY <1>1, <1>2, <1>3, <1>4, <2>1, <2>2 DEF FlagInv, FlagTypes
  <2>3. CASE Flag(r) # f
    BY <1>1, <1>2, <1>4, <2>1, <2>3 DEF FlagInv, FlagTypes
  <2> QED
    BY <2>2, <2>3
<1> QED
  BY <1>1, <1>5, <1>6, <1>7, <1>8 DEF FlagInv

-----------------------------------------------------------------------------
(* The places of the runs and the observer slot.                           *)

\* What a step of one run does to its place: it goes on, or it ends.
Moves(r) ==
    /\ pc[r] # "idle"
    /\ UNCHANGED <<plan, gen>>
    /\ \/ /\ UNCHANGED pc
          /\ UNCHANGED slotVars
       \/ /\ Running(r) /\ \E at \in {"room", "spawn", "drain"} : pc' = [pc EXCEPT ![r] = at]
          /\ UNCHANGED slotVars \/ (observer' = r /\ attached' = r)
       \/ /\ Running(r) /\ pc' = [pc EXCEPT ![r] = "done"]
          /\ observer' = Detached(r) /\ UNCHANGED attached

LEMMA ContinueMoves ==
    ASSUME RunsInv, PlaceInv, NEW r \in Runs, Continue(r)
    PROVE  Moves(r)
<1>1. ASSUME NEW i \in Items(r), item[r][i].ph # "todo"
      PROVE  pc[r] # "idle"
  BY <1>1 DEF RunsInv, RunInv, StageInv
<1>2. CASE Prepare(r)
  BY <1>2 DEF Prepare, Moves, Running, Attach
<1>3. CASE PrepareFails(r)
  BY <1>3 DEF PrepareFails, Moves, Running
<1>4. CASE Room(r) \/ Spawn(r) \/ EndDispatch(r)
  BY <1>4 DEF Room, Spawn, EndDispatch, Moves, Running
<1>5. CASE Finish(r)
  BY <1>5 DEF Finish, Moves, Running
<1>6. ASSUME NEW i \in Items(r), Part(r, i) \/ Halt(r, i) \/ Lose(r, i) \/ Collect(r, i)
      PROVE  Moves(r)
  <2>1. item[r][i].ph # "todo" /\ UNCHANGED <<plan, gen, pc, slotVars>>
    BY <1>6 DEF Part, Halt, Lose, Collect
  <2> QED
    BY <1>1, <2>1 DEF Moves
<1> QED
  BY <1>2, <1>3, <1>4, <1>5, <1>6 DEF Continue

LEMMA MovesKeepPlaces ==
    ASSUME PlaceInv, SlotInv, NEW r \in Runs, Moves(r)
    PROVE  PlaceInv' /\ SlotInv'
<1>1. PlaceInv'
  BY DEF Moves, PlaceInv, Places, Running, Kind
<1>2. CASE UNCHANGED <<pc, slotVars>>
  BY <1>1, <1>2 DEF SlotInv, ObserverIsLive, Running, slotVars
<1>3. ASSUME Running(r), NEW at \in {"room", "spawn", "drain"}, pc' = [pc EXCEPT ![r] = at],
             UNCHANGED slotVars \/ (observer' = r /\ attached' = r)
      PROVE  SlotInv'
  <2>1. Running(r)' /\ \A s \in Runs : (Running(s)' <=> Running(s)) /\ (pc'[s] = "idle" <=> pc[s] = "idle")
    BY <1>3 DEF Running, PlaceInv
  <2> QED
    BY <1>3, <2>1, NobodyAssumption DEF SlotInv, ObserverIsLive, slotVars, Running
<1>4. ASSUME Running(r), pc' = [pc EXCEPT ![r] = "done"], observer' = Detached(r), UNCHANGED attached
      PROVE  SlotInv'
  <2>1. /\ ~Running(r)' /\ pc'[r] # "idle"
        /\ \A s \in Runs \ {r} : (Running(s)' <=> Running(s)) /\ pc'[s] = pc[s]
    BY <1>4 DEF Running, PlaceInv
  <2>2. CASE attached = r
    BY <1>4, <2>1, <2>2, NobodyAssumption DEF SlotInv, ObserverIsLive, Detached
  <2>3. CASE attached # r
    BY <1>4, <2>1, <2>3, NobodyAssumption DEF SlotInv, ObserverIsLive, Detached
  <2> QED
    BY <2>2, <2>3
<1> QED
  BY <1>1, <1>2, <1>3, <1>4 DEF Moves

LEMMA ClaimKeepsPlaces ==
    ASSUME PlanInv, FlagInv, PlaceInv, SlotInv, NEW r \in Runs, Claim(r)
    PROVE  PlaceInv' /\ SlotInv'
<1>1. /\ pc[r] = "idle" /\ Kind(r) # "none"
      /\ pc' = [pc EXCEPT ![r] = "prepare"]
      /\ gen' = [gen EXCEPT ![r] = current[Flag(r)] + 1]
      /\ UNCHANGED plan
  BY DEF Claim
<1>2. current[Flag(r)] + 1 \in Nat /\ current[Flag(r)] + 1 > 0
  BY PlanFacts DEF FlagInv, FlagTypes
<1>3. PlaceInv'
  BY <1>1, <1>2 DEF PlaceInv, Places, FlagInv, FlagTypes, Kind
<1>4. /\ Running(r)' /\ pc'[r] # "idle" /\ attached # r
      /\ \A s \in Runs \ {r} : (Running(s)' <=> Running(s)) /\ pc'[s] = pc[s]
  BY <1>1, NobodyAssumption DEF Running, PlaceInv, SlotInv
<1>5. UNCHANGED slotVars \/ (observer' = r /\ attached' = r)
  BY DEF Claim, Attach
<1>6. SlotInv'
  BY <1>4, <1>5, NobodyAssumption DEF SlotInv, ObserverIsLive, slotVars
<1> QED
  BY <1>3, <1>6

\* A step that leaves the runs' places and the slot alone.
LEMMA PlacesQuiet ==
    ASSUME PlaceInv, SlotInv, UNCHANGED <<plan, gen, pc, slotVars>>
    PROVE  PlaceInv' /\ SlotInv'
  BY DEF PlaceInv, SlotInv, ObserverIsLive, Running, slotVars, Kind

-----------------------------------------------------------------------------
(* Steps of a run that leave another run, or its items, alone.             *)

\* The next item is one that is left.
Below == {ss \in Nat \X Nat : ss[1] < ss[2]}

LEMMA BelowIsWellFounded == IsWellFoundedOn(Below, Nat)
  BY NatLessThanWellFounded, Zenon DEF OpToRel, Below

LEMMA NextItem ==
    ASSUME NEW n \in Nat, NEW S \in SUBSET (1..n), S # {}
    PROVE  Min(S) \in S
<1>1. PICK x \in S : \A y \in S : <<y, x>> \notin Below
  <2>1. S \subseteq Nat
    OBVIOUS
  <2> QED
    BY <2>1, WFMin, BelowIsWellFounded
<1>2. ASSUME NEW y \in S
      PROVE  x <= y
  <2>1. x \in Nat /\ y \in Nat
    OBVIOUS
  <2>2. y < x => <<y, x>> \in Below
    BY <2>1 DEF Below
  <2> QED
    BY <1>1, <2>1, <2>2
<1> QED
  BY <1>2 DEF Min

\* A step, maybe of another run, that changes nothing of run r; somebody may
\* have been stopped by it.
Same(r) ==
    /\ pc'[r] = pc[r] /\ item'[r] = item[r] /\ result'[r] = result[r]
    /\ dead'[r] = dead[r] /\ early'[r] = early[r]

LEMMA SameKeepsRun ==
    ASSUME NEW r \in Runs, RunInv(r), UNCHANGED plan, Same(r), stopped \subseteq stopped'
    PROVE  RunInv(r)'
<1>1. /\ Kind(r)' = Kind(r) /\ Items(r)' = Items(r)
      /\ InFlight(r)' = InFlight(r) /\ Lost(r)' = Lost(r) /\ Reported(r)' = Reported(r)
  BY DEF Same, Kind, Items, InFlight, Lost, Reported
<1>2. StopInv(r)'
  BY <1>1 DEF RunInv, StopInv, Same
<1>3. StageInv(r)'
  BY <1>1 DEF RunInv, StageInv, Same
<1>4. LandedOf(r)'
  BY <1>1 DEF RunInv, ResultInv, LandedOf, Same
<1>5. StopsOf(r)'
  BY <1>1 DEF RunInv, ResultInv, StopsOf, Same
<1>6. CompleteOf(r)'
  BY <1>1 DEF RunInv, ResultInv, CompleteOf, Same
<1> QED
  BY <1>1, <1>2, <1>3, <1>4, <1>5, <1>6 DEF RunInv, ResultInv, Same

\* A step of run r's dispatch, before its result: its items are as they were.
LEMMA DispatchKeepsRun ==
    ASSUME PlanInv, NEW r \in Runs, RunInv(r), UNCHANGED plan, stopped \subseteq stopped',
           item'[r] = item[r], dead'[r] = dead[r], result'[r] = result[r], StageInv(r)',
           pc[r] # "done", pc'[r] # "done",
           early'[r] => dead[r] \/ r \in stopped
    PROVE  RunInv(r)'
<1>1. Kind(r)' = Kind(r) /\ Items(r)' = Items(r)
  BY DEF Kind, Items
<1>2. StopInv(r)'
  BY <1>1 DEF RunInv, StopInv
<1>3. ResultInv(r)'
  BY DEF ResultInv, LandedOf, StopsOf, CompleteOf
<1> QED
  BY <1>1, <1>2, <1>3 DEF RunInv

\* The work on one item goes on: item i of run r becomes t.  What it must keep
\* is a fatal answer (it explains a latched run) and what cut it short.
Works(r, i, t) ==
    /\ \/ item[r][i].ph \in {"flying", "ended", "lost"} /\ pc'[r] = pc[r]
       \/ item[r][i].ph = "todo" /\ pc[r] = "spawn" /\ pc'[r] = "room"
    /\ item' = [item EXCEPT ![r] = [item[r] EXCEPT ![i] = t]]
    /\ ItemInv(Kind(r), t) /\ t.ph \notin {"todo", "unread"}
    /\ item[r][i].ph = "ended" => t.err = item[r][i].err /\ t.ph = "joined"
    /\ dead[r] => dead'[r]
    /\ dead'[r] => dead[r] \/ (t.err = "fatal" /\ t.ph \in {"ended", "joined"})
    /\ t.ph = "joined" /\ t.err = "fatal" => dead'[r]
    /\ CutShort(Kind(r), t) => dead'[r] \/ r \in stopped
    /\ UNCHANGED <<plan, stopped, result, early>>

LEMMA WorkKeepsRun ==
    ASSUME PlanInv, RunTypes, NEW r \in Runs, RunInv(r), NEW i \in Items(r), NEW t, Works(r, i, t)
    PROVE  RunInv(r)'
<1> USE DEF Works
<1>1. Kind(r)' = Kind(r) /\ Items(r)' = Items(r)
  BY DEF Kind, Items
<1>2. /\ item'[r] = [item[r] EXCEPT ![i] = t]
      /\ item[r] \in [Items(r) -> ItemRecord]
      /\ t \in ItemRecord
  BY DEF RunTypes, RunInv, ItemInv
<1>3. /\ item'[r] \in [Items(r) -> ItemRecord]
      /\ item'[r][i] = t
      /\ \A j \in Items(r) \ {i} : item'[r][j] = item[r][j]
  BY <1>2
<1>4. \A j \in Items(r) : ItemInv(Kind(r), item'[r][j])
  BY <1>3 DEF RunInv
<1>5. pc[r] \notin {"idle", "prepare", "done"}
  BY DEF RunInv, StageInv, InFlight
<1>6. StopInv(r)'
  <2>1. ASSUME dead'[r]
        PROVE  \E j \in Items(r) : /\ item'[r][j].err = "fatal"
                                    /\ item'[r][j].ph \in {"ended", "joined", "unread"}
    <3>1. CASE dead[r]
      <4>1. PICK j \in Items(r) : /\ item[r][j].err = "fatal"
                                  /\ item[r][j].ph \in {"ended", "joined", "unread"}
        BY <3>1 DEF RunInv, StopInv
      <4>2. CASE j = i
        BY <1>3, <4>1, <4>2
      <4>3. CASE j # i
        BY <1>3, <4>1, <4>3
      <4> QED
        BY <4>2, <4>3
    <3>2. CASE ~dead[r]
      BY <1>3, <2>1, <3>2
    <3> QED
      BY <3>1, <3>2
  <2>2. ASSUME NEW j \in Items(r), item'[r][j].ph = "joined", item'[r][j].err = "fatal"
        PROVE  dead'[r]
    BY <1>3, <2>2 DEF RunInv, StopInv
  <2>3. early'[r] => dead'[r] \/ r \in stopped
    BY DEF RunInv, StopInv
  <2>4. ASSUME NEW j \in Items(r), CutShort(Kind(r), item'[r][j])
        PROVE  dead'[r] \/ r \in stopped
    BY <1>3, <2>4 DEF RunInv, StopInv
  <2> QED
    BY <1>1, <2>1, <2>2, <2>3, <2>4 DEF StopInv
<1>7. StageInv(r)'
  <2>1. \A j \in Items(r) : item'[r][j].ph = "todo" => item[r][j].ph = "todo"
    BY <1>3
  <2> QED
    BY <1>1, <1>5, <2>1 DEF RunInv, StageInv
<1>8. ResultInv(r)'
  BY <1>5 DEF ResultInv, LandedOf, StopsOf, CompleteOf
<1> QED
  BY <1>1, <1>3, <1>4, <1>6, <1>7, <1>8 DEF RunInv

-----------------------------------------------------------------------------
(* The work on one item.                                                   *)

\* A write that landed without an answer comes with an error; a part that ends
\* without an error was acknowledged, or found nothing to do.
LEMMA AnswerFacts ==
    ASSUME NEW k, NEW p, NEW a \in Answers(k, p)
    PROVE  /\ a.err \in Errors /\ a.ack \in BOOLEAN /\ a.land \in BOOLEAN
           /\ a.land /\ ~a.ack => a.err # "none"
           /\ a.err = "none" => a.ack \/ <<k, p>> \in Idempotent
  BY DEF Answers, Errors

LEMMA PartFacts ==
    ASSUME NEW k
    PROVE  /\ Parts(k) = {1} \/ Parts(k) = {1, 2}
           /\ k \in {"create", "restore"} => <<k, 1>> \notin Idempotent
           /\ k \in Readers => \A p \in {1, 2} : <<k, p>> \notin Idempotent
<1>1. 1..1 = {1} /\ 1..2 = {1, 2}
  OBVIOUS
<1> QED
  BY <1>1 DEF Parts, Idempotent, Readers

LEMMA PartKeepsRun ==
    ASSUME PlanInv, RunTypes, NEW r \in Runs, RunInv(r), NEW i \in Items(r), Part(r, i)
    PROVE  RunInv(r)'
<1> DEFINE k == Kind(r)
           t == item[r][i]
           p == t.tried + 1
<1>1. PICK a \in Answers(k, p) :
        LET over == p + 1 \notin Parts(k) \/ a.err = "fatal" \/ (a.err = "plain" /\ k \notin Looping)
        IN  /\ item' = [item EXCEPT ![r][i] =
                          [ph     |-> IF over THEN "ended" ELSE "flying",
                           tried  |-> p,
                           acked  |-> Add(t.acked, p, a.ack),
                           landed |-> Add(t.landed, p, a.land),
                           err    |-> KeptError(t.err, a.err)]]
            /\ dead' = [dead EXCEPT ![r] = @ \/ (k \in Latching /\ a.err = "fatal")]
  BY DEF Part
<1> DEFINE over == p + 1 \notin Parts(k) \/ a.err = "fatal" \/ (a.err = "plain" /\ k \notin Looping)
           new == [ph     |-> IF over THEN "ended" ELSE "flying",
                   tried  |-> p,
                   acked  |-> Add(t.acked, p, a.ack),
                   landed |-> Add(t.landed, p, a.land),
                   err    |-> KeptError(t.err, a.err)]
<1>2. /\ t.ph = "flying" /\ UNCHANGED <<plan, stopped, pc, early, result>>
      /\ item' = [item EXCEPT ![r] = [item[r] EXCEPT ![i] = new]]
  BY <1>1 DEF Part, cancelVars, RunTypes
<1>3. /\ t \in ItemRecord /\ ItemInv(k, t) /\ p \in Parts(k)
  BY <1>2 DEF RunInv, ItemInv
<1>4. /\ a.err \in Errors /\ a.ack \in BOOLEAN /\ a.land \in BOOLEAN
      /\ a.land /\ ~a.ack => a.err # "none"
      /\ a.err = "none" => a.ack \/ <<k, p>> \in Idempotent
  BY AnswerFacts
<1>5. /\ Parts(k) = {1} \/ Parts(k) = {1, 2}
      /\ k \in {"create", "restore"} => <<k, 1>> \notin Idempotent
      /\ k \in Readers => \A n \in {1, 2} : <<k, n>> \notin Idempotent
  BY PartFacts
<1>6. KeptError(t.err, a.err) \in Errors /\ (KeptError(t.err, a.err) = "none" <=> t.err = "none" /\ a.err = "none")
  BY <1>3, <1>4 DEF KeptError, ItemRecord, Errors
<1>7. new \in ItemRecord
  BY <1>3, <1>4, <1>5, <1>6 DEF ItemRecord, Phases, Add
<1>8. ItemInv(k, new)
  <2>1. new.tried = p /\ new.landed \subseteq Parts(k)
    BY <1>3, <1>4 DEF ItemInv, Add
  <2>2. new.landed \subseteq new.acked \/ new.err # "none"
    BY <1>2, <1>3, <1>4, <1>6 DEF ItemInv, Add
  <2>3. ASSUME k \in {"create", "restore"}
        PROVE  /\ new.ph = "flying" /\ new.tried = 1 => 1 \in new.acked
               /\ 2 \in new.acked => 1 \in new.acked
    <3>1. p = 1 \/ p = 2
      BY <1>3, <1>5
    <3>2. k \notin Looping
      BY <2>3 DEF Looping
    <3>3. CASE p = 1
      BY <1>3, <1>4, <1>5, <2>3, <3>2, <3>3 DEF ItemInv, Add, Errors
    <3>4. CASE p = 2
      <4>1. t.tried = 1
        BY <1>3, <3>4 DEF ItemRecord
      <4> QED
        BY <1>2, <1>3, <2>3, <3>4, <4>1 DEF ItemInv, Add
    <3> QED
      BY <3>1, <3>3, <3>4
  <2>4. ASSUME k \in Readers, new.err = "none"
        PROVE  new.acked = 1..new.tried
    <3>1. t.acked = 1..t.tried /\ a.ack = TRUE
      BY <1>3, <1>4, <1>5, <1>6, <2>4 DEF ItemInv
    <3>2. new.acked = (1..t.tried) \cup {t.tried + 1}
      BY <3>1 DEF Add
    <3>3. t.tried \in {0, 1}
      BY <1>3, <1>5 DEF ItemRecord
    <3>4. \A n \in {0, 1} : (1..n) \cup {n + 1} = 1..(n + 1)
      OBVIOUS
    <3> QED
      BY <3>2, <3>3, <3>4
  <2>5. new.ph \in {"ended", "flying"} /\ (new.ph = "flying" => new.tried + 1 \in Parts(k))
    OBVIOUS
  <2> QED
    BY <1>3, <1>7, <2>1, <2>2, <2>3, <2>4, <2>5 DEF ItemInv
<1>9. ~CutShort(k, new)
  BY <1>6, <1>4 DEF CutShort, Errors
<1>10. a.err = "fatal" => new.err = "fatal" /\ new.ph = "ended"
  BY DEF KeptError
<1>11. new.ph \in {"flying", "ended"}
  OBVIOUS
<1>12. /\ dead[r] => dead'[r]
       /\ dead'[r] => dead[r] \/ a.err = "fatal"
  BY <1>1 DEF RunTypes
<1> HIDE DEF new
<1>13. Works(r, i, new)
  BY <1>2, <1>8, <1>9, <1>10, <1>11, <1>12 DEF Works
<1> QED
  BY <1>13, WorkKeepsRun

\* The gate is closed because the session died or a press was meant for the run.
LEMMA GateFacts ==
    ASSUME FlagInv, PlaceInv, NEW r \in Runs, pc[r] # "idle"
    PROVE  (IsCancelled(r) <=> r \in stopped) /\ (Gate(r) => dead[r] \/ r \in stopped)
<1>1. gen[r] > 0
  BY DEF PlaceInv, FlagInv, FlagTypes
<1>2. IsCancelled(r) <=> r \in stopped
  BY <1>1 DEF FlagInv, CancelIsExact
<1> QED
  BY <1>2 DEF Gate

LEMMA HaltKeepsRun ==
    ASSUME PlanInv, FlagInv, PlaceInv, RunTypes, NEW r \in Runs, RunInv(r), NEW i \in Items(r),
           Halt(r, i)
    PROVE  RunInv(r)'
<1> DEFINE t == item[r][i]
           new == [t EXCEPT !.ph = "ended"]
<1>1. /\ t.ph = "flying" /\ UNCHANGED <<plan, stopped, pc, early, result, dead>>
      /\ item' = [item EXCEPT ![r] = [item[r] EXCEPT ![i] = new]]
      /\ Stops(r)
  BY DEF Halt, cancelVars, RunTypes
<1>2. ItemInv(Kind(r), t) /\ t \in ItemRecord /\ pc[r] # "idle"
  BY <1>1 DEF RunInv, ItemInv, StageInv
<1>3. dead[r] \/ r \in stopped
  BY <1>1, <1>2, GateFacts DEF Stops
<1>4. /\ new \in ItemRecord /\ new.ph = "ended" /\ new.tried = t.tried /\ new.acked = t.acked
      /\ new.landed = t.landed /\ new.err = t.err
  BY <1>2 DEF ItemRecord, Phases
<1> HIDE DEF new
<1>5. ItemInv(Kind(r), new)
  BY <1>1, <1>2, <1>4 DEF ItemInv
<1>6. Works(r, i, new)
  BY <1>1, <1>3, <1>4, <1>5 DEF Works
<1> QED
  BY <1>6, WorkKeepsRun

LEMMA LoseKeepsRun ==
    ASSUME PlanInv, RunTypes, NEW r \in Runs, RunInv(r), NEW i \in Items(r), Lose(r, i)
    PROVE  RunInv(r)'
<1> DEFINE t == item[r][i]
           p == t.tried + 1
<1>1. PICK land \in {FALSE, WriteOf(Kind(r), p) # {}} :
        item' = [item EXCEPT ![r][i].ph = "lost", ![r][i].landed = Add(@, p, land)]
  BY DEF Lose
<1> DEFINE new == [t EXCEPT !.ph = "lost", !.landed = Add(t.landed, p, land)]
<1>2. t.ph = "flying" /\ Kind(r) \notin Sequential /\ UNCHANGED <<plan, stopped, pc, early, result, dead>>
  BY DEF Lose, cancelVars
<1>3. ItemInv(Kind(r), t) /\ t \in ItemRecord /\ p \in Parts(Kind(r))
  BY <1>2 DEF RunInv, ItemInv
<1>4. item' = [item EXCEPT ![r] = [item[r] EXCEPT ![i] = new]]
  BY <1>1, <1>3 DEF RunTypes, RunInv, ItemRecord
<1>5. Add(t.landed, p, land) \subseteq Parts(Kind(r)) /\ Parts(Kind(r)) \subseteq {1, 2}
  BY <1>3, PartFacts DEF ItemInv, Add
<1>6. /\ new \in ItemRecord /\ new.ph = "lost" /\ new.tried = t.tried /\ new.acked = t.acked
      /\ new.landed \subseteq Parts(Kind(r)) /\ new.err = t.err
  BY <1>3, <1>5 DEF ItemRecord, Phases
<1> HIDE DEF new
<1>7. ItemInv(Kind(r), new)
  BY <1>2, <1>3, <1>6 DEF ItemInv
<1>8. Works(r, i, new)
  BY <1>2, <1>4, <1>6, <1>7 DEF Works, CutShort
<1> QED
  BY <1>8, WorkKeepsRun

LEMMA CollectKeepsRun ==
    ASSUME PlanInv, RunTypes, NEW r \in Runs, RunInv(r), NEW i \in Items(r), Collect(r, i)
    PROVE  RunInv(r)'
<1> DEFINE t == item[r][i]
           new == [t EXCEPT !.ph = IF t.ph = "ended" THEN "joined" ELSE "gone"]
<1>1. /\ t.ph \in {"ended", "lost"} /\ UNCHANGED <<plan, stopped, pc, early, result>>
      /\ dead' = [dead EXCEPT ![r] = @ \/ (t.ph = "ended" /\ t.err = "fatal")]
  BY DEF Collect, cancelVars
<1>2. ItemInv(Kind(r), t) /\ t \in ItemRecord
  BY DEF RunInv, ItemInv
<1>3. item' = [item EXCEPT ![r] = [item[r] EXCEPT ![i] = new]]
  BY <1>2 DEF Collect, RunTypes, RunInv, ItemRecord
<1>4. /\ new \in ItemRecord /\ new.tried = t.tried /\ new.acked = t.acked
      /\ new.landed = t.landed /\ new.err = t.err
      /\ new.ph = (IF t.ph = "ended" THEN "joined" ELSE "gone")
  BY <1>1, <1>2 DEF ItemRecord, Phases
<1> HIDE DEF new
<1>5. ItemInv(Kind(r), new)
  BY <1>1, <1>2, <1>4 DEF ItemInv
<1>6. /\ dead[r] => dead'[r]
      /\ dead'[r] => dead[r] \/ (t.ph = "ended" /\ t.err = "fatal")
      /\ t.ph = "ended" /\ t.err = "fatal" => dead'[r]
  BY <1>1 DEF RunTypes
<1>7. CutShort(Kind(r), new) => dead[r] \/ r \in stopped
  BY <1>1, <1>4 DEF RunInv, StopInv, CutShort
<1>8. Works(r, i, new)
  BY <1>1, <1>3, <1>4, <1>5, <1>6, <1>7 DEF Works
<1> QED
  BY <1>8, WorkKeepsRun

-----------------------------------------------------------------------------
(* The dispatch.                                                           *)

LEMMA ClaimKeepsRun ==
    ASSUME PlanInv, PlaceInv, NEW r \in Runs, RunInv(r), Claim(r)
    PROVE  RunInv(r)'
<1>1. /\ pc[r] = "idle" /\ pc'[r] = "prepare"
      /\ UNCHANGED <<plan, stopped, item, dead, early, result>>
  BY DEF Claim, PlaceInv
<1>2. StageInv(r)'
  BY <1>1 DEF RunInv, StageInv, Items
<1>3. early[r] => dead[r] \/ r \in stopped
  BY DEF RunInv, StopInv
<1> QED
  BY <1>1, <1>2, <1>3, DispatchKeepsRun

LEMMA RoomKeepsRun ==
    ASSUME PlanInv, PlaceInv, NEW r \in Runs, RunInv(r), Room(r)
    PROVE  RunInv(r)'
<1>1. /\ pc[r] = "room" /\ pc'[r] = "spawn"
      /\ UNCHANGED <<plan, stopped, item, dead, early, result>>
  BY DEF Room, PlaceInv, cancelVars
<1>2. StageInv(r)'
  BY <1>1 DEF RunInv, StageInv, Items
<1>3. early[r] => dead[r] \/ r \in stopped
  BY DEF RunInv, StopInv
<1> QED
  BY <1>1, <1>2, <1>3, DispatchKeepsRun

LEMMA EndDispatchKeepsRun ==
    ASSUME PlanInv, FlagInv, PlaceInv, RunTypes, NEW r \in Runs, RunInv(r), EndDispatch(r)
    PROVE  RunInv(r)'
<1>1. /\ pc[r] = "spawn" /\ pc'[r] = "drain" /\ (Todo(r) = {} \/ Gate(r))
      /\ early' = [early EXCEPT ![r] = Todo(r) # {}]
      /\ UNCHANGED <<plan, stopped, item, dead, result>>
  BY DEF EndDispatch, PlaceInv, cancelVars
<1>2. early'[r] <=> Todo(r) # {}
  BY <1>1 DEF RunTypes
<1>3. early'[r] => dead[r] \/ r \in stopped
  BY <1>1, <1>2, GateFacts
<1>4. StageInv(r)'
  BY <1>1, <1>2 DEF RunInv, StageInv, Items, Todo
<1> QED
  BY <1>1, <1>3, <1>4, DispatchKeepsRun

LEMMA SpawnKeepsRun ==
    ASSUME PlanInv, PlaceInv, RunTypes, NEW r \in Runs, RunInv(r), Spawn(r)
    PROVE  RunInv(r)'
<1> DEFINE i == Min(Todo(r))
           t == item[r][i]
           new == [t EXCEPT !.ph = "flying"]
<1>1. /\ pc[r] = "spawn" /\ pc'[r] = "room" /\ Todo(r) # {}
      /\ UNCHANGED <<plan, stopped, dead, early, result>>
  BY DEF Spawn, PlaceInv, cancelVars
<1>2. i \in Todo(r)
  <2>1. plan.size[r] \in Nat /\ Todo(r) \in SUBSET (1..plan.size[r])
    BY PlanFacts DEF Todo, Items
  <2> QED
    BY <1>1, <2>1, NextItem
<1>3. i \in Items(r) /\ t.ph = "todo"
  BY <1>2 DEF Todo
<1>4. item' = [item EXCEPT ![r] = [item[r] EXCEPT ![i] = new]]
  BY DEF Spawn, RunTypes
<1> HIDE DEF i
<1>5. ItemInv(Kind(r), t) /\ t \in ItemRecord
  BY <1>3 DEF RunInv, ItemInv
<1>6. /\ new \in ItemRecord /\ new.tried = t.tried /\ new.acked = t.acked
      /\ new.landed = t.landed /\ new.err = t.err /\ new.ph = "flying"
  BY <1>5 DEF ItemRecord, Phases
<1> HIDE DEF new
<1>7. 1 \in Parts(Kind(r))
  BY PartFacts
<1>8. ItemInv(Kind(r), new)
  BY <1>3, <1>5, <1>6, <1>7, 0 + 1 = 1 DEF ItemInv
<1>9. Works(r, i, new)
  BY <1>1, <1>3, <1>4, <1>6, <1>8 DEF Works, CutShort
<1> QED
  BY <1>3, <1>9, WorkKeepsRun

LEMMA PrepareKeepsRun ==
    ASSUME PlanInv, PlaceInv, RunTypes, NEW r \in Runs, RunInv(r), Prepare(r)
    PROVE  RunInv(r)'
<1>1. /\ pc[r] = "prepare" /\ pc'[r] = "spawn"
      /\ UNCHANGED <<plan, stopped, early, result>>
  BY DEF Prepare, PlaceInv, cancelVars
<1>2. PICK u \in Unreadable(r) :
        /\ item' = [item EXCEPT ![r] = [j \in Items(r) |->
                       IF u[j] = "none" THEN @[j]
                       ELSE [@[j] EXCEPT !.ph = "unread", !.err = u[j]]]]
        /\ dead' = [dead EXCEPT ![r] = \E j \in Items(r) : u[j] = "fatal"]
  BY DEF Prepare
<1>3. Kind(r)' = Kind(r) /\ Items(r)' = Items(r)
  BY <1>1 DEF Kind, Items
<1>4. \A j \in Items(r) : u[j] \in Errors /\ (u[j] # "none" => Kind(r) = "sweep")
  BY DEF Unreadable, Errors
<1>5. \A j \in Items(r) : /\ ItemInv(Kind(r), item[r][j]) /\ item[r][j] \in ItemRecord
                           /\ item[r][j].ph = "todo"
  BY <1>1 DEF RunInv, ItemInv, StageInv
<1>6. /\ item'[r] = [j \in Items(r) |-> IF u[j] = "none" THEN item[r][j]
                                      ELSE [item[r][j] EXCEPT !.ph = "unread", !.err = u[j]]]
      /\ dead'[r] <=> \E j \in Items(r) : u[j] = "fatal"
  BY <1>2 DEF RunTypes
<1>7. \A j \in Items(r) :
         /\ item'[r][j] \in ItemRecord
         /\ ItemInv(Kind(r), item'[r][j])
         /\ item'[r][j].ph \in {"todo", "unread"}
         /\ u[j] = "fatal" => item'[r][j].ph = "unread" /\ item'[r][j].err = "fatal"
  <2> SUFFICES ASSUME NEW j \in Items(r)
               PROVE  /\ item'[r][j] \in ItemRecord
                      /\ ItemInv(Kind(r), item'[r][j])
                      /\ item'[r][j].ph \in {"todo", "unread"}
                      /\ u[j] = "fatal" => item'[r][j].ph = "unread" /\ item'[r][j].err = "fatal"
    OBVIOUS
  <2>1. CASE u[j] = "none"
    BY <1>5, <1>6, <2>1
  <2>2. CASE u[j] # "none"
    <3> DEFINE t == item[r][j]
               new == [t EXCEPT !.ph = "unread", !.err = u[j]]
    <3>1. item'[r][j] = new
      BY <1>6, <2>2
    <3>2. /\ new \in ItemRecord /\ new.ph = "unread" /\ new.err = u[j]
          /\ new.tried = t.tried /\ new.acked = t.acked /\ new.landed = t.landed
      BY <1>4, <1>5 DEF ItemRecord, Phases
    <3> HIDE DEF new
    <3>3. ItemInv(Kind(r), new)
      <4>1. Kind(r) = "sweep" /\ Kind(r) \notin Readers /\ Kind(r) \notin {"create", "restore"}
        BY <1>4, <2>2 DEF Readers
      <4> QED
        BY <1>5, <2>2, <3>2, <4>1 DEF ItemInv
    <3> QED
      BY <3>1, <3>2, <3>3
  <2> QED
    BY <2>1, <2>2
<1>8. StopInv(r)'
  <2>1. ASSUME dead'[r]
        PROVE  \E j \in Items(r) : /\ item'[r][j].err = "fatal"
                                    /\ item'[r][j].ph \in {"ended", "joined", "unread"}
    BY <1>6, <1>7, <2>1
  <2>2. \A j \in Items(r) : item'[r][j].ph \notin {"ended", "joined"}
    BY <1>7
  <2>3. early'[r] => dead'[r] \/ r \in stopped'
    <3>1. dead[r] => FALSE
      BY <1>5 DEF RunInv, StopInv
    <3> QED
      BY <1>1, <3>1 DEF RunInv, StopInv
  <2> QED
    BY <1>3, <2>1, <2>2, <2>3 DEF StopInv, CutShort
<1>9. StageInv(r)' /\ ResultInv(r)'
  BY <1>1 DEF StageInv, ResultInv, LandedOf, StopsOf, CompleteOf, RunInv
<1> QED
  BY <1>3, <1>6, <1>7, <1>8, <1>9 DEF RunInv

LEMMA PrepareFailsKeepsRun ==
    ASSUME PlanInv, PlaceInv, RunTypes, NEW r \in Runs, RunInv(r), PrepareFails(r)
    PROVE  RunInv(r)'
<1>1. /\ pc[r] = "prepare" /\ pc'[r] = "done" /\ Kind(r) \in Readers
      /\ UNCHANGED <<plan, stopped, item, dead, early>>
  BY DEF PrepareFails, PlaceInv, cancelVars
<1>2. Kind(r)' = Kind(r) /\ Items(r)' = Items(r)
  BY <1>1 DEF Kind, Items
<1>3. result'[r].complete = FALSE
  <2>1. result[r] = NoResult
    BY <1>1 DEF RunInv, StageInv
  <2>2. result'[r] = [result[r] EXCEPT !.error = "unread"]
    BY DEF PrepareFails, RunTypes
  <2> QED
    BY <2>1, <2>2 DEF NoResult
<1>4. StopInv(r)'
  BY <1>1, <1>2 DEF RunInv, StopInv
<1>5. InFlight(r)' = {}
  BY <1>1, <1>2 DEF RunInv, StageInv, InFlight
<1>6. StageInv(r)' /\ ResultInv(r)'
  BY <1>1, <1>2, <1>3, <1>5 DEF StageInv, ResultInv, LandedOf, StopsOf, CompleteOf
<1> QED
  BY <1>1, <1>2, <1>4, <1>6 DEF RunInv

-----------------------------------------------------------------------------
(* The end of a run.                                                       *)

\* What the command drops from the caches covers what was acknowledged and
\* what a lost task may have written.
LEMMA RefreshCovers ==
    ASSUME NEW r \in Runs, RunInv(r), NEW i \in Items(r), NEW p \in item[r][i].landed,
           Kind(r) \notin Readers,
           i \in Lost(r) \/ (i \in Reported(r) /\ p \in item[r][i].acked)
    PROVE  {i} \X WriteOf(Kind(r), p) \subseteq Refreshed(r)
<1> DEFINE k == Kind(r)
           t == item[r][i]
<1>1. ItemInv(k, t) /\ p \in {1, 2} /\ p \in Parts(k)
  BY PartFacts DEF RunInv, ItemInv
<1>2. i \in Lost(r) => k \notin Sequential
  BY <1>1 DEF Lost, ItemInv
<1>3. i \in Lost(r) \/ i \in Acked(r, p)
  BY DEF Acked
<1>4. WriteOf(k, p) \subseteq Writes
  BY DEF WriteOf, Writes
<1>5. {i} \X WriteOf(k, p) \subseteq Everything(r)
  BY <1>4 DEF Everything
<1>6. CASE k = "delete"
  <2>1. WriteOf(k, p) = {"row"} /\ Refreshed(r) = DeleteRefresh(r) /\ p = 1
    BY <1>1, <1>6 DEF WriteOf, Refreshed, Parts, Looping
  <2> QED
    BY <1>3, <1>5, <2>1 DEF DeleteRefresh
<1>7. CASE k = "grant"
  <2>1. /\ Refreshed(r) = GrantRefresh(r)
        /\ WriteOf(k, p) = IF p = 1 THEN {"row"} ELSE {"state"}
    BY <1>7 DEF WriteOf, Refreshed
  <2> QED
    BY <1>1, <1>3, <1>5, <2>1 DEF GrantRefresh
<1>8. CASE k = "sweep"
  <2>1. WriteOf(k, p) = {"secret"} /\ Refreshed(r) = SweepRefresh(r)
    BY <1>8 DEF WriteOf, Refreshed
  <2> QED
    BY <1>1, <1>3, <2>1 DEF SweepRefresh
<1>9. CASE k \in Sequential
  <2>1. i \in Acked(r, p) /\ i \in Reported(r) /\ p \in t.acked
    BY <1>2, <1>3, <1>9 DEF Acked
  <2>2. k \in {"create", "restore"} => i \in Acked(r, 1)
    BY <1>1, <2>1 DEF ItemInv, Acked
  <2>3. CASE k = "create"
    <3>1. Refreshed(r) = CreateRefresh(r) /\ WriteOf(k, p) \subseteq {"row", "state"}
      BY <2>3 DEF Refreshed, WriteOf
    <3> QED
      BY <1>5, <2>2, <2>3, <3>1 DEF CreateRefresh
  <2>4. CASE k = "restore"
    <3>1. Refreshed(r) = IF Acked(r, 1) # {} THEN Everything(r) ELSE {}
      BY <2>4 DEF Refreshed
    <3> QED
      BY <1>5, <2>2, <2>4, <3>1
  <2>5. CASE k = "owner"
    <3>1. /\ Refreshed(r) = IF Acked(r, 1) # {} THEN Items(r) \X {"state"} ELSE {}
          /\ WriteOf(k, p) = {"state"} /\ p = 1
      BY <1>1, <2>5 DEF Refreshed, WriteOf, Parts, Looping
    <3> QED
      BY <2>1, <3>1
  <2>6. CASE k = "stage"
    <3>1. /\ Refreshed(r) = IF Acked(r, 1) # {} THEN Items(r) \X {"board"} ELSE {}
          /\ WriteOf(k, p) = {"board"} /\ p = 1
      BY <1>1, <2>6 DEF Refreshed, WriteOf, Parts, Looping
    <3> QED
      BY <2>1, <3>1
  <2>7. CASE k = "core"
    <3>1. WriteOf(k, p) = {}
      BY <2>7 DEF WriteOf
    <3> QED
      BY <3>1
  <2> QED
    BY <1>9, <2>3, <2>4, <2>5, <2>6, <2>7 DEF Sequential
<1>10. CASE k \notin {"delete", "grant", "sweep"} \cup Sequential
  <2>1. WriteOf(k, p) = {}
    BY <1>10 DEF WriteOf, Sequential
  <2> QED
    BY <2>1
<1> QED
  BY <1>6, <1>7, <1>8, <1>9, <1>10

LEMMA FinishKeepsRun ==
    ASSUME PlanInv, FlagInv, PlaceInv, RunTypes, NEW r \in Runs, RunInv(r), Finish(r)
    PROVE  RunInv(r)'
<1> DEFINE k == Kind(r)
<1>1. /\ pc[r] = "drain" /\ pc'[r] = "done" /\ InFlight(r) = {}
      /\ UNCHANGED <<plan, stopped, item, dead, early>>
  BY DEF Finish, PlaceInv, cancelVars
<1>2. /\ result'[r].cancelled = ReportCancelled(r)
      /\ result'[r].failures = Erring(r) \cup Lost(r) \cup Interrupted(r)
      /\ result'[r].fresh = Refreshed(r)
      /\ result'[r].complete = Complete(r)
  BY DEF Finish, RunTypes
<1>3. /\ Kind(r)' = Kind(r) /\ Items(r)' = Items(r)
      /\ InFlight(r)' = InFlight(r) /\ Lost(r)' = Lost(r) /\ Reported(r)' = Reported(r)
  BY <1>1 DEF Kind, Items, InFlight, Lost, Reported
<1>4. \A i \in Items(r) : ItemInv(k, item[r][i]) /\ item[r][i] \in ItemRecord
  BY DEF RunInv, ItemInv
<1>5. \A i \in Items(r) : item[r][i].ph \in {"todo", "unread"} \/ i \in Reported(r) \/ i \in Lost(r)
  BY <1>1, <1>4 DEF InFlight, Reported, Lost, ItemRecord, Phases
<1>6. (IsCancelled(r) <=> r \in stopped)
  BY <1>1, GateFacts
<1>7. StopInv(r)'
  BY <1>1, <1>3 DEF RunInv, StopInv
<1>8. StageInv(r)'
  BY <1>1, <1>3 DEF RunInv, StageInv
<1>9. LandedOf(r)'
  <2> SUFFICES ASSUME k \notin Readers, NEW i \in Items(r), NEW p \in item[r][i].landed
               PROVE  IF p \in item[r][i].acked \/ i \in Lost(r)
                      THEN {i} \X WriteOf(k, p) \subseteq Refreshed(r)
                      ELSE i \in Erring(r)
    BY <1>1, <1>2, <1>3 DEF LandedOf
  <2>1. i \in Reported(r) \/ i \in Lost(r)
    BY <1>4, <1>5 DEF ItemInv
  <2>2. CASE p \in item[r][i].acked \/ i \in Lost(r)
    BY <2>1, <2>2, RefreshCovers
  <2>3. CASE ~(p \in item[r][i].acked \/ i \in Lost(r))
    BY <1>4, <2>1, <2>3 DEF ItemInv, Erring, Reported
  <2> QED
    BY <2>2, <2>3
<1>10. StopsOf(r)'
  <2> SUFFICES ASSUME k \notin Readers
               PROVE  /\ (\E i \in Items(r) : \/ item[r][i].ph = "todo"
                                              \/ i \in Reported(r) /\ item[r][i].err = "none"
                                                 /\ item[r][i].tried + 1 \in Parts(k))
                         => \/ ReportCancelled(r)
                            \/ \E i \in Erring(r) : item[r][i].err = "fatal"
                      /\ ReportCancelled(r) => r \in stopped
    BY <1>1, <1>2, <1>3 DEF StopsOf
  <2>1. ReportCancelled(r) <=> \/ IsCancelled(r)
                               \/ k \in Writers /\ early[r] /\ ~dead[r]
    <3>1. k \in Kinds
      BY <1>1, PlanFacts DEF PlaceInv, FlagInv, FlagTypes
    <3>2. CASE k \in Writers
      BY <3>2 DEF ReportCancelled, Writers, Sequential
    <3>3. CASE k \in Sequential
      BY <3>3 DEF ReportCancelled, Writers, Sequential
    <3> QED
      BY <3>1, <3>2, <3>3 DEF Kinds
  <2>2. ReportCancelled(r) => r \in stopped
    BY <1>6, <2>1 DEF RunInv, StopInv
  <2>3. ASSUME NEW i \in Items(r),
               \/ item[r][i].ph = "todo"
               \/ i \in Reported(r) /\ item[r][i].err = "none" /\ item[r][i].tried + 1 \in Parts(k)
        PROVE  dead[r] \/ r \in stopped
    <3>1. item[r][i].ph = "todo" => early[r]
      BY <1>1 DEF RunInv, StageInv
    <3>2. i \in Reported(r) /\ item[r][i].err = "none" /\ item[r][i].tried + 1 \in Parts(k) =>
            CutShort(k, item[r][i])
      BY DEF CutShort, Reported
    <3> QED
      BY <2>3, <3>1, <3>2 DEF RunInv, StopInv
  <2>4. dead[r] => \E i \in Erring(r) : item[r][i].err = "fatal"
    BY <1>1 DEF RunInv, StopInv, Erring, InFlight
  <2> QED
    BY <1>6, <2>1, <2>2, <2>3, <2>4
<1>11. CompleteOf(r)'
  <2> SUFFICES ASSUME k \in Readers, Complete(r), NEW i \in Items(r)
               PROVE  \/ k = "probe" /\ i \in Lost(r)
                      \/ /\ i \in Reported(r)
                         /\ \/ item[r][i].acked = Parts(k)
                            \/ k \in {"backup", "probe"} /\ item[r][i].err = "plain"
    BY <1>1, <1>2, <1>3 DEF CompleteOf
  <2>1. ~dead[r] /\ ~ReportCancelled(r)
    BY DEF Complete, ReportError
  <2>2. ~early[r] /\ r \notin stopped
    BY <1>6, <2>1 DEF ReportCancelled, Readers, Writers, Sequential
  <2>3. i \in Reported(r) \/ i \in Lost(r)
    <3>1. item[r][i].ph # "todo"
      BY <1>1, <2>2 DEF RunInv, StageInv
    <3>2. item[r][i].ph # "unread"
      BY <1>4 DEF ItemInv, Readers
    <3> QED
      BY <1>5, <3>1, <3>2
  <2>4. k \notin {"backup", "probe"} => i \notin Erring(r)
    BY DEF Complete, SitesFailed
  <2>5. k # "probe" => i \notin Lost(r)
    BY <2>1 DEF Complete, SitesFailed, ReportError
  <2>6. ASSUME i \in Reported(r), item[r][i].err = "none"
        PROVE  item[r][i].acked = Parts(k)
    <3> DEFINE t == item[r][i]
    <3>1. t.tried + 1 \notin Parts(k)
      BY <2>1, <2>2, <2>6 DEF RunInv, StopInv, CutShort, Reported
    <3>2. t.acked = 1..t.tried /\ t.tried \in 0..2 /\ (t.tried # 0 => t.tried \in Parts(k))
      BY <1>4, <2>6 DEF ItemInv, ItemRecord
    <3>3. Parts(k) = {1} \/ Parts(k) = {1, 2}
      BY PartFacts
    <3>4. (t.tried = 1 /\ Parts(k) = {1}) \/ (t.tried = 2 /\ Parts(k) = {1, 2})
      BY <3>1, <3>2, <3>3
    <3>5. 1..1 = {1} /\ 1..2 = {1, 2}
      OBVIOUS
    <3> QED
      BY <3>2, <3>4, <3>5
  <2>7. i \in Reported(r) => item[r][i].err # "fatal"
    BY <2>1 DEF RunInv, StopInv, Reported
  <2>8. item[r][i].err \in {"none", "plain", "fatal"}
    BY <1>4 DEF ItemRecord, Errors
  <2>9. i \in Reported(r) /\ item[r][i].err # "none" => i \in Erring(r)
    BY DEF Erring, Reported
  <2> QED
    BY <2>3, <2>4, <2>5, <2>6, <2>7, <2>8, <2>9
<1> QED
  BY <1>1, <1>3, <1>4, <1>7, <1>8, <1>9, <1>10, <1>11 DEF RunInv, ResultInv

-----------------------------------------------------------------------------
(* The invariant, and what follows from it.                                *)

LEMMA InitFan == Init => FanInv
<1> SUFFICES ASSUME Init
             PROVE  FanInv
  OBVIOUS
<1>1. PlanInv
  BY DEF Init, PlanInv
<1>2. \A r \in Runs : Flag(r) \in Flags
  BY <1>1, PlanFacts
<1>3. FlagInv
  <2>1. "idle" \notin Flags
    BY DEF Flags, Readers
  <2> QED
    BY <1>2, <2>1 DEF Init, FlagInv, FlagTypes, Generations, PressesMeantForSeen, CancelIsExact
<1>4. PlaceInv
  BY DEF Init, PlaceInv, Places
<1>5. SlotInv
  BY DEF Init, SlotInv, ObserverIsLive
<1>6. RunTypes
  BY DEF Init, RunTypes
<1>7. ASSUME NEW r \in Runs
      PROVE  RunInv(r)
  <2>1. /\ item[r] = [i \in Items(r) |-> NewItem] /\ result[r] = NoResult
        /\ dead[r] = FALSE /\ early[r] = FALSE /\ pc[r] = "idle"
    BY DEF Init
  <2>2. NewItem \in ItemRecord /\ ItemInv(Kind(r), NewItem)
    <3>1. 1..0 = {}
      OBVIOUS
    <3> QED
      BY <3>1 DEF NewItem, ItemInv, ItemRecord, Phases, Errors
  <2>3. NewItem.ph = "todo"
    BY DEF NewItem
  <2>4. StopInv(r)
    BY <2>1, <2>3 DEF StopInv, CutShort
  <2>5. StageInv(r) /\ ResultInv(r)
    BY <2>1, <2>3 DEF StageInv, ResultInv, LandedOf, StopsOf, CompleteOf
  <2> QED
    BY <2>1, <2>2, <2>4, <2>5 DEF RunInv
<1> QED
  BY <1>1, <1>3, <1>4, <1>5, <1>6, <1>7 DEF FanInv, RunsInv

\* A step of one run leaves the others as they are.
LEMMA StepSparesOthers ==
    ASSUME RunTypes, PlaceInv, NEW r \in Runs, Claim(r) \/ Continue(r)
    PROVE  /\ RunTypes'
           /\ \A s \in Runs \ {r} : Same(s)
           /\ UNCHANGED <<plan, stopped>>
<1> USE DEF RunTypes, PlaceInv, Same, cancelVars
<1>1. CASE Claim(r)
  BY <1>1 DEF Claim
<1>2. CASE Prepare(r)
  <2>1. PICK u \in Unreadable(r) :
          /\ item' = [item EXCEPT ![r] = [j \in Items(r) |->
                         IF u[j] = "none" THEN @[j]
                         ELSE [@[j] EXCEPT !.ph = "unread", !.err = u[j]]]]
          /\ dead' = [dead EXCEPT ![r] = \E j \in Items(r) : u[j] = "fatal"]
    BY <1>2 DEF Prepare
  <2>2. pc' = [pc EXCEPT ![r] = "spawn"] /\ UNCHANGED <<plan, stopped, early, result>>
    BY <1>2 DEF Prepare
  <2> QED
    BY <2>1, <2>2
<1>3. CASE PrepareFails(r)
  BY <1>3 DEF PrepareFails
<1>4. CASE Room(r)
  BY <1>4 DEF Room
<1>5. CASE Spawn(r)
  BY <1>5 DEF Spawn
<1>6. CASE EndDispatch(r)
  BY <1>6 DEF EndDispatch
<1>7. CASE Finish(r)
  BY <1>7 DEF Finish
<1>8. ASSUME NEW i \in Items(r), Part(r, i)
      PROVE  RunTypes' /\ (\A s \in Runs \ {r} : Same(s)) /\ UNCHANGED <<plan, stopped>>
  BY <1>8 DEF Part
<1>9. ASSUME NEW i \in Items(r), Halt(r, i) \/ Lose(r, i) \/ Collect(r, i)
      PROVE  RunTypes' /\ (\A s \in Runs \ {r} : Same(s)) /\ UNCHANGED <<plan, stopped>>
  BY <1>9 DEF Halt, Lose, Collect
<1> QED
  BY <1>1, <1>2, <1>3, <1>4, <1>5, <1>6, <1>7, <1>8, <1>9 DEF Continue

LEMMA RunKeepsFan ==
    ASSUME FanInv, NEW r \in Runs, Claim(r) \/ Continue(r)
    PROVE  FanInv'
<1> USE DEF FanInv, RunsInv
<1>1. /\ RunTypes' /\ (\A s \in Runs \ {r} : Same(s)) /\ UNCHANGED <<plan, stopped>>
  BY StepSparesOthers
<1>2. PlanInv'
  BY <1>1 DEF PlanInv
<1>3. RunInv(r)'
  <2>1. CASE Claim(r)
    BY <2>1, ClaimKeepsRun
  <2>2. CASE Prepare(r) \/ PrepareFails(r)
    BY <2>2, PrepareKeepsRun, PrepareFailsKeepsRun
  <2>3. CASE Room(r) \/ Spawn(r) \/ EndDispatch(r)
    BY <2>3, RoomKeepsRun, SpawnKeepsRun, EndDispatchKeepsRun
  <2>4. CASE Finish(r)
    BY <2>4, FinishKeepsRun
  <2>5. ASSUME NEW i \in Items(r), Part(r, i) \/ Halt(r, i) \/ Lose(r, i) \/ Collect(r, i)
        PROVE  RunInv(r)'
    BY <2>5, PartKeepsRun, HaltKeepsRun, LoseKeepsRun, CollectKeepsRun
  <2> QED
    BY <2>1, <2>2, <2>3, <2>4, <2>5 DEF Continue
<1>4. \A s \in Runs \ {r} : RunInv(s)'
  BY <1>1, SameKeepsRun
<1>5. FlagInv' /\ PlaceInv' /\ SlotInv'
  <2>1. CASE Claim(r)
    BY <2>1, ClaimKeepsFlags, ClaimKeepsPlaces
  <2>2. CASE Continue(r)
    <3>1. UNCHANGED <<plan, cancelVars, gen>>
      BY <2>2 DEF Continue, Prepare, PrepareFails, Room, Spawn, EndDispatch, Finish, Part, Halt,
                  Lose, Collect
    <3> QED
      BY <2>2, <3>1, FlagsQuiet, ContinueMoves, MovesKeepPlaces
  <2> QED
    BY <2>1, <2>2
<1> QED
  BY <1>1, <1>2, <1>3, <1>4, <1>5

\* What leaves the runs alone: the adaptive cap, and the two halves of a press.
LEMMA OthersKeepFan ==
    ASSUME FanInv, UNCHANGED <<plan, gen, pc, item, dead, early, result, slotVars>>,
           FlagInv', stopped \subseteq stopped'
    PROVE  FanInv'
<1> USE DEF FanInv, RunsInv
<1>1. \A s \in Runs : Same(s)
  BY DEF Same
<1>2. \A s \in Runs : RunInv(s)'
  BY <1>1, SameKeepsRun
<1>3. PlanInv' /\ RunTypes'
  BY DEF PlanInv, RunTypes
<1>4. PlaceInv' /\ SlotInv'
  BY PlacesQuiet
<1> QED
  BY <1>2, <1>3, <1>4

LEMMA NextFan == FanInv /\ [Next]_vars => FanInv'
<1> SUFFICES ASSUME FanInv, [Next]_vars
             PROVE  FanInv'
  OBVIOUS
<1> USE DEF FanInv
<1>1. ASSUME NEW r \in Runs, Claim(r) \/ Continue(r)
      PROVE  FanInv'
  BY <1>1, RunKeepsFan
<1>2. ASSUME NEW r \in Runs,
             OnThrottle(r) \/ Elapse(r) \/ RecoverLook(r) \/ RecoverLoad(r) \/ RecoverStore(r)
      PROVE  FanInv'
  <2>1. UNCHANGED <<plan, cancelVars, gen, pc, item, dead, early, result, slotVars>>
    BY <1>2 DEF OnThrottle, Elapse, RecoverLook, RecoverLoad, RecoverStore
  <2>2. stopped \subseteq stopped'
    BY <2>1 DEF cancelVars
  <2> QED
    BY <2>1, <2>2, FlagsQuiet, OthersKeepFan
<1>3. ASSUME NEW q \in Presses, NEW f \in Flags, PressLoad(q, f)
      PROVE  FanInv'
  <2>1. /\ UNCHANGED <<plan, gen, pc, item, dead, early, result, slotVars>>
        /\ stopped \subseteq stopped'
    BY <1>3 DEF PressLoad
  <2> QED
    BY <1>3, <2>1, PressLoadKeepsFlags, OthersKeepFan
<1>4. ASSUME NEW q \in Presses, PressMark(q)
      PROVE  FanInv'
  <2>1. UNCHANGED <<plan, gen, pc, item, dead, early, result, slotVars>>
    BY <1>4 DEF PressMark
  <2> QED
    BY <1>4, <2>1, PressMarkKeepsFlags, OthersKeepFan
<1>5. CASE UNCHANGED vars
  <2>1. UNCHANGED <<plan, cancelVars, gen, pc, item, dead, early, result, slotVars>>
    BY <1>5 DEF vars, cancelVars, slotVars
  <2>2. stopped \subseteq stopped'
    BY <2>1 DEF cancelVars
  <2> QED
    BY <2>1, <2>2, FlagsQuiet, OthersKeepFan
<1> QED
  BY <1>1, <1>2, <1>3, <1>4, <1>5 DEF Next

\* The invariant holds in every reachable state, whatever the plan.
THEOREM FanInvariance == Spec => []FanInv
  BY InitFan, NextFan, PTL DEF Spec

\* CancelFlag (state.rs): with any number of presses and claims of one flag, a
\* token answers "cancelled" exactly for the runs a press was meant for.
THEOREM CancelsAreExact == Spec => []CancelIsExact
<1>1. FanInv => CancelIsExact
  BY DEF FanInv, FlagInv
<1> QED
  BY <1>1, FanInvariance, PTL

\* ThrottleGuard (client.rs): with any number of runs in one slot, it holds the
\* last attached one while that runs, and nobody after it.
THEOREM ObserverStaysLive == Spec => []ObserverIsLive
<1>1. FanInv => ObserverIsLive
  BY DEF FanInv, SlotInv
<1> QED
  BY <1>1, FanInvariance, PTL

\* The endings of commands/bulk.rs: for any number of items and any width, what a
\* run wrote is out of the caches or in a failure row.
THEOREM WritesAreAccountedFor == Spec => []LandedIsAccountedFor
<1>1. FanInv => LandedIsAccountedFor
  BY DEF FanInv, RunsInv, RunInv, ResultInv, LandedOf, LandedIsAccountedFor
<1> QED
  BY <1>1, FanInvariance, PTL

\* run_bulk_capped and run_bulk_seq: a run that left work undone reports a Cancel
\* that was pressed for it, or the fatal answer that stopped it.
THEOREM StopsHaveAReason == Spec => []StopsAreExplained
<1>1. FanInv => StopsAreExplained
  BY DEF FanInv, RunsInv, RunInv, ResultInv, StopsOf, StopsAreExplained
<1> QED
  BY <1>1, FanInvariance, PTL

\* The tenant-wide reads: a result that is read as complete covers every item.
THEOREM CompleteResultsAre == Spec => []CompleteIsComplete
<1>1. FanInv => CompleteIsComplete
  BY DEF FanInv, RunsInv, RunInv, ResultInv, CompleteOf, CompleteIsComplete
<1> QED
  BY <1>1, FanInvariance, PTL
=============================================================================
