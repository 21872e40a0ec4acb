---------------------------- MODULE FirstPassage ----------------------------
(***************************************************************************)
(* How a branch is absorbed: the writers of the absorbing predicate        *)
(* (first-passage crossings, dated facts, institutional votes), the        *)
(* provisional end-states of a criterion that must hold, their persistence *)
(* checks, and the absorption monitor that stamps the answer               *)
(* (event_time.py, world_dynamics.py, phase_consumers.py).                 *)
(*                                                                         *)
(* Events are handled one by one in time order, those of one time in any   *)
(* order: what TemporalBranch's engine amounts to (EventSim).  An event is *)
(* its source, its time and, for a crossing, its generation; times start   *)
(* at 1, since a stamp of 0 counts as none.  The cumulative hazard is      *)
(* abstracted: a process's crossing falls anywhere from now on, or beyond  *)
(* the horizon.  The operator of an event and the monitor run in the order *)
(* of the plan's operator list.                                            *)
(***************************************************************************)
EXTENDS Integers

CONSTANTS
  Process,        \* first-passage processes
  Fact,           \* dated facts (hazard_round events)
  Vote,           \* absorbing institutional decisions
  Breaker,        \* mechanisms that break a provisional end-state
  Other,          \* any other event
  Mode, NoMode,   \* absorbing modes; none
  ModeOf,         \* the mode a process, fact or vote absorbs into
  Window,         \* persistence_s of a process or a fact
  Late,           \* operators that come after the monitor in the operator list
  Initial,        \* the queues a branch may be built with
  Horizon,
  MaxGeneration   \* bound: how often a process is re-projected

Writer == Process \cup Fact
Source == Writer \cup Vote \cup Breaker \cup Other
Operator == {"first_passage", "hazard_round", "institutional_decision",
             "persistence_check", "other"}
Event == {e \in [src : Source, at : Nat \ {0}, gen : Nat, check : BOOLEAN] :
            e.check => e.src \in Writer}

ASSUME PassageAssumption ==
  /\ Process \cap (Fact \cup Vote \cup Breaker \cup Other) = {}
  /\ Fact \cap (Vote \cup Breaker \cup Other) = {}
  /\ Vote \cap (Breaker \cup Other) = {}
  /\ Breaker \cap Other = {}
  /\ NoMode \notin Mode
  /\ ModeOf \in [Writer \cup Vote -> Mode]
  /\ Window \in [Writer -> Nat]
  /\ Late \subseteq Operator
  /\ Horizon \in Nat /\ MaxGeneration \in Nat

\* A plan schedules one event of each process and fact.  Sources may share a
\* mode: facts of one kind do, and all the votes of one plan.
ASSUME PlanAssumption ==
  \A q \in Initial :
    /\ q \subseteq Event
    /\ \A e \in q : ~e.check /\ e.gen = 0
    /\ \A e, f \in q : e.src = f.src /\ e.src \in Writer => e = f

VARIABLES
  clock,      \* world.clock.now
  queue,      \* pending events
  prov,       \* provisional_absorbing_mode
  provAt,     \* when it was written
  flagAt,     \* when absorbing_state_reached was written, 0: it was not
  mode,       \* absorbing_mode
  stampAt,    \* absorbed_at, 0: not stamped
  stampBy,    \* absorbed_by
  fired, gen  \* each process's fired flag and generation

provVars == <<prov, provAt>>
flagVars == <<flagAt, mode>>
procVars == <<fired, gen>>
vars == <<clock, queue, provVars, flagVars, stampAt, stampBy, procVars>>

-----------------------------------------------------------------------------
Init ==
  /\ clock = 0
  /\ queue \in Initial
  /\ prov = NoMode /\ provAt = 0
  /\ flagAt = 0 /\ mode = NoMode
  /\ stampAt = 0 /\ stampBy = NoMode
  /\ fired = [p \in Process |-> FALSE]
  /\ gen = [p \in Process |-> 0]

\* The next event: none before it, and not beyond the horizon.
IsNext(e) ==
  /\ e.at <= Horizon
  /\ \A f \in queue : e.at <= f.at

\* e is handled and followUps are scheduled.
Pop(e, followUps) ==
  /\ IsNext(e)
  /\ clock' = e.at
  /\ queue' = (queue \ {e}) \cup followUps

OperatorOf(e) ==
  CASE e.check -> "persistence_check"
    [] ~e.check /\ e.src \in Process -> "first_passage"
    [] ~e.check /\ e.src \in Fact -> "hazard_round"
    [] ~e.check /\ e.src \in Vote -> "institutional_decision"
    [] OTHER -> "other"

\* A mutant of SeesWrite: the monitor comes first in the operator list.
SeesWriteNever(e) == FALSE

\* The monitor observes what e's own operator writes.
SeesWrite(e) == OperatorOf(e) \notin Late

\* AbsorptionMonitorOperator: the first time it finds the predicate, it stamps.
Monitor(e) ==
  LET at == IF SeesWrite(e) THEN flagAt' ELSE flagAt
      by == IF SeesWrite(e) THEN mode' ELSE mode
  IN  IF at # 0 /\ stampAt = 0
      THEN stampAt' = e.at /\ stampBy' = by
      ELSE UNCHANGED <<stampAt, stampBy>>

\* Nothing is absorbed and no end-state holds provisionally.
Open == stampAt = 0 /\ flagAt = 0 /\ prov = NoMode

\* A mutant of CheckOf: a fact's end-state is not checked.
CheckOfProcess(s, t) ==
  IF s \in Process
  THEN {[src |-> s, at |-> t + Window[s], gen |-> 0, check |-> TRUE]} ELSE {}

\* The persistence check of the end-state s reached at t.
CheckOf(s, t) == {[src |-> s, at |-> t + Window[s], gen |-> 0, check |-> TRUE]}

\* The end-state of s is reached: provisionally when the criterion must hold.
Reach(e) ==
  IF Window[e.src] > 0
  THEN /\ Pop(e, CheckOf(e.src, e.at))
       /\ prov' = ModeOf[e.src] /\ provAt' = e.at
       /\ UNCHANGED flagVars
  ELSE /\ Pop(e, {})
       /\ flagAt' = e.at /\ mode' = ModeOf[e.src]
       /\ UNCHANGED provVars

\* The event changes nothing but what the monitor sees.
Pass(e) == Pop(e, {}) /\ UNCHANGED <<provVars, flagVars, procVars>>
-----------------------------------------------------------------------------
IsCurrent(e) == ~fired[e.src] /\ e.gen = gen[e.src]

\* A crossing superseded by a re-projection is canceled: no operator runs.
Cancel(e) ==
  /\ e.src \in Process /\ ~e.check
  /\ ~IsCurrent(e)
  /\ Pop(e, {})
  /\ UNCHANGED <<provVars, flagVars, stampAt, stampBy, procVars>>

\* FirstPassageOperator: the first crossing on an open branch is a passage; any
\* other is consumed.
Cross(e) ==
  /\ e.src \in Process /\ ~e.check
  /\ IsCurrent(e)
  /\ IF Open
     THEN /\ Reach(e)
          /\ fired' = [fired EXCEPT ![e.src] = TRUE]
          /\ UNCHANGED gen
     ELSE Pass(e)
  /\ Monitor(e)

\* HazardRoundOperator: a fact without approved provenance changes nothing.
Round(e) ==
  /\ e.src \in Fact /\ ~e.check
  /\ \/ Open /\ Reach(e) /\ UNCHANGED procVars
     \/ Pass(e)
  /\ Monitor(e)

\* A mutant of MayDecide: an absorption is not looked at.
MayDecideAgain == TRUE

\* An institution decides until first passage, a provisional state or not.
MayDecide == stampAt = 0 /\ flagAt = 0

\* InstitutionalDecisionOperator, absorbing: the vote passes or fails.
Decide(e) ==
  /\ e.src \in Vote
  /\ \/ /\ MayDecide
        /\ Pop(e, {})
        /\ flagAt' = e.at /\ mode' = ModeOf[e.src]
        /\ UNCHANGED <<provVars, procVars>>
     \/ Pass(e)
  /\ Monitor(e)

\* break_provisional_state
Break(e) ==
  /\ e.src \in Breaker
  /\ Pop(e, {})
  /\ prov' = NoMode
  /\ provAt' = IF prov = NoMode THEN provAt ELSE e.at
  /\ UNCHANGED <<flagVars, procVars>>
  /\ Monitor(e)

Happen(e) == e.src \in Other /\ Pass(e) /\ Monitor(e)

\* A mutant of Holds: any provisional state will do.
HoldsAny(e) == prov # NoMode

\* The end-state the check is about still holds.
Holds(e) == prov = ModeOf[e.src]

\* A mutant of Confirmed: the marker is read after it was cleared.
ConfirmedCleared == prov'

\* The confirmed mode is the marker's.
Confirmed == prov

\* PersistenceCheckOperator on a state that holds: the criterion is met now.
Confirm(e) ==
  /\ e.check
  /\ stampAt = 0 /\ Holds(e)
  /\ Pop(e, {})
  /\ prov' = NoMode /\ provAt' = e.at
  /\ flagAt' = e.at /\ mode' = Confirmed
  /\ UNCHANGED procVars
  /\ Monitor(e)

\* A crossing of process p at t, if it is within the horizon.
CrossingAt(p, g, t) ==
  IF t <= Horizon
  THEN {[src |-> p, at |-> t, gen |-> g, check |-> FALSE]} ELSE {}

\* A mutant of Rearm: the process stays fired.
RearmFired(p) == fired

\* resume_first_passage_after_collapse: the process is live again.
Rearm(p) == [fired EXCEPT ![p] = FALSE]

\* The state was broken before: a process resumes with a fresh threshold.
Collapse(e) ==
  /\ e.check
  /\ stampAt = 0 /\ ~Holds(e)
  /\ IF e.src \in Process
     THEN /\ fired' = Rearm(e.src)
          /\ gen' = [gen EXCEPT ![e.src] = @ + 1]
          /\ \E t \in e.at..Horizon + 1 :
               Pop(e, CrossingAt(e.src, gen[e.src] + 1, t))
     ELSE Pop(e, {}) /\ UNCHANGED procVars
  /\ UNCHANGED <<provVars, flagVars>>
  /\ Monitor(e)

\* After absorption the check does not apply.
Skip(e) == e.check /\ stampAt # 0 /\ Pass(e) /\ Monitor(e)

\* reproject_hazards, between two timestamps: a live process whose modulation
\* changed is given a new generation and a new crossing.
Reproject(p) ==
  /\ clock > 0 /\ \A e \in queue : e.at > clock
  /\ ~fired[p] /\ gen[p] < MaxGeneration
  /\ gen' = [gen EXCEPT ![p] = @ + 1]
  /\ \E t \in clock..Horizon + 1 :
       queue' = queue \cup CrossingAt(p, gen[p] + 1, t)
  /\ UNCHANGED <<clock, provVars, flagVars, stampAt, stampBy, fired>>

Handle(e) ==
  \/ Cancel(e) \/ Cross(e) \/ Round(e) \/ Decide(e) \/ Break(e)
  \/ Happen(e) \/ Confirm(e) \/ Collapse(e) \/ Skip(e)

Next == (\E e \in queue : Handle(e)) \/ (\E p \in Process : Reproject(p))

\* The branch's loop handles the next event until none is left in the horizon.
Spec == Init /\ [][Next]_vars /\ WF_vars(\E e \in queue : Handle(e))

-----------------------------------------------------------------------------
\* EventTimeContract.readout: the stamp, else when the predicate was written.
Readout == IF stampAt # 0 THEN stampAt ELSE flagAt

\* EventTimeContract._mode_of: the mode that goes with it.
ReadoutMode == IF stampAt # 0 THEN stampBy ELSE mode

\* How long what a source reaches must hold before it is the answer: what a vote
\* decides need not.
HoldOf == [s \in Writer \cup Vote |-> IF s \in Writer THEN Window[s] ELSE 0]

\* The readout as a register that is written once (AnswerRegister).
Register == INSTANCE AnswerRegister
  WITH Source <- Writer \cup Vote, Hold <- HoldOf, now <- clock,
       claim <- prov, since <- (IF prov = NoMode THEN 0 ELSE provAt),
       answer <- ReadoutMode, at <- Readout

\* Every variable keeps its type, and the predicate and its mode are written
\* together.
TypeOK ==
  /\ clock \in Nat /\ queue \subseteq Event
  /\ prov \in Mode \cup {NoMode} /\ provAt \in Nat
  /\ flagAt \in Nat /\ mode \in IF flagAt = 0 THEN {NoMode} ELSE Mode
  /\ stampAt \in Nat /\ stampBy \in IF stampAt = 0 THEN {NoMode} ELSE Mode
  /\ fired \in [Process -> BOOLEAN] /\ gen \in [Process -> Nat]

\* The answer is stamped at the time and with the mode of the write that
\* absorbed the branch, not one event late (event_time.py:770).
StampIsFirstPassage ==
  stampAt # 0 => stampAt = flagAt /\ stampBy = mode

\* Once a branch has an answer, nothing that happens later changes when it was
\* absorbed or by what.
AnswerIsFinal == [][flagAt # 0 => UNCHANGED <<Readout, flagAt, mode>>]_vars

\* A provisional end-state is never forgotten: while the branch is open its
\* check is pending, and so is that of a process that fired, which resumes or
\* is confirmed.
ClaimIsChecked ==
  flagAt = 0 =>
    /\ prov # NoMode => \E e \in queue : e.check /\ ModeOf[e.src] = prov
    /\ \A p \in Process : fired[p] => \E e \in queue : e.check /\ e.src = p

\* No other writer claims the mode of s provisionally.
Sole(s) ==
  \A t \in Writer : ModeOf[t] = ModeOf[s] /\ Window[t] > 0 => t = s

\* A provisional end-state that becomes the answer held for its whole window:
\* no event broke it since it was reached (world_dynamics.py:29).  A check
\* knows its end-state by the mode's name, so nothing is said of a mode that
\* two writers claim: broken and reached again by the other, it is confirmed
\* by the first's check.
HeldWholeWindow ==
  [][(flagAt = 0 /\ flagAt' # 0 /\ prov # NoMode /\ prov' = NoMode)
     => \A s \in Writer : ModeOf[s] = mode' /\ Window[s] > 0 /\ Sole(s)
                          => clock' >= provAt + Window[s]]_vars

\* A provisional end-state whose window ends within the horizon, whichever of
\* its writers reached it, is resolved.
ProvisionalResolves ==
  \A m \in Mode :
    /\ prov = m
    /\ \A s \in Writer : ModeOf[s] = m => provAt + Window[s] <= Horizon
    ~> prov # m \/ stampAt # 0
=============================================================================
