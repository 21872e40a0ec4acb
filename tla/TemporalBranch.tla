--------------------------- MODULE TemporalBranch ---------------------------
(***************************************************************************)
(* One simulated branch, event by event: run_branch_temporal and the batch *)
(* engine process_timestamp of temporal_runtime.py, over the EventQueue of *)
(* events.py, with the monitors that run after each batch.                 *)
(*                                                                         *)
(* An event is its event_id, a hash of its content: label, timestamp and   *)
(* payload, of which only a crossing's generation matters here.  Events of *)
(* one id, time and parents that are pending at once are one element of a  *)
(* set.  Within a microstep the ready events run in content_key order, the *)
(* order of those hashes, so in any order here.  What an operator does is  *)
(* chosen: it writes its label's paths or nothing and schedules any of its *)
(* label's follow-ups.                                                     *)
(***************************************************************************)
EXTENDS Integers, Sequences, FiniteSets

CONSTANTS
  Label,           \* event contents up to the timestamp
  Path,            \* state paths
  Reads, Writes,   \* Label -> SUBSET Path: read_set; paths its operators change
  FollowUps,       \* Label -> set of <<label, delay>> its operators schedule
  Actor,           \* labels that invoke an actor (ctrl_invoke_actor)
  Hazard,          \* labels of stochastic hazards' arrivals
  Process,         \* first-passage processes
  Crossing,        \* Process -> label of its crossing
  Check,           \* Process -> label of the persistence check of its firing
  ProcessReads,    \* Process -> SUBSET Path: its declared reads
  Condition,       \* conditions an actor may defer to
  Awaits, Wakes,   \* Condition -> label it awaits; label it then schedules
  Watch,           \* registered state watches
  WatchPath,       \* Watch -> the path it matches
  WatchEvent,      \* Watch -> label it schedules
  Initial,         \* the queues a branch may be built with
  Horizon,         \* horizon_ts
  MicrostepLimit,  \* 64: microsteps of one batch beyond which events move on
  SafetyMax,       \* safety_max_events
  MaxInvocations,  \* max_invocations_per_actor
  MaxFires,        \* max_fires of a watch
  MaxGeneration    \* bound: how often a process is re-projected or resumed

Id == [lab : Label, ts : Nat, gen : Nat]
Event == [id : Id, at : Nat, deps : SUBSET Id]

ASSUME BranchAssumption ==
  /\ Reads \in [Label -> SUBSET Path] /\ Writes \in [Label -> SUBSET Path]
  /\ FollowUps \in [Label -> SUBSET (Label \X Nat)]
  /\ Actor \subseteq Label /\ Hazard \subseteq Label
  /\ Crossing \in [Process -> Label]
  /\ \A p, q \in Process : Crossing[p] = Crossing[q] => p = q
  /\ ProcessReads \in [Process -> SUBSET Path]
  /\ Awaits \in [Condition -> Label] /\ Wakes \in [Condition -> Label]
  /\ WatchPath \in [Watch -> Path] /\ WatchEvent \in [Watch -> Label]
  /\ Initial \subseteq SUBSET Event
  /\ {Horizon, MicrostepLimit, SafetyMax, MaxInvocations, MaxFires,
      MaxGeneration} \subseteq Nat
  /\ SafetyMax > 0

\* Crossings are made by a process alone: its first by schedule_crossing, then
\* by its re-projections and its resumes.  Only next_event makes arrivals, and
\* a queue is built with at most one of each.
ASSUME SourceAssumption ==
  LET crossings == {Crossing[p] : p \in Process}
      others == (UNION {{f[1] : f \in FollowUps[l]} : l \in Label})
                \cup {Wakes[c] : c \in Condition}
                \cup {WatchEvent[w] : w \in Watch}
  IN  /\ others \cap (crossings \cup Hazard) = {}
      /\ crossings \cap (Hazard \cup Actor) = {}
      /\ \A q \in Initial :
           /\ \A e \in q : e.id.lab \in crossings => e.id.gen = 0
           /\ \A e, f \in q :
                e.id.lab = f.id.lab /\ e.id.lab \in crossings \cup Hazard
                => e = f

\* A persistence check is an event of the world.
ASSUME CheckAssumption ==
  /\ Check \in [Process -> Label]
  /\ \A p \in Process : Check[p] \notin Actor \cup Hazard

\* What a branch is built from are lists and dictionaries.
ASSUME FiniteAssumption ==
  /\ \A l \in Label : IsFiniteSet(FollowUps[l])
  /\ \A q \in Initial : IsFiniteSet(q)
  /\ IsFiniteSet(Actor) /\ IsFiniteSet(Process)
  /\ IsFiniteSet(Condition) /\ IsFiniteSet(Watch)

VARIABLES
  clock,       \* world.clock.now
  queue,       \* the heap
  status,      \* running, or how the branch ended
  pc,          \* where the loop is
  current,     \* events of this timestamp for a later layer
  ready,       \* events of the layer that runs
  cyclic,      \* the layer is a dependency cycle, run all the same
  micro,       \* microstep
  stepWrites,  \* paths written in this microstep
  written,     \* paths written in this batch
  batch,       \* ids run in this batch, in order (batch_all)
  n,           \* events run
  canceled,    \* stats.events_canceled
  overflowed,  \* a microstep_overflow was recorded
  halted,      \* stats.branch_halted
  invoked,     \* invocations per actor label
  gen, fired,  \* each process's generation and fired flag
  since,       \* per condition: 0, or 1 + the batch's length at registration
  armed,       \* conditions registered and not fired
  fires        \* fires per watch

queueVars == <<clock, queue, status, pc>>
layerVars == <<current, ready, cyclic, micro, stepWrites, written, batch>>
statVars == <<n, canceled, overflowed, halted, invoked>>
procVars == <<gen, fired>>
monitorVars == <<since, armed, fires>>
vars == <<queueVars, layerVars, statVars, procVars, monitorVars>>

-----------------------------------------------------------------------------
NewEvent(l, t, g, d) ==
  [id |-> [lab |-> l, ts |-> t, gen |-> g], at |-> t, deps |-> d]

IdsOf(s) == {e.id : e \in s}

DueIn(q) == {e \in q : e.at <= clock}

\* next_event re-arms the hazard of each arrival it pops: the next one comes
\* later, or beyond the horizon and is not queued.
Rearms(popped) ==
  LET arrivals == {e \in popped : e.id.lab \in Hazard}
  IN  {{NewEvent(e.id.lab, next[e], 0, {}) :
          e \in {x \in arrivals : next[x] <= Horizon}} :
       next \in {f \in [arrivals -> 1..Horizon + 1] :
                   \A e \in arrivals : f[e] > e.at}}

\* crossing_is_current
IsCurrent(e) ==
  \A p \in Process :
    e.id.lab = Crossing[p] => ~fired[p] /\ e.id.gen = gen[p]

Init ==
  /\ clock = 0
  /\ queue \in Initial
  /\ status = "running" /\ pc = "loop"
  /\ current = {} /\ ready = {} /\ cyclic = FALSE /\ micro = 0
  /\ stepWrites = {} /\ written = {} /\ batch = <<>>
  /\ n = 0 /\ canceled = 0 /\ overflowed = FALSE /\ halted = FALSE
  /\ invoked = [l \in Actor |-> 0]
  /\ gen = [p \in Process |-> 0]
  /\ fired = [p \in Process |-> FALSE]
  /\ since = [c \in Condition |-> 0]
  /\ armed = {}
  /\ fires = [w \in Watch |-> 0]

-----------------------------------------------------------------------------
\* run_branch_temporal, between two timestamps: the safety budget ends the
\* branch with what is pending recorded.
Truncate ==
  /\ pc = "loop"
  /\ n >= SafetyMax
  /\ status' = "event_budget" /\ pc' = "done"
  /\ UNCHANGED <<clock, queue, layerVars, statVars, procVars, monitorVars>>

\* A mutant of Complete: only an empty queue ends the branch.
CompleteWhenEmpty ==
  /\ pc = "loop"
  /\ n < SafetyMax
  /\ queue = {}
  /\ status' = "completed" /\ pc' = "done"
  /\ UNCHANGED <<clock, queue, layerVars, statVars, procVars, monitorVars>>

\* Causal quiescence, or nothing before the horizon.
Complete ==
  /\ pc = "loop"
  /\ n < SafetyMax
  /\ \A e \in queue : e.at > Horizon
  /\ status' = "completed" /\ pc' = "done"
  /\ UNCHANGED <<clock, queue, layerVars, statVars, procVars, monitorVars>>

\* A batch starts with the microstep count, the write ledger and batch_all new.
NewBatch(popped) ==
  /\ current' = popped
  /\ pc' = "layer"
  /\ micro' = 0 /\ written' = {} /\ batch' = <<>>
  /\ since' = [c \in Condition |-> 0]

\* The clock advances to the earliest event and pop_batch takes all at its time.
Begin ==
  /\ pc = "loop"
  /\ n < SafetyMax
  /\ \E e \in queue :
       /\ e.at <= Horizon
       /\ \A f \in queue : e.at <= f.at
       /\ clock' = e.at
       /\ LET popped == {f \in queue : f.at = e.at}
          IN  /\ NewBatch(popped)
              /\ \E r \in Rearms(popped) : queue' = (queue \ popped) \cup r
  /\ UNCHANGED <<status, ready, cyclic, stepWrites, statVars, procVars, armed,
                 fires>>

\* A mutant of Blocked: dependencies are not looked at.
BlockedNever(e) == FALSE

\* An event whose parent or dependency is in its own layer waits.
Blocked(e) == e.deps \cap IdsOf(current) # {}

\* process_timestamp layers what is current; a cycle runs as a whole.
Layer ==
  /\ pc = "layer"
  /\ LET free == {e \in current : ~Blocked(e)}
     IN  /\ ready' = IF free = {} THEN current ELSE free
         /\ current' = IF free = {} THEN {} ELSE current \ free
         /\ cyclic' = (free = {})
  /\ stepWrites' = {}
  /\ pc' = "run"
  /\ UNCHANGED <<clock, queue, status, micro, written, batch, statVars,
                 procVars, monitorVars>>

-----------------------------------------------------------------------------
\* A stale crossing, superseded by a re-projection, is canceled.
Cancel(e) ==
  /\ pc = "run"
  /\ e \in ready
  /\ ~IsCurrent(e)
  /\ ready' = ready \ {e}
  /\ canceled' = canceled + 1
  /\ UNCHANGED <<queueVars, current, cyclic, micro, stepWrites, written, batch,
                 n, overflowed, halted, invoked, procVars, monitorVars>>

MayRun(e) ==
  /\ pc = "run"
  /\ e \in ready
  /\ IsCurrent(e)
  /\ Reads[e.id.lab] \cap stepWrites = {}

\* A read of a path this microstep wrote moves the event to the next one.
Defer(e) ==
  /\ pc = "run"
  /\ e \in ready
  /\ IsCurrent(e)
  /\ Reads[e.id.lab] \cap stepWrites # {}
  /\ ready' = ready \ {e}
  /\ current' = current \cup {e}
  /\ UNCHANGED <<queueVars, cyclic, micro, stepWrites, written, batch,
                 statVars, procVars, monitorVars>>

\* The event's operators write paths w and schedule the events new.
RunWith(e, w, new) ==
  /\ ready' = ready \ {e}
  /\ batch' = Append(batch, e.id)
  /\ n' = n + 1
  /\ stepWrites' = stepWrites \cup w
  /\ written' = written \cup w
  /\ queue' = queue \cup new
  /\ UNCHANGED <<clock, status, pc, current, cyclic, micro, canceled,
                 overflowed>>

\* They schedule follow-ups fu, never in the past (_schedule_follow_up).
Effect(e, w, fu) ==
  RunWith(e, w, {NewEvent(f[1], clock + f[2], 0, {e.id}) : f \in fu})

\* A mutant of Outcomes: an arrival that runs re-arms its hazard once more.
OutcomesRearm(e) ==
  {{}, Writes[e.id.lab]} \X
  {fu \cup (IF e.id.lab \in Hazard THEN {<<e.id.lab, 1>>} ELSE {}) :
     fu \in SUBSET FollowUps[e.id.lab]}

Outcomes(e) == {{}, Writes[e.id.lab]} \X SUBSET FollowUps[e.id.lab]

\* An event of the world runs.  A crossing whose operator applies sets its
\* process's fired flag.
RunEvent(e) ==
  /\ MayRun(e)
  /\ e.id.lab \notin Actor
  /\ \E o \in Outcomes(e) : Effect(e, o[1], o[2])
  /\ fired' \in {fired, [p \in Process |-> fired[p] \/ e.id.lab = Crossing[p]]}
  /\ UNCHANGED <<halted, invoked, gen, monitorVars>>

\* A mutant of NextGen: the superseded crossing stays current.
NextGenSame(p) == gen[p]

\* on_state_change, resume_first_passage_after_collapse
NextGen(p) == gen[p] + 1

\* A crossing of the process's next generation, within the horizon or none.
Projected(p, t, d) ==
  IF t <= Horizon THEN {NewEvent(Crossing[p], t, NextGen(p), d)} ELSE {}

\* A persistence check that finds its provisional state broken resumes the
\* process: it may fire again, at a time newly drawn.
Resume(e, p) ==
  /\ MayRun(e)
  /\ e.id.lab = Check[p]
  /\ gen[p] < MaxGeneration
  /\ \E t \in clock..Horizon + 1 : RunWith(e, {}, Projected(p, t, {e.id}))
  /\ gen' = [gen EXCEPT ![p] = NextGen(p)]
  /\ fired' = [fired EXCEPT ![p] = FALSE]
  /\ UNCHANGED <<halted, invoked, monitorVars>>

\* A mutant of Decide: the invocation budget is not looked at.
DecideUncapped(e) ==
  /\ MayRun(e)
  /\ e.id.lab \in Actor
  /\ invoked' = [invoked EXCEPT ![e.id.lab] = @ + 1]
  /\ \E o \in Outcomes(e) : Effect(e, o[1], o[2])
  /\ UNCHANGED <<halted, procVars, monitorVars>>

\* An actor is invoked within its budget and acts, or decides not to.
Decide(e) ==
  /\ MayRun(e)
  /\ e.id.lab \in Actor
  /\ invoked[e.id.lab] < MaxInvocations
  /\ invoked' = [invoked EXCEPT ![e.id.lab] = @ + 1]
  /\ \E o \in Outcomes(e) : Effect(e, o[1], o[2])
  /\ UNCHANGED <<halted, procVars, monitorVars>>

\* Or it waits for a condition: register_conditional.  While the condition is
\* armed another entry for it would fire with the first.
Await(e, c) ==
  /\ MayRun(e)
  /\ e.id.lab \in Actor
  /\ invoked[e.id.lab] < MaxInvocations
  /\ invoked' = [invoked EXCEPT ![e.id.lab] = @ + 1]
  /\ Wakes[c] = e.id.lab
  /\ Effect(e, {}, {})
  /\ armed' = armed \cup {c}
  /\ since' = IF c \in armed THEN since
              ELSE [since EXCEPT ![c] = Len(batch) + 1]
  /\ UNCHANGED <<halted, procVars, fires>>

\* _record_truncation: the decision is refused by the invocation budget, or
\* fails; the branch is to halt.
DecisionFails(e) ==
  /\ MayRun(e)
  /\ e.id.lab \in Actor
  /\ Effect(e, {}, {})
  /\ invoked' = [invoked EXCEPT ![e.id.lab] =
                   IF @ < MaxInvocations THEN @ + 1 ELSE @]
  /\ halted' = TRUE
  /\ UNCHANGED <<procVars, monitorVars>>

-----------------------------------------------------------------------------
\* A mutant of EndMicrostep: the deferred events are forgotten.
EndMicrostepForgets ==
  /\ pc = "run"
  /\ ready = {}
  /\ micro < MicrostepLimit
  /\ micro' = micro + 1
  /\ current' = DueIn(queue)
  /\ \E r \in Rearms(DueIn(queue)) : queue' = (queue \ DueIn(queue)) \cup r
  /\ pc' = IF current' = {} THEN "monitors" ELSE "layer"
  /\ UNCHANGED <<clock, status, ready, cyclic, stepWrites, written, batch,
                 statVars, procVars, monitorVars>>

\* The microstep ends: what was scheduled for this time joins the next one.
EndMicrostep ==
  /\ pc = "run"
  /\ ready = {}
  /\ micro < MicrostepLimit
  /\ micro' = micro + 1
  /\ current' = current \cup DueIn(queue)
  /\ \E r \in Rearms(DueIn(queue)) : queue' = (queue \ DueIn(queue)) \cup r
  /\ pc' = IF current' = {} THEN "monitors" ELSE "layer"
  /\ UNCHANGED <<clock, status, ready, cyclic, stepWrites, written, batch,
                 statVars, procVars, monitorVars>>

\* The runaway guard: beyond the limit what is left moves one second on.
Overflow ==
  /\ pc = "run"
  /\ ready = {}
  /\ micro >= MicrostepLimit
  /\ micro' = micro + 1
  /\ \E r \in Rearms(DueIn(queue)) :
       queue' = (queue \ DueIn(queue)) \cup r \cup
                {[e EXCEPT !.at = clock + 1] : e \in current \cup DueIn(queue)}
  /\ current' = {}
  /\ overflowed' = TRUE
  /\ pc' = "monitors"
  /\ UNCHANGED <<clock, status, ready, cyclic, stepWrites, written, batch, n,
                 canceled, halted, invoked, procVars, monitorVars>>

\* reproject_hazards: the live processes that read a written path, of which
\* those whose modulation changed are re-projected.
Touched == {p \in Process : /\ ~fired[p] /\ gen[p] < MaxGeneration
                            /\ ProcessReads[p] \cap written # {}}

\* check_state_watches: watches with fires left whose path was written.
Alerted == {w \in Watch : fires[w] < MaxFires /\ WatchPath[w] \in written}

\* check_conditionals: an armed condition fires on the first event of the
\* whole batch with its label.
FiredBy(c) ==
  {i \in 1..Len(batch) : /\ batch[i].lab = Awaits[c]
                         /\ \A j \in 1..i - 1 : batch[j].lab # Awaits[c]}
Met == {c \in armed : FiredBy(c) # {}}

\* A mutant of LoopOrHalt: branch_halted is not looked at.
LoopOn == status' = status /\ pc' = "loop"

\* After the timestamp the branch loop looks at branch_halted.
LoopOrHalt ==
  /\ status' = IF halted THEN "halted" ELSE status
  /\ pc' = IF halted THEN "done" ELSE "loop"

\* All the monitors schedule: the crossings of the re-projected processes, at
\* the times next gives, then what watches and conditionals fire, at once.
MonitorEvents(moved, next) ==
  (UNION {Projected(p, next[p], {}) : p \in moved})
  \cup {NewEvent(WatchEvent[w], clock, 0, {}) : w \in Alerted}
  \cup {NewEvent(Wakes[c], clock, 0, {batch[i] : i \in FiredBy(c)}) : c \in Met}

\* The monitors after a batch, then the events they made due are a batch of
\* their own.
Monitors ==
  /\ pc = "monitors"
  /\ \E moved \in SUBSET Touched :
     \E next \in [moved -> clock..Horizon + 1] :
       /\ gen' = [p \in Process |-> IF p \in moved THEN NextGen(p) ELSE gen[p]]
       /\ LET all == queue \cup MonitorEvents(moved, next)
          IN  IF DueIn(all) # {}
              THEN /\ NewBatch(DueIn(all))
                   /\ \E r \in Rearms(DueIn(all)) :
                        queue' = (all \ DueIn(all)) \cup r
                   /\ UNCHANGED status
              ELSE /\ queue' = all
                   /\ LoopOrHalt
                   /\ since' = [c \in Condition |-> 0]
                   /\ UNCHANGED <<current, micro, written, batch>>
  /\ fires' = [w \in Watch |-> IF w \in Alerted THEN fires[w] + 1 ELSE fires[w]]
  /\ armed' = armed \ Met
  /\ UNCHANGED <<clock, ready, cyclic, stepWrites, statVars, fired>>

Next ==
  \/ Truncate \/ Complete \/ Begin \/ Layer
  \/ \E e \in ready :
       \/ Cancel(e) \/ Defer(e) \/ RunEvent(e) \/ Decide(e)
       \/ DecisionFails(e)
       \/ \E c \in Condition : Await(e, c)
       \/ \E p \in Process : Resume(e, p)
  \/ EndMicrostep \/ Overflow \/ Monitors

\* One thread runs the loop; nothing it calls waits for ever.
Spec == Init /\ [][Next]_vars /\ WF_vars(Next)

-----------------------------------------------------------------------------
Pending == queue \cup current \cup ready

\* Every variable keeps its type.
TypeOK ==
  /\ clock \in Nat /\ queue \subseteq Event
  /\ status \in {"running", "completed", "event_budget", "halted"}
  /\ pc \in {"loop", "layer", "run", "monitors", "done"}
  /\ current \subseteq Event /\ ready \subseteq Event
  /\ cyclic \in BOOLEAN /\ micro \in Nat
  /\ stepWrites \subseteq Path /\ written \subseteq Path
  /\ batch \in Seq(Id)
  /\ n \in Nat /\ canceled \in Nat
  /\ overflowed \in BOOLEAN /\ halted \in BOOLEAN
  /\ invoked \in [Actor -> 0..MaxInvocations]
  /\ gen \in [Process -> Nat] /\ fired \in [Process -> BOOLEAN]
  /\ since \in [Condition -> Nat] /\ armed \subseteq Condition
  /\ fires \in [Watch -> 0..MaxFires]

\* The batches, microsteps, deferrals, cancellations and monitors amount to a
\* discrete-event simulation: nothing scheduled is lost or handled twice, the
\* clock never passes an event, and a branch that completed has nothing left
\* before the horizon.
Sim == INSTANCE EventSim WITH
  now <- clock, pending <- Pending, handled <- n + canceled
Simulates == Sim!Spec

\* An event does not run while one it depends on waits in its layer, unless
\* the layer is a recorded cycle (invariant 33 of temporal_runtime.py:15).
DependentsWait ==
  pc = "run" /\ ~cyclic =>
    \A e \in ready : e.deps \cap IdsOf(ready \cup current) = {}

\* Of a process's crossings at most one can still fire, however often it was
\* re-projected (temporal_hazards.py:203: a re-projection never double-fires).
OneCurrentCrossing ==
  \A p \in Process : \A e, f \in Pending :
    /\ e.id.lab = Crossing[p] /\ e.id.gen = gen[p]
    /\ f.id.lab = Crossing[p] /\ f.id.gen = gen[p]
    => e = f

\* A hazard is one renewal process: it never has two arrivals queued, unless
\* an overflow put a popped arrival back.
OneArrivalPerHazard ==
  ~overflowed =>
    \A e, f \in queue : e.id.lab = f.id.lab /\ e.id.lab \in Hazard => e = f

\* Once a decision could not be made the branch stops at that timestamp: the
\* clock does not move again (temporal_runtime.py:902).
HaltStopsClock == [][halted => clock' = clock]_vars

\* However events cause each other at one time, the branch ends.
Termination == <>(status # "running")

-----------------------------------------------------------------------------
\* temporal_runtime.py:603: a deferral is resolved when the condition's event
\* occurs, so by an event that ran after the actor deferred.
AwaitsLater ==
  [][\A c \in armed \ armed' :
       \E i \in 1..Len(batch) : i > since[c] /\ batch[i].lab = Awaits[c]]_vars
=============================================================================
