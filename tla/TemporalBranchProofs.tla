------------------------ MODULE TemporalBranchProofs ------------------------
(***************************************************************************)
(* Theorems about TemporalBranch, for every set of labels, operators,      *)
(* processes, watches and conditions, every horizon and every budget.      *)
(***************************************************************************)
EXTENDS TemporalBranch, FiniteSetTheorems, TLAPS

-----------------------------------------------------------------------------
\* What a step schedules.

\* next_event re-arms a hazard strictly later than the arrival it pops.
LEMMA RearmsLater ==
  ASSUME NEW S \in SUBSET Event, NEW t \in Nat, \A e \in S : e.at >= t,
         NEW r \in Rearms(S)
  PROVE  \A x \in r : /\ x \in Event
                      /\ x.at > t
                      /\ x.id.lab \in Hazard
                      /\ \E e \in S : e.id.lab = x.id.lab
<1> DEFINE A == {e \in S : e.id.lab \in Hazard}
<1>1. PICK next \in [A -> 1..Horizon + 1] :
        /\ \A e \in A : next[e] > e.at
        /\ r = {NewEvent(e.id.lab, next[e], 0, {}) :
                  e \in {y \in A : next[y] <= Horizon}}
  BY DEF Rearms
<1> SUFFICES ASSUME NEW x \in r
             PROVE  /\ x \in Event
                    /\ x.at > t
                    /\ x.id.lab \in Hazard
                    /\ \E e \in S : e.id.lab = x.id.lab
  OBVIOUS
<1>2. PICK e \in A : x = NewEvent(e.id.lab, next[e], 0, {})
  BY <1>1
<1>3. next[e] \in Nat /\ next[e] > e.at /\ e.id.lab \in Label
  BY <1>1, BranchAssumption DEF Event, Id
<1>4. x \in Event /\ x.at = next[e] /\ x.id.lab = e.id.lab
  BY <1>2, <1>3 DEF NewEvent, Event, Id
<1>5. e.at \in Nat /\ e.at >= t
  BY DEF Event
<1> QED
  BY <1>3, <1>4, <1>5

LEMMA RearmsType ==
  ASSUME NEW S \in SUBSET Event, NEW r \in Rearms(S)
  PROVE  r \subseteq Event
<1>1. \A e \in S : e.at >= 0
  BY DEF Event
<1> QED
  BY <1>1, RearmsLater

LEMMA PostponedType ==
  ASSUME NEW e \in Event, NEW t \in Nat
  PROVE  LET x == [e EXCEPT !.at = t]
         IN  x \in Event /\ x.at = t /\ x.id = e.id
BY DEF Event

LEMMA FollowUpType ==
  ASSUME TypeOK, NEW e \in ready, NEW fu \in SUBSET FollowUps[e.id.lab],
         NEW f \in fu
  PROVE  /\ NewEvent(f[1], clock + f[2], 0, {e.id}) \in Event
         /\ NewEvent(f[1], clock + f[2], 0, {e.id}).at >= clock
         /\ NewEvent(f[1], clock + f[2], 0, {e.id}).id.lab = f[1]
<1>1. e.id \in Id /\ e.id.lab \in Label /\ clock \in Nat
  BY DEF TypeOK, Event, Id
<1>2. f[1] \in Label /\ f[2] \in Nat
  BY <1>1, BranchAssumption
<1>3. clock + f[2] \in Nat /\ clock + f[2] >= clock
  BY <1>1, <1>2
<1>4. {e.id} \in SUBSET Id
  BY <1>1
<1> QED
  BY <1>2, <1>3, <1>4 DEF NewEvent, Event, Id

\* A crossing of a process's next generation.
LEMMA ProjectedType ==
  ASSUME TypeOK, NEW p \in Process, NEW t \in clock..Horizon + 1,
         NEW d \in SUBSET Id, NEW x \in Projected(p, t, d)
  PROVE  /\ x = NewEvent(Crossing[p], t, NextGen(p), d)
         /\ x \in Event /\ x.at >= clock
         /\ x.id.lab = Crossing[p] /\ x.id.gen = NextGen(p)
<1>1. x = NewEvent(Crossing[p], t, NextGen(p), d)
  BY DEF Projected
<1>2. Crossing[p] \in Label /\ NextGen(p) \in Nat
  BY BranchAssumption DEF TypeOK, NextGen
<1>3. t \in Nat /\ t >= clock
  BY BranchAssumption DEF TypeOK
<1> QED
  BY <1>1, <1>2, <1>3 DEF NewEvent, Event, Id

\* A resume schedules at most one crossing, of the new generation.
LEMMA ResumeAdds ==
  ASSUME TypeOK, NEW e \in ready, NEW p \in Process, Resume(e, p)
  PROVE  \E new \in SUBSET Event :
           /\ RunWith(e, {}, new)
           /\ \A x \in new : /\ x.at >= clock /\ x.id.lab = Crossing[p]
                             /\ x.id.gen = NextGen(p)
           /\ \A x, y \in new : x = y
           /\ IsFiniteSet(new)
<1>1. PICK t \in clock..Horizon + 1 : RunWith(e, {}, Projected(p, t, {e.id}))
  BY DEF Resume
<1>2. {e.id} \in SUBSET Id
  BY DEF TypeOK, Event
<1>3. \A x \in Projected(p, t, {e.id}) :
        /\ x = NewEvent(Crossing[p], t, NextGen(p), {e.id})
        /\ x \in Event /\ x.at >= clock
        /\ x.id.lab = Crossing[p] /\ x.id.gen = NextGen(p)
  BY <1>2, ProjectedType
<1>4. IsFiniteSet(Projected(p, t, {e.id}))
  BY FS_EmptySet, FS_Singleton DEF Projected
<1> QED
  BY <1>1, <1>3, <1>4

\* What the monitors schedule is due now or later.
LEMMA MonitorEventsType ==
  ASSUME TypeOK,
         NEW moved \in SUBSET Touched,
         NEW next \in [moved -> clock..Horizon + 1],
         NEW x \in MonitorEvents(moved, next)
  PROVE  /\ x \in Event
         /\ x.at >= clock
         /\ \/ \E p \in moved : x.id.lab = Crossing[p] /\ x.id.gen = NextGen(p)
            \/ x.id.lab \in {Wakes[c] : c \in Condition}
                            \cup {WatchEvent[w] : w \in Watch}
<1> DEFINE Wake(c) ==
      NewEvent(Wakes[c], clock, 0, {batch[i] : i \in FiredBy(c)})
<1>1. ASSUME NEW p \in moved, x \in Projected(p, next[p], {})
      PROVE  x \in Event /\ x.at >= clock /\ x.id.lab = Crossing[p]
             /\ x.id.gen = NextGen(p)
  <2>1. p \in Process /\ next[p] \in clock..Horizon + 1 /\ {} \in SUBSET Id
    BY DEF Touched
  <2> QED
    BY <1>1, <2>1, ProjectedType
<1>2. ASSUME NEW w \in Watch, x = NewEvent(WatchEvent[w], clock, 0, {})
      PROVE  x \in Event /\ x.at = clock /\ x.id.lab = WatchEvent[w]
  <2>1. WatchEvent[w] \in Label /\ clock \in Nat
    BY BranchAssumption DEF TypeOK
  <2> QED
    BY <1>2, <2>1 DEF NewEvent, Event, Id
<1>3. ASSUME NEW c \in Condition,
             x = Wake(c)
      PROVE  x \in Event /\ x.at = clock /\ x.id.lab = Wakes[c]
  <2>1. {batch[i] : i \in FiredBy(c)} \in SUBSET Id
    BY DEF TypeOK, FiredBy
  <2>2. Wakes[c] \in Label /\ clock \in Nat
    BY BranchAssumption DEF TypeOK
  <2> QED
    BY <1>3, <2>1, <2>2 DEF NewEvent, Event, Id
<1>4. \/ \E p \in moved : x \in Projected(p, next[p], {})
      \/ \E w \in Watch : x = NewEvent(WatchEvent[w], clock, 0, {})
      \/ \E c \in Condition :
           x = Wake(c)
  <2>1. armed \subseteq Condition /\ Alerted \subseteq Watch
    BY DEF TypeOK, Alerted
  <2> QED
    BY <2>1 DEF MonitorEvents, Met
<1>5. clock \in Nat
  BY DEF TypeOK
<1> HIDE DEF Wake
<1> QED
  BY <1>1, <1>2, <1>3, <1>4, <1>5

-----------------------------------------------------------------------------
\* The type invariant.

LEMMA RunType ==
  ASSUME TypeOK, NEW e \in ready, NEW w \in SUBSET Path,
         NEW new \in SUBSET Event, RunWith(e, w, new)
  PROVE  /\ queue' \subseteq Event /\ ready' \subseteq Event
         /\ stepWrites' \subseteq Path /\ written' \subseteq Path
         /\ batch' \in Seq(Id) /\ n' \in Nat
<1>1. queue' \subseteq Event
  BY DEF RunWith, TypeOK
<1>2. e.id \in Id
  BY DEF TypeOK, Event
<1>3. batch' \in Seq(Id) /\ n' \in Nat
  BY <1>2 DEF RunWith, TypeOK
<1>4. ready' \subseteq Event /\ stepWrites' \subseteq Path /\ written' \subseteq Path
  BY DEF RunWith, TypeOK
<1> QED
  BY <1>1, <1>3, <1>4

\* Follow-ups are events of now or later.
LEMMA EffectAdds ==
  ASSUME TypeOK, NEW e \in ready, NEW w, NEW fu \in SUBSET FollowUps[e.id.lab],
         Effect(e, w, fu)
  PROVE  \E new \in SUBSET Event :
           RunWith(e, w, new) /\ \A x \in new : x.at >= clock
<1> DEFINE new == {NewEvent(f[1], clock + f[2], 0, {e.id}) : f \in fu}
<1>1. RunWith(e, w, new)
  BY DEF Effect
<1>2. \A x \in new : x \in Event /\ x.at >= clock
  BY FollowUpType
<1> HIDE DEF new
<1> QED
  BY <1>1, <1>2

LEMMA EffectType ==
  ASSUME TypeOK, NEW e \in ready,
         NEW w \in SUBSET Path, NEW fu \in SUBSET FollowUps[e.id.lab],
         Effect(e, w, fu)
  PROVE  /\ queue' \subseteq Event /\ ready' \subseteq Event
         /\ stepWrites' \subseteq Path /\ written' \subseteq Path
         /\ batch' \in Seq(Id) /\ n' \in Nat
BY EffectAdds, RunType

LEMMA OutcomesType ==
  ASSUME TypeOK, NEW e \in ready, NEW o \in Outcomes(e)
  PROVE  o[1] \in SUBSET Path /\ o[2] \in SUBSET FollowUps[e.id.lab]
<1>1. e.id.lab \in Label
  BY DEF TypeOK, Event, Id
<1> QED
  BY <1>1, BranchAssumption DEF Outcomes

LEMMA InitType == Init => TypeOK
<1> SUFFICES ASSUME Init PROVE TypeOK
  OBVIOUS
<1>1. queue \subseteq Event /\ batch \in Seq(Id)
  BY BranchAssumption DEF Init
<1>2. /\ invoked \in [Actor -> 0..MaxInvocations]
      /\ fires \in [Watch -> 0..MaxFires]
  BY BranchAssumption DEF Init
<1> QED
  BY <1>1, <1>2 DEF Init, TypeOK

LEMMA NextType == TypeOK /\ [Next]_vars => TypeOK'
<1> SUFFICES ASSUME TypeOK, [Next]_vars PROVE TypeOK'
  OBVIOUS
<1> USE DEF queueVars, layerVars, statVars, procVars, monitorVars
<1>1. CASE Truncate
  BY <1>1 DEF Truncate, TypeOK
<1>2. CASE Complete
  BY <1>2 DEF Complete, TypeOK
<1>3. CASE Begin
  <2>0. PICK e \in queue :
          /\ clock' = e.at
          /\ LET popped == {f \in queue : f.at = e.at}
             IN  /\ NewBatch(popped)
                 /\ \E r \in Rearms(popped) :
                      queue' = (queue \ popped) \cup r
    BY <1>3 DEF Begin
  <2> DEFINE popped == {f \in queue : f.at = e.at}
  <2>1. PICK r \in Rearms(popped) : queue' = (queue \ popped) \cup r
    BY <2>0
  <2>2. popped \in SUBSET Event
    BY DEF TypeOK
  <2>3. r \subseteq Event
    BY <2>2, RearmsType
  <2>4. e.at \in Nat
    BY DEF TypeOK, Event
  <2>5. <<>> \in Seq(Id) /\ 0 \in Nat
    BY BranchAssumption
  <2> QED
    BY <1>3, <2>0, <2>1, <2>2, <2>3, <2>4, <2>5 DEF Begin, NewBatch, TypeOK
<1>4. CASE Layer
  BY <1>4 DEF Layer, TypeOK
<1>5. ASSUME NEW e \in ready, Cancel(e)
      PROVE  TypeOK'
  BY <1>5 DEF Cancel, TypeOK
<1>6. ASSUME NEW e \in ready, Defer(e)
      PROVE  TypeOK'
  BY <1>6 DEF Defer, TypeOK
<1>7. ASSUME NEW e \in ready, RunEvent(e)
      PROVE  TypeOK'
  <2>1. PICK o \in Outcomes(e) : Effect(e, o[1], o[2])
    BY <1>7 DEF RunEvent
  <2> QED
    BY <1>7, <2>1, OutcomesType, EffectType DEF RunEvent, Effect, RunWith, TypeOK
<1>8. ASSUME NEW e \in ready, Decide(e)
      PROVE  TypeOK'
  <2>1. PICK o \in Outcomes(e) : Effect(e, o[1], o[2])
    BY <1>8 DEF Decide
  <2>2. invoked' \in [Actor -> 0..MaxInvocations]
    BY <1>8, BranchAssumption DEF Decide, TypeOK
  <2> QED
    BY <1>8, <2>1, <2>2, OutcomesType, EffectType DEF Decide, Effect, RunWith, TypeOK
<1>9. ASSUME NEW e \in ready, DecisionFails(e)
      PROVE  TypeOK'
  <2>1. invoked' \in [Actor -> 0..MaxInvocations]
    BY <1>9, BranchAssumption DEF DecisionFails, TypeOK
  <2> QED
    BY <1>9, <2>1, EffectType DEF DecisionFails, Effect, RunWith, TypeOK
<1>10. ASSUME NEW e \in ready, NEW c \in Condition, Await(e, c)
       PROVE  TypeOK'
  <2>1. invoked' \in [Actor -> 0..MaxInvocations]
    BY <1>10, BranchAssumption DEF Await, TypeOK
  <2>2. since' \in [Condition -> Nat]
    BY <1>10 DEF Await, TypeOK
  <2> QED
    BY <1>10, <2>1, <2>2, EffectType DEF Await, Effect, RunWith, TypeOK
<1>14. ASSUME NEW e \in ready, NEW p \in Process, Resume(e, p)
       PROVE  TypeOK'
  <2>1. PICK new \in SUBSET Event : RunWith(e, {}, new)
    BY <1>14, ResumeAdds
  <2>2. gen' \in [Process -> Nat] /\ fired' \in [Process -> BOOLEAN]
    BY <1>14 DEF Resume, NextGen, TypeOK
  <2>3. {} \in SUBSET Path
    OBVIOUS
  <2> QED
    BY <1>14, <2>1, <2>2, <2>3, RunType DEF Resume, RunWith, TypeOK
<1>11. CASE EndMicrostep
  <2>1. PICK r \in Rearms(DueIn(queue)) :
          queue' = (queue \ DueIn(queue)) \cup r
    BY <1>11 DEF EndMicrostep
  <2>2. DueIn(queue) \in SUBSET Event
    BY DEF DueIn, TypeOK
  <2>3. r \subseteq Event
    BY <2>2, RearmsType
  <2>4. micro' \in Nat
    BY <1>11, BranchAssumption DEF EndMicrostep, TypeOK
  <2> QED
    BY <1>11, <2>1, <2>2, <2>3, <2>4 DEF EndMicrostep, TypeOK
<1>12. CASE Overflow
  <2> DEFINE left == current \cup DueIn(queue)
             moved == {[e EXCEPT !.at = clock + 1] : e \in left}
  <2>1. PICK r \in Rearms(DueIn(queue)) :
          queue' = (queue \ DueIn(queue)) \cup r \cup moved
    BY <1>12 DEF Overflow
  <2>2. DueIn(queue) \in SUBSET Event
    BY DEF DueIn, TypeOK
  <2>3. r \subseteq Event
    BY <2>2, RearmsType
  <2>4. micro' \in Nat
    BY <1>12, BranchAssumption DEF Overflow, TypeOK
  <2>5. ASSUME NEW e \in left
        PROVE  [e EXCEPT !.at = clock + 1] \in Event
    <3>1. e \in Event /\ clock + 1 \in Nat
      BY <2>2 DEF TypeOK
    <3> QED
      BY <3>1, PostponedType
  <2>6. queue' \subseteq Event
    BY <2>1, <2>3, <2>5 DEF TypeOK
  <2> QED
    BY <1>12, <2>4, <2>6 DEF Overflow, TypeOK
<1>13. CASE Monitors
  <2>1. PICK moved \in SUBSET Touched :
          \E next \in [moved -> clock..Horizon + 1] :
            /\ gen' = [p \in Process |->
                         IF p \in moved THEN NextGen(p) ELSE gen[p]]
            /\ LET all == queue \cup MonitorEvents(moved, next)
               IN  IF DueIn(all) # {}
                   THEN /\ NewBatch(DueIn(all))
                        /\ \E r \in Rearms(DueIn(all)) :
                             queue' = (all \ DueIn(all)) \cup r
                        /\ UNCHANGED status
                   ELSE /\ queue' = all
                        /\ LoopOrHalt
                        /\ since' = [c \in Condition |-> 0]
                        /\ UNCHANGED <<current, micro, written, batch>>
    BY <1>13 DEF Monitors
  <2>2. PICK next \in [moved -> clock..Horizon + 1] :
            LET all == queue \cup MonitorEvents(moved, next)
            IN  IF DueIn(all) # {}
                THEN /\ NewBatch(DueIn(all))
                     /\ \E r \in Rearms(DueIn(all)) :
                          queue' = (all \ DueIn(all)) \cup r
                     /\ UNCHANGED status
                ELSE /\ queue' = all
                     /\ LoopOrHalt
                     /\ since' = [c \in Condition |-> 0]
                     /\ UNCHANGED <<current, micro, written, batch>>
    BY <2>1
  <2> DEFINE all == queue \cup MonitorEvents(moved, next)
  <2>3. all \in SUBSET Event
    BY MonitorEventsType DEF TypeOK
  <2>4. DueIn(all) \in SUBSET Event
    BY <2>3 DEF DueIn
  <2>5. /\ gen' \in [Process -> Nat]
        /\ fires' \in [Watch -> 0..MaxFires]
        /\ armed' \subseteq Condition
    BY <1>13, <2>1, BranchAssumption DEF Monitors, TypeOK, NextGen, Alerted
  <2>6. CASE DueIn(all) # {}
    <3>1. PICK r \in Rearms(DueIn(all)) : queue' = (all \ DueIn(all)) \cup r
      BY <2>2, <2>6
    <3>2. queue' \in SUBSET Event
      BY <2>3, <2>4, <3>1, RearmsType
    <3>3. NewBatch(DueIn(all)) /\ UNCHANGED status
      BY <2>2, <2>6
    <3>4. <<>> \in Seq(Id) /\ 0 \in Nat
      BY BranchAssumption
    <3> HIDE DEF all
    <3> QED
      BY <1>13, <2>4, <2>5, <3>2, <3>3, <3>4 DEF Monitors, NewBatch, TypeOK
  <2>7. CASE DueIn(all) = {}
    <3>1. /\ queue' = all /\ LoopOrHalt
          /\ since' = [c \in Condition |-> 0]
          /\ UNCHANGED <<current, micro, written, batch>>
      BY <2>2, <2>7
    <3> HIDE DEF all
    <3> QED
      BY <1>13, <2>3, <2>5, <3>1 DEF Monitors, LoopOrHalt, TypeOK
  <2> QED
    BY <2>6, <2>7
<1> QED
  BY <1>1, <1>2, <1>3, <1>4, <1>5, <1>6, <1>7, <1>8, <1>9, <1>10, <1>11,
     <1>12, <1>13, <1>14 DEF Next, vars, TypeOK

\* Whatever the operators of the labels do, every variable keeps its type: an
\* actor's budget and a watch's max_fires are never exceeded.
THEOREM TypeCorrect == Spec => []TypeOK
BY InitType, NextType, PTL DEF Spec

-----------------------------------------------------------------------------
\* Where the events are: what the batch engine holds is due now, and nothing
\* is left at this time when the loop looks at the budget again.
TimeInv ==
  /\ status = "running" <=> pc # "done"
  /\ \A e \in queue : e.at >= clock
  /\ \A e \in current \cup ready : e.at = clock
  /\ pc # "run" => ready = {}
  /\ pc \notin {"layer", "run"} => current = {}
  /\ pc = "loop" /\ n > 0 => \A e \in queue : e.at > clock
  /\ pc = "loop" => ~halted

LEMMA InitTime == Init => TimeInv
<1> SUFFICES ASSUME Init PROVE TimeInv
  OBVIOUS
<1>1. \A e \in queue : e.at >= clock
  BY BranchAssumption DEF Init, Event
<1> QED
  BY <1>1 DEF Init, TimeInv

\* Rearms, for what is popped at the clock.
LEMMA DueRearms ==
  ASSUME TypeOK, NEW q \in SUBSET Event, \A e \in q : e.at >= clock,
         NEW r \in Rearms(DueIn(q))
  PROVE  /\ \A x \in r : x \in Event /\ x.at > clock
         /\ \A e \in DueIn(q) : e.at = clock
         /\ \A e \in q \ DueIn(q) : e.at > clock
<1>1. clock \in Nat /\ DueIn(q) \in SUBSET Event
  BY DEF TypeOK, DueIn
<1>2. \A e \in DueIn(q) : e.at >= clock
  BY DEF DueIn
<1>3. \A x \in r : x \in Event /\ x.at > clock
  BY <1>1, <1>2, RearmsLater
<1>4. \A e \in q : e.at \in Nat
  BY DEF Event
<1> QED
  BY <1>1, <1>3, <1>4 DEF DueIn

LEMMA RunTime ==
  ASSUME TypeOK, TimeInv, pc = "run", NEW e \in ready, NEW w,
         NEW new \in SUBSET Event, \A x \in new : x.at >= clock,
         RunWith(e, w, new)
  PROVE  TimeInv'
<1>1. \A x \in queue' : x.at >= clock
  BY DEF RunWith, TimeInv
<1> QED
  BY <1>1 DEF RunWith, TimeInv

LEMMA EffectTime ==
  ASSUME TypeOK, TimeInv, pc = "run", NEW e \in ready,
         NEW w, NEW fu \in SUBSET FollowUps[e.id.lab],
         Effect(e, w, fu)
  PROVE  TimeInv'
BY EffectAdds, RunTime

\* What Monitors does to the queue, in one of two ways.
LEMMA MonitorsQueue ==
  ASSUME TypeOK, TimeInv, Monitors
  PROVE  \E moved \in SUBSET Touched :
         \E next \in [moved -> clock..Horizon + 1] :
           LET all == queue \cup MonitorEvents(moved, next)
           IN  /\ all \in SUBSET Event
               /\ \A e \in all : e.at >= clock
               /\ gen' = [p \in Process |->
                            IF p \in moved THEN NextGen(p) ELSE gen[p]]
               /\ \/ /\ NewBatch(DueIn(all))
                     /\ \E r \in Rearms(DueIn(all)) :
                          queue' = (all \ DueIn(all)) \cup r
                     /\ UNCHANGED status
                  \/ /\ DueIn(all) = {}
                     /\ queue' = all
                     /\ LoopOrHalt
                     /\ UNCHANGED current
<1>1. PICK moved \in SUBSET Touched :
        \E next \in [moved -> clock..Horizon + 1] :
          /\ gen' = [p \in Process |->
                       IF p \in moved THEN NextGen(p) ELSE gen[p]]
          /\ LET all == queue \cup MonitorEvents(moved, next)
             IN  IF DueIn(all) # {}
                 THEN /\ NewBatch(DueIn(all))
                      /\ \E r \in Rearms(DueIn(all)) :
                           queue' = (all \ DueIn(all)) \cup r
                      /\ UNCHANGED status
                 ELSE /\ queue' = all
                      /\ LoopOrHalt
                      /\ UNCHANGED current
  BY DEF Monitors
<1>2. PICK next \in [moved -> clock..Horizon + 1] :
        /\ gen' = [p \in Process |->
                     IF p \in moved THEN NextGen(p) ELSE gen[p]]
        /\ LET all == queue \cup MonitorEvents(moved, next)
           IN  IF DueIn(all) # {}
               THEN /\ NewBatch(DueIn(all))
                    /\ \E r \in Rearms(DueIn(all)) :
                         queue' = (all \ DueIn(all)) \cup r
                    /\ UNCHANGED status
               ELSE /\ queue' = all
                    /\ LoopOrHalt
                    /\ UNCHANGED current
  BY <1>1
<1> DEFINE all == queue \cup MonitorEvents(moved, next)
<1>3. all \in SUBSET Event /\ \A e \in all : e.at >= clock
  BY MonitorEventsType DEF TypeOK, TimeInv
<1> QED
  BY <1>2, <1>3

LEMMA NextTime == TypeOK /\ TimeInv /\ [Next]_vars => TimeInv'
<1> SUFFICES ASSUME TypeOK, TimeInv, [Next]_vars PROVE TimeInv'
  OBVIOUS
<1> USE DEF queueVars, layerVars, statVars, procVars, monitorVars
<1>1. CASE Truncate
  BY <1>1 DEF Truncate, TimeInv
<1>2. CASE Complete
  BY <1>2 DEF Complete, TimeInv
<1>3. CASE Begin
  <2>1. PICK e \in queue :
          /\ \A f \in queue : e.at <= f.at
          /\ clock' = e.at
          /\ LET popped == {f \in queue : f.at = e.at}
             IN  /\ NewBatch(popped)
                 /\ \E r \in Rearms(popped) :
                      queue' = (queue \ popped) \cup r
    BY <1>3 DEF Begin
  <2> DEFINE popped == {f \in queue : f.at = e.at}
  <2>2. PICK r \in Rearms(popped) : queue' = (queue \ popped) \cup r
    BY <2>1
  <2>3. popped \in SUBSET Event /\ e.at \in Nat
    BY DEF TypeOK, Event
  <2>4. \A f \in popped : f.at >= e.at
    BY <2>3
  <2>5. \A x \in r : x.at > e.at /\ x \in Event
    BY <2>3, <2>4, RearmsLater
  <2>6. \A x \in queue' : x.at >= clock'
    BY <2>1, <2>2, <2>5, <2>3 DEF Event
  <2> QED
    BY <1>3, <2>1, <2>6 DEF Begin, NewBatch, TimeInv
<1>4. CASE Layer
  BY <1>4 DEF Layer, TimeInv
<1>5. ASSUME NEW e \in ready, Cancel(e)
      PROVE  TimeInv'
  BY <1>5 DEF Cancel, TimeInv
<1>6. ASSUME NEW e \in ready, Defer(e)
      PROVE  TimeInv'
  BY <1>6 DEF Defer, TimeInv
<1>7. ASSUME NEW e \in ready, RunEvent(e)
      PROVE  TimeInv'
  BY <1>7, OutcomesType, EffectTime DEF RunEvent, MayRun
<1>8. ASSUME NEW e \in ready, Decide(e)
      PROVE  TimeInv'
  BY <1>8, OutcomesType, EffectTime DEF Decide, MayRun
<1>9. ASSUME NEW e \in ready, DecisionFails(e)
      PROVE  TimeInv'
  BY <1>9, EffectTime DEF DecisionFails, MayRun
<1>10. ASSUME NEW e \in ready, NEW c \in Condition, Await(e, c)
       PROVE  TimeInv'
  BY <1>10, EffectTime DEF Await, MayRun
<1>14. ASSUME NEW e \in ready, NEW p \in Process, Resume(e, p)
       PROVE  TimeInv'
  <2>1. PICK new \in SUBSET Event :
          RunWith(e, {}, new) /\ \A x \in new : x.at >= clock
    BY <1>14, ResumeAdds
  <2> QED
    BY <1>14, <2>1, RunTime DEF Resume, MayRun
<1>11. CASE EndMicrostep
  <2>1. PICK r \in Rearms(DueIn(queue)) :
          queue' = (queue \ DueIn(queue)) \cup r
    BY <1>11 DEF EndMicrostep
  <2>2. /\ \A x \in queue' : x.at > clock
        /\ \A e \in DueIn(queue) : e.at = clock
    BY <2>1, DueRearms DEF TypeOK, TimeInv
  <2>3. \A x \in queue' : x.at >= clock
    <3>1. clock \in Nat /\ \A x \in queue' : x.at \in Nat
      BY <1>11, NextType DEF TypeOK, Event, Next
    <3> QED
      BY <3>1, <2>2
  <2> QED
    BY <1>11, <2>2, <2>3 DEF EndMicrostep, TimeInv
<1>12. CASE Overflow
  <2> DEFINE left == current \cup DueIn(queue)
             moved == {[e EXCEPT !.at = clock + 1] : e \in left}
  <2>1. PICK r \in Rearms(DueIn(queue)) :
          queue' = (queue \ DueIn(queue)) \cup r \cup moved
    BY <1>12 DEF Overflow
  <2>2. \A x \in (queue \ DueIn(queue)) \cup r : x \in Event /\ x.at > clock
    BY DueRearms DEF TypeOK, TimeInv
  <2>3. ASSUME NEW x \in moved
        PROVE  x \in Event /\ x.at = clock + 1
    <3>1. PICK e \in left : x = [e EXCEPT !.at = clock + 1]
      OBVIOUS
    <3>2. e \in Event /\ clock + 1 \in Nat
      BY DEF TypeOK, DueIn
    <3> QED
      BY <3>1, <3>2, PostponedType
  <2>4. clock \in Nat /\ \A x \in Event : x.at \in Nat
    BY DEF TypeOK, Event
  <2>5. \A x \in queue' : x.at > clock /\ x.at >= clock
    <3> HIDE DEF moved
    <3> QED
      BY <2>1, <2>2, <2>3, <2>4
  <2> QED
    BY <1>12, <2>5 DEF Overflow, TimeInv
<1>13. CASE Monitors
  <2>1. PICK moved \in SUBSET Touched :
          \E next \in [moved -> clock..Horizon + 1] :
            LET all == queue \cup MonitorEvents(moved, next)
            IN  /\ all \in SUBSET Event
                /\ \A e \in all : e.at >= clock
                /\ \/ /\ NewBatch(DueIn(all))
                      /\ \E r \in Rearms(DueIn(all)) :
                           queue' = (all \ DueIn(all)) \cup r
                      /\ UNCHANGED status
                   \/ /\ DueIn(all) = {}
                      /\ queue' = all
                      /\ LoopOrHalt
                      /\ UNCHANGED current
    BY <1>13, MonitorsQueue
  <2>2. PICK all \in SUBSET Event :
          /\ \A e \in all : e.at >= clock
          /\ \/ /\ NewBatch(DueIn(all))
                /\ \E r \in Rearms(DueIn(all)) :
                     queue' = (all \ DueIn(all)) \cup r
                /\ UNCHANGED status
             \/ /\ DueIn(all) = {}
                /\ queue' = all
                /\ LoopOrHalt
                /\ UNCHANGED current
    BY <2>1
  <2>3. clock \in Nat /\ \A e \in Event : e.at \in Nat
    BY DEF TypeOK, Event
  <2>4. CASE /\ NewBatch(DueIn(all))
             /\ \E r \in Rearms(DueIn(all)) :
                  queue' = (all \ DueIn(all)) \cup r
             /\ UNCHANGED status
    <3>1. PICK r \in Rearms(DueIn(all)) : queue' = (all \ DueIn(all)) \cup r
      BY <2>4
    <3>2. /\ \A x \in queue' : x \in Event /\ x.at > clock
          /\ \A e \in DueIn(all) : e.at = clock
      BY <2>2, <3>1, DueRearms
    <3>3. \A x \in queue' : x.at >= clock
      BY <2>3, <3>2
    <3> QED
      BY <1>13, <2>4, <3>2, <3>3 DEF Monitors, NewBatch, TimeInv
  <2>5. CASE /\ DueIn(all) = {}
             /\ queue' = all
             /\ LoopOrHalt
             /\ UNCHANGED current
    <3>1. \A x \in queue' : x.at > clock /\ x.at >= clock
      BY <2>2, <2>3, <2>5 DEF DueIn
    <3> QED
      BY <1>13, <2>5, <3>1 DEF Monitors, LoopOrHalt, TimeInv
  <2> QED
    BY <2>2, <2>4, <2>5
<1> QED
  BY <1>1, <1>2, <1>3, <1>4, <1>5, <1>6, <1>7, <1>8, <1>9, <1>10, <1>11,
     <1>12, <1>13, <1>14 DEF Next, vars, TimeInv

LEMMA TimeHolds == Spec => [](TypeOK /\ TimeInv)
BY InitType, NextType, InitTime, NextTime, PTL DEF Spec

\* After a decision that could not be made the clock never moves, whatever is
\* still pending at that time and later.
THEOREM HaltHolds == Spec => HaltStopsClock
<1>1. TypeOK /\ TimeInv /\ [Next]_vars => [halted => clock' = clock]_vars
  <2> SUFFICES ASSUME TimeInv, Next, halted PROVE clock' = clock
    BY DEF vars, queueVars
  <2>1. ~Begin
    BY DEF Begin, TimeInv
  <2> USE DEF queueVars, layerVars, statVars, procVars, monitorVars
  <2> QED
    BY <2>1 DEF Next, Truncate, Complete, Layer, Cancel, Defer, RunEvent,
       Decide, DecisionFails, Await, Resume, Effect, RunWith, EndMicrostep,
       Overflow, Monitors
<1> QED
  BY <1>1, TimeHolds, PTL DEF Spec, HaltStopsClock

-----------------------------------------------------------------------------
\* The engine implements the discrete-event simulation.

LEMMA InitSimulates == Init => Sim!Init
<1> SUFFICES ASSUME Init PROVE Sim!Init
  OBVIOUS
<1>1. \A e \in queue : e \in Event /\ e.at >= clock
  BY BranchAssumption DEF Init, Event
<1> QED
  BY <1>1 DEF Init, Sim!Init, Pending

LEMMA RunSimulates ==
  ASSUME TypeOK, TimeInv, pc = "run", NEW e \in ready, NEW w,
         NEW new \in SUBSET Event, \A x \in new : x.at >= clock,
         RunWith(e, w, new)
  PROVE  Sim!Next
<1>1. e \in Pending /\ e \in Sim!Due
  <2>1. e.at = clock /\ clock \in Nat
    BY DEF TypeOK, TimeInv
  <2> QED
    BY <2>1 DEF Pending, Sim!Due
<1>2. Sim!KeepAndAdd(Pending \ {e}, clock)
  <2>1. Pending \ {e} \subseteq Pending'
    BY DEF Pending, RunWith
  <2>2. ASSUME NEW x \in Pending' \ (Pending \ {e})
        PROVE  x \in Event /\ x.at >= clock
    <3>1. CASE x = e
      BY <3>1 DEF TypeOK, TimeInv
    <3>2. CASE x # e
      BY <3>2 DEF Pending, RunWith
    <3> QED
      BY <3>1, <3>2
  <2> QED
    BY <2>1, <2>2 DEF Sim!KeepAndAdd
<1>3. (n + canceled)' = n + canceled + 1
  BY DEF RunWith, TypeOK
<1>4. Sim!Handle(e) /\ status = "running"
  BY <1>1, <1>2, <1>3 DEF Sim!Handle, RunWith, TimeInv
<1> QED
  BY <1>1, <1>4 DEF Sim!Next

LEMMA EffectSimulates ==
  ASSUME TypeOK, TimeInv, pc = "run", NEW e \in ready,
         NEW w, NEW fu \in SUBSET FollowUps[e.id.lab],
         Effect(e, w, fu)
  PROVE  Sim!Next
BY EffectAdds, RunSimulates

LEMMA StepSimulates ==
  TypeOK /\ TypeOK' /\ TimeInv /\ [Next]_vars => [Sim!Next]_Sim!simVars
<1> SUFFICES ASSUME TypeOK, TypeOK', TimeInv, Next
             PROVE  Sim!Next \/ UNCHANGED Sim!simVars
  BY DEF vars, queueVars, layerVars, statVars, Sim!simVars, Pending
<1> USE DEF queueVars, layerVars, statVars, procVars, monitorVars
<1>0. clock \in Nat /\ \A e \in Event : e.at \in Nat
  BY DEF TypeOK, Event
<1>1. CASE Truncate
  <2>1. \A e \in Pending : e.at > clock /\ e \in Event
    BY <1>1, BranchAssumption DEF Truncate, TimeInv, Pending, TypeOK
  <2>2. Sim!Due = {}
    BY <1>0, <2>1 DEF Sim!Due
  <2>3. Sim!KeepAndAdd(Pending, clock) /\ UNCHANGED <<clock, n + canceled>>
    BY <1>1 DEF Truncate, Sim!KeepAndAdd, Pending
  <2> QED
    BY <1>1, <2>2, <2>3 DEF Truncate, TimeInv, Sim!Next, Sim!Truncate
<1>2. CASE Complete
  BY <1>2 DEF Complete, TimeInv, Pending, Sim!Next, Sim!Complete
<1>3. CASE Begin
  <2>1. PICK e \in queue :
          /\ e.at <= Horizon
          /\ \A f \in queue : e.at <= f.at
          /\ clock' = e.at
          /\ LET popped == {f \in queue : f.at = e.at}
             IN  /\ NewBatch(popped)
                 /\ \E r \in Rearms(popped) :
                      queue' = (queue \ popped) \cup r
    BY <1>3 DEF Begin
  <2> DEFINE popped == {f \in queue : f.at = e.at}
  <2>2. PICK r \in Rearms(popped) : queue' = (queue \ popped) \cup r
    BY <2>1
  <2>3. popped \in SUBSET Event /\ e.at \in Nat /\ e.at >= clock
    BY DEF TypeOK, Event, TimeInv
  <2>4. \A x \in r : x.at > e.at /\ x \in Event
    <3>1. \A f \in popped : f.at >= e.at
      BY <2>3
    <3> QED
      BY <2>3, <3>1, RearmsLater
  <2>5. current = {} /\ ready = {} /\ ready' = {} /\ status = "running"
        /\ UNCHANGED <<status, n + canceled>>
    BY <1>3 DEF Begin, TimeInv
  <2>6. Pending = queue /\ Pending' = queue \cup r
    BY <2>1, <2>2, <2>5 DEF Pending, NewBatch
  <2>7. \A x \in r : x.at >= e.at /\ x.at >= clock
    BY <1>0, <2>3, <2>4
  <2>8. Sim!KeepAndAdd(Pending, e.at) /\ Sim!KeepAndAdd(Pending, clock)
    BY <2>4, <2>6, <2>7 DEF Sim!KeepAndAdd
  <2>9. CASE e.at = clock
    BY <2>1, <2>5, <2>8, <2>9 DEF Sim!Next, Sim!Schedule
  <2>10. CASE e.at > clock
    <3>1. \A f \in queue : f.at > clock /\ f.at >= e.at
      BY <1>0, <2>1, <2>3, <2>10 DEF TypeOK
    <3>2. Sim!Due = {}
      BY <1>0, <2>6, <3>1 DEF Sim!Due, TypeOK
    <3> QED
      BY <2>1, <2>5, <2>6, <2>8, <3>1, <3>2 DEF Sim!Next, Sim!Advance
  <2> QED
    BY <1>0, <2>3, <2>9, <2>10
<1>4. CASE Layer
  BY <1>4 DEF Layer, TimeInv, Pending, Sim!simVars
<1>5. ASSUME NEW e \in ready, Cancel(e)
      PROVE  Sim!Next
  <2>1. e \in Pending /\ e \in Sim!Due
    BY <1>0 DEF TimeInv, TypeOK, Pending, Sim!Due
  <2>2. Sim!KeepAndAdd(Pending \ {e}, clock)
    <3>1. /\ Pending \ {e} \subseteq Pending'
          /\ \A x \in Pending' \ (Pending \ {e}) : x = e
      BY <1>5 DEF Cancel, Pending
    <3>2. e \in Event /\ e.at >= clock
      BY <1>0 DEF TypeOK, TimeInv
    <3> QED
      BY <3>1, <3>2 DEF Sim!KeepAndAdd
  <2>3. (n + canceled)' = n + canceled + 1
    BY <1>5 DEF Cancel, TypeOK
  <2> QED
    BY <1>5, <2>1, <2>2, <2>3 DEF Cancel, TimeInv, Sim!Next, Sim!Handle
<1>6. ASSUME NEW e \in ready, Defer(e)
      PROVE  UNCHANGED Sim!simVars
  BY <1>6 DEF Defer, Pending, Sim!simVars
<1>7. ASSUME NEW e \in ready, RunEvent(e)
      PROVE  Sim!Next
  BY <1>7, OutcomesType, EffectSimulates DEF RunEvent, MayRun
<1>8. ASSUME NEW e \in ready, Decide(e)
      PROVE  Sim!Next
  BY <1>8, OutcomesType, EffectSimulates DEF Decide, MayRun
<1>9. ASSUME NEW e \in ready, DecisionFails(e)
      PROVE  Sim!Next
  BY <1>9, EffectSimulates DEF DecisionFails, MayRun
<1>10. ASSUME NEW e \in ready, NEW c \in Condition, Await(e, c)
       PROVE  Sim!Next
  BY <1>10, EffectSimulates DEF Await, MayRun
<1>14. ASSUME NEW e \in ready, NEW p \in Process, Resume(e, p)
       PROVE  Sim!Next
  <2>1. PICK new \in SUBSET Event :
          RunWith(e, {}, new) /\ \A x \in new : x.at >= clock
    BY <1>14, ResumeAdds
  <2> QED
    BY <1>14, <2>1, RunSimulates DEF Resume, MayRun
<1>11. CASE EndMicrostep
  <2>1. PICK r \in Rearms(DueIn(queue)) :
          queue' = (queue \ DueIn(queue)) \cup r
    BY <1>11 DEF EndMicrostep
  <2>2. \A x \in r : x \in Event /\ x.at > clock
    BY <2>1, DueRearms DEF TypeOK, TimeInv
  <2>3. Pending' = Pending \cup r
    BY <1>11, <2>1 DEF EndMicrostep, Pending, DueIn
  <2>4. Sim!KeepAndAdd(Pending, clock)
    BY <1>0, <2>2, <2>3 DEF Sim!KeepAndAdd
  <2> QED
    BY <1>11, <2>4 DEF EndMicrostep, TimeInv, Sim!Next, Sim!Schedule
<1>12. CASE Overflow
  <2> DEFINE left == current \cup DueIn(queue)
             moved == {[e EXCEPT !.at = clock + 1] : e \in left}
  <2>1. PICK r \in Rearms(DueIn(queue)) :
          queue' = (queue \ DueIn(queue)) \cup r \cup moved
    BY <1>12 DEF Overflow
  <2>2. \A x \in r : x \in Event /\ x.at >= clock
    <3>1. \A x \in r : x \in Event /\ x.at > clock
      BY <2>1, DueRearms DEF TypeOK, TimeInv
    <3> QED
      BY <1>0, <3>1 DEF TypeOK, Event
  <2>3. Sim!Due = left
    BY <1>0, <1>12 DEF Overflow, Sim!Due, Pending, DueIn, TimeInv, TypeOK
  <2>4. Pending' = (Pending \ left) \cup moved \cup r
    <3>1. queue \ DueIn(queue) = Pending \ left
      BY <1>0, <1>12 DEF Overflow, Pending, TimeInv, TypeOK, DueIn
    <3>2. Pending' = queue'
      BY <1>12 DEF Overflow, Pending
    <3> HIDE DEF left, moved
    <3> QED
      BY <2>1, <3>1, <3>2
  <2>5. Sim!KeepAndAdd((Pending \ left) \cup moved, clock)
    <3> HIDE DEF left, moved
    <3> QED
      BY <2>2, <2>4 DEF Sim!KeepAndAdd
  <2>6. Sim!Postpone
    BY <1>12, <2>3, <2>5 DEF Overflow, Sim!Postpone
  <2> QED
    BY <1>12, <2>6 DEF Overflow, TimeInv, Sim!Next
<1>13. CASE Monitors
  <2>1. PICK moved \in SUBSET Touched :
          \E next \in [moved -> clock..Horizon + 1] :
            LET all == queue \cup MonitorEvents(moved, next)
            IN  /\ all \in SUBSET Event
                /\ \A e \in all : e.at >= clock
                /\ \/ /\ NewBatch(DueIn(all))
                      /\ \E r \in Rearms(DueIn(all)) :
                           queue' = (all \ DueIn(all)) \cup r
                      /\ UNCHANGED status
                   \/ /\ DueIn(all) = {}
                      /\ queue' = all
                      /\ LoopOrHalt
                      /\ UNCHANGED current
    BY <1>13, MonitorsQueue
  <2>2. PICK all \in SUBSET Event :
          /\ queue \subseteq all
          /\ \A e \in all : e.at >= clock
          /\ \/ /\ NewBatch(DueIn(all))
                /\ \E r \in Rearms(DueIn(all)) :
                     queue' = (all \ DueIn(all)) \cup r
                /\ UNCHANGED status
             \/ /\ DueIn(all) = {}
                /\ queue' = all
                /\ LoopOrHalt
                /\ UNCHANGED current
    BY <2>1
  <2>3. /\ Pending = queue /\ ready' = {} /\ current = {}
        /\ status = "running" /\ UNCHANGED <<clock, n + canceled>>
    BY <1>13 DEF Monitors, Pending, TimeInv
  <2>4. CASE /\ NewBatch(DueIn(all))
             /\ \E r \in Rearms(DueIn(all)) :
                  queue' = (all \ DueIn(all)) \cup r
             /\ UNCHANGED status
    <3>1. PICK r \in Rearms(DueIn(all)) : queue' = (all \ DueIn(all)) \cup r
      BY <2>4
    <3>2. \A x \in r : x \in Event /\ x.at >= clock
      BY <1>0, <2>2, DueRearms
    <3>3. Pending' = all \cup r
      BY <2>3, <2>4, <3>1 DEF Pending, NewBatch, DueIn
    <3>4. Sim!KeepAndAdd(Pending, clock)
      BY <2>2, <2>3, <3>2, <3>3 DEF Sim!KeepAndAdd
    <3> QED
      BY <2>3, <2>4, <3>4 DEF Sim!Next, Sim!Schedule
  <2>5. CASE /\ DueIn(all) = {}
             /\ queue' = all
             /\ LoopOrHalt
             /\ UNCHANGED current
    <3>1. Pending' = all
      BY <2>3, <2>5 DEF Pending
    <3>2. Sim!KeepAndAdd(Pending, clock)
      BY <2>2, <2>3, <3>1 DEF Sim!KeepAndAdd
    <3>3. CASE halted
      <4>1. Sim!Due = {}
        BY <2>2, <2>3, <2>5 DEF DueIn, Sim!Due
      <4> QED
        BY <2>3, <2>5, <3>2, <3>3, <4>1
           DEF LoopOrHalt, Sim!Next, Sim!Truncate
    <3>4. CASE ~halted
      BY <2>3, <2>5, <3>2, <3>4 DEF LoopOrHalt, Sim!Next, Sim!Schedule
    <3> QED
      BY <3>3, <3>4
  <2> QED
    BY <2>2, <2>4, <2>5
<1> QED
  BY <1>1, <1>2, <1>3, <1>4, <1>5, <1>6, <1>7, <1>8, <1>9, <1>10, <1>11,
     <1>12, <1>13, <1>14 DEF Next

\* For every set of operators, hazards, processes, watches and conditions the
\* engine is a discrete-event simulation: it neither loses nor repeats an
\* event, its clock never passes one, and complete means nothing is left.
THEOREM Implementation == Spec => Simulates
<1>1. TypeOK /\ TimeInv /\ [Next]_vars => [Sim!Next]_Sim!simVars
  BY StepSimulates, NextType
<1> QED
  BY <1>1, InitSimulates, TimeHolds, PTL DEF Spec, Simulates, Sim!Spec
-----------------------------------------------------------------------------
\* A layer runs only what waits for nothing in it.

\* The order of a batch: while a layer runs, what its events depend on is
\* neither in it nor left for a later one, so a parent always ran before.
THEOREM LayersHold == Spec => []DependentsWait
<1>1. Init => DependentsWait
  BY DEF Init, DependentsWait
<1>2. DependentsWait /\ [Next]_vars => DependentsWait'
  <2> SUFFICES ASSUME DependentsWait, [Next]_vars PROVE DependentsWait'
    OBVIOUS
  <2> USE DEF queueVars, layerVars, statVars, procVars, monitorVars
  <2>1. CASE Layer
    BY <2>1 DEF Layer, Blocked, IdsOf, DependentsWait
  <2>2. ASSUME /\ pc = "run" /\ UNCHANGED cyclic
               /\ ready' \cup current' \subseteq ready \cup current
               /\ ready' \subseteq ready
        PROVE  DependentsWait'
    BY <2>2 DEF DependentsWait, IdsOf
  <2>3. ASSUME NEW e \in ready, Cancel(e)
        PROVE  DependentsWait'
    BY <2>2, <2>3 DEF Cancel
  <2>4. ASSUME NEW e \in ready, Defer(e)
        PROVE  DependentsWait'
    BY <2>2, <2>4 DEF Defer
  <2>5. ASSUME NEW e \in ready, NEW w, NEW new, MayRun(e), RunWith(e, w, new)
        PROVE  DependentsWait'
    BY <2>2, <2>5 DEF MayRun, RunWith
  <2>6. ASSUME NEW e \in ready,
               \/ RunEvent(e) \/ Decide(e) \/ DecisionFails(e)
               \/ \E c \in Condition : Await(e, c)
               \/ \E p \in Process : Resume(e, p)
        PROVE  DependentsWait'
    BY <2>5, <2>6 DEF RunEvent, Decide, DecisionFails, Await, Resume, Effect
  <2>7. CASE \/ Truncate \/ Complete \/ Begin \/ EndMicrostep \/ Overflow
             \/ Monitors
    BY <2>7 DEF Truncate, Complete, Begin, EndMicrostep, Overflow, Monitors,
       NewBatch, LoopOrHalt, DependentsWait
  <2>8. CASE UNCHANGED vars
    BY <2>8 DEF vars, DependentsWait, IdsOf
  <2> QED
    BY <2>1, <2>3, <2>4, <2>6, <2>7, <2>8 DEF Next
<1> QED
  BY <1>1, <1>2, PTL DEF Spec

-----------------------------------------------------------------------------
\* Hazards: one arrival queued, one crossing that can fire.

\* The labels operators, conditionals and watches schedule.
Others ==
  (UNION {{f[1] : f \in FollowUps[l]} : l \in Label})
  \cup {Wakes[c] : c \in Condition}
  \cup {WatchEvent[w] : w \in Watch}

Crossings == {Crossing[p] : p \in Process}

LEMMA FollowUpOther ==
  ASSUME TypeOK, NEW e \in ready, NEW fu \in SUBSET FollowUps[e.id.lab],
         NEW w, Effect(e, w, fu), NEW x \in queue' \ queue
  PROVE  x.id.lab \in Others
<1>1. PICK f \in fu : x = NewEvent(f[1], clock + f[2], 0, {e.id})
  BY DEF Effect, RunWith
<1>2. x.id.lab = f[1] /\ e.id.lab \in Label
  BY <1>1 DEF NewEvent, TypeOK, Event, Id
<1>3. f[1] \in UNION {{g[1] : g \in FollowUps[l]} : l \in Label}
  BY <1>2
<1> QED
  BY <1>2, <1>3 DEF Others

OneArrivalIn(q) ==
  \A e, f \in q : e.id.lab = f.id.lab /\ e.id.lab \in Hazard => e = f

\* Popping arrivals and re-arming their hazards keeps them single.
LEMMA PopOnce ==
  ASSUME NEW q \in SUBSET Event, OneArrivalIn(q),
         NEW S \in SUBSET q, NEW r \in Rearms(S)
  PROVE  OneArrivalIn((q \ S) \cup r)
<1> DEFINE A == {e \in S : e.id.lab \in Hazard}
<1>1. PICK next \in [A -> 1..Horizon + 1] :
        r = {NewEvent(e.id.lab, next[e], 0, {}) :
               e \in {y \in A : next[y] <= Horizon}}
  BY DEF Rearms
<1>2. \A x \in r : \E e \in A : /\ x = NewEvent(e.id.lab, next[e], 0, {})
                                /\ x.id.lab = e.id.lab
  BY <1>1 DEF NewEvent
<1> SUFFICES ASSUME NEW x \in (q \ S) \cup r, NEW y \in (q \ S) \cup r,
                    x.id.lab = y.id.lab, x.id.lab \in Hazard
             PROVE  x = y
  BY DEF OneArrivalIn
<1>3. CASE x \in r /\ y \in r
  <2>1. PICK e \in A : /\ x = NewEvent(e.id.lab, next[e], 0, {})
                       /\ x.id.lab = e.id.lab
    BY <1>2, <1>3
  <2>2. PICK f \in A : /\ y = NewEvent(f.id.lab, next[f], 0, {})
                       /\ y.id.lab = f.id.lab
    BY <1>2, <1>3
  <2>3. e = f
    BY <2>1, <2>2 DEF OneArrivalIn
  <2> QED
    BY <2>1, <2>2, <2>3
<1>4. CASE x \notin r \/ y \notin r
  BY <1>2, <1>4 DEF OneArrivalIn
<1> QED
  BY <1>3, <1>4

LEMMA AddOthersOnce ==
  ASSUME NEW q, OneArrivalIn(q), NEW s,
         \A x \in s \ q : x.id.lab \notin Hazard
  PROVE  OneArrivalIn(s)
BY DEF OneArrivalIn

\* The monitors schedule no arrivals.
LEMMA MonitorsOnce ==
  ASSUME TypeOK, OneArrivalIn(queue), NEW moved \in SUBSET Touched,
         NEW next \in [moved -> clock..Horizon + 1]
  PROVE  OneArrivalIn(queue \cup MonitorEvents(moved, next))
<1>1. \A x \in MonitorEvents(moved, next) :
        x.id.lab \in Crossings \cup Others
  BY MonitorEventsType DEF Touched, Crossings, Others
<1>2. (Crossings \cup Others) \cap Hazard = {}
  BY SourceAssumption DEF Crossings, Others
<1> QED
  BY <1>1, <1>2, AddOthersOnce

\* Popping and re-arming are the only ways an arrival gets into the queue, so
\* whatever runs and however often the processes are re-projected, a hazard
\* has at most one arrival queued until an overflow puts one back.
THEOREM RenewalHolds == Spec => []OneArrivalPerHazard
<1> DEFINE Inv == OneArrivalPerHazard
<1>1. Init => Inv
  BY SourceAssumption DEF Init, OneArrivalPerHazard
<1>2. TypeOK /\ TimeInv /\ Inv /\ [Next]_vars => Inv'
  <2> SUFFICES ASSUME TypeOK, TimeInv, Inv, [Next]_vars, ~overflowed'
               PROVE  OneArrivalIn(queue')
    BY DEF OneArrivalPerHazard, OneArrivalIn
  <2> USE DEF queueVars, layerVars, statVars, procVars, monitorVars
  <2>0. ~overflowed /\ ~Overflow
    <3>1. ~Overflow
      BY DEF Overflow
    <3>2. ASSUME NEW e \in ready, NEW w, NEW new, RunWith(e, w, new)
          PROVE  UNCHANGED overflowed
      BY <3>2 DEF RunWith
    <3>3. UNCHANGED overflowed
      BY <3>1, <3>2 DEF Next, vars, Truncate, Complete, Begin, Layer, Cancel,
         Defer, RunEvent, Decide, DecisionFails, Await, Resume, Effect,
         EndMicrostep, Monitors
    <3> QED
      BY <3>1, <3>3
  <2>1. OneArrivalIn(queue) /\ queue \in SUBSET Event
    BY <2>0 DEF OneArrivalPerHazard, OneArrivalIn, TypeOK
  <2>2. CASE queue' = queue
    BY <2>1, <2>2
  <2>3. CASE Begin
    <3>1. PICK e \in queue :
            LET popped == {f \in queue : f.at = e.at}
            IN  \E r \in Rearms(popped) : queue' = (queue \ popped) \cup r
      BY <2>3 DEF Begin
    <3> DEFINE popped == {f \in queue : f.at = e.at}
    <3>2. PICK r \in Rearms(popped) : queue' = (queue \ popped) \cup r
      BY <3>1
    <3>3. popped \in SUBSET queue
      OBVIOUS
    <3> HIDE DEF popped
    <3> QED
      BY <2>1, <3>2, <3>3, PopOnce
  <2>4. ASSUME NEW e \in ready, NEW w, NEW fu \in SUBSET FollowUps[e.id.lab],
               Effect(e, w, fu)
        PROVE  OneArrivalIn(queue')
    <3>1. \A x \in queue' \ queue : x.id.lab \notin Hazard
      BY <2>4, FollowUpOther, SourceAssumption DEF Others
    <3> QED
      BY <2>1, <3>1, AddOthersOnce
  <2>5. ASSUME NEW e \in ready,
               \/ RunEvent(e) \/ Decide(e) \/ DecisionFails(e)
               \/ \E c \in Condition : Await(e, c)
        PROVE  OneArrivalIn(queue')
    BY <2>4, <2>5, OutcomesType DEF RunEvent, Decide, DecisionFails, Await
  <2>9. ASSUME NEW e \in ready, NEW p \in Process, Resume(e, p)
        PROVE  OneArrivalIn(queue')
    <3>1. PICK new \in SUBSET Event :
            RunWith(e, {}, new) /\ \A x \in new : x.id.lab = Crossing[p]
      BY <2>9, ResumeAdds
    <3>2. \A x \in queue' \ queue : x.id.lab \notin Hazard
      BY <3>1, SourceAssumption DEF RunWith
    <3> QED
      BY <2>1, <3>2, AddOthersOnce
  <2>6. CASE EndMicrostep
    <3>1. PICK r \in Rearms(DueIn(queue)) :
            queue' = (queue \ DueIn(queue)) \cup r
      BY <2>6 DEF EndMicrostep
    <3>2. DueIn(queue) \in SUBSET queue
      BY DEF DueIn
    <3> QED
      BY <2>1, <3>1, <3>2, PopOnce
  <2>7. CASE Monitors
    <3>1. PICK moved \in SUBSET Touched :
            \E next \in [moved -> clock..Horizon + 1] :
              LET all == queue \cup MonitorEvents(moved, next)
              IN  /\ all \in SUBSET Event
                  /\ \/ \E r \in Rearms(DueIn(all)) :
                          queue' = (all \ DueIn(all)) \cup r
                     \/ queue' = all
      BY <2>7, MonitorsQueue
    <3>2. PICK next \in [moved -> clock..Horizon + 1] :
            LET all == queue \cup MonitorEvents(moved, next)
            IN  /\ all \in SUBSET Event
                /\ \/ \E r \in Rearms(DueIn(all)) :
                        queue' = (all \ DueIn(all)) \cup r
                   \/ queue' = all
      BY <3>1
    <3> DEFINE all == queue \cup MonitorEvents(moved, next)
    <3>3. OneArrivalIn(all) /\ DueIn(all) \in SUBSET all
      BY <2>1, MonitorsOnce DEF DueIn
    <3>4. all \in SUBSET Event
      BY <3>2
    <3> HIDE DEF all
    <3>5. \/ \E r \in Rearms(DueIn(all)) : queue' = (all \ DueIn(all)) \cup r
          \/ queue' = all
      BY <3>2 DEF all
    <3> QED
      BY <3>3, <3>4, <3>5, PopOnce
  <2>8. \/ queue' = queue \/ Begin \/ EndMicrostep \/ Monitors
        \/ \E e \in ready : \/ RunEvent(e) \/ Decide(e) \/ DecisionFails(e)
                            \/ \E c \in Condition : Await(e, c)
                            \/ \E p \in Process : Resume(e, p)
    BY <2>0 DEF Next, vars, Truncate, Complete, Layer, Cancel, Defer
  <2> QED
    BY <2>2, <2>3, <2>5, <2>6, <2>7, <2>8, <2>9
<1> QED
  BY <1>1, <1>2, TimeHolds, PTL DEF Spec

CrossingsIn(s, g) ==
  \A p \in Process :
    /\ \A e \in s : e.id.lab = Crossing[p] => e.id.gen <= g[p]
    /\ \A e, f \in s :
         /\ e.id.lab = Crossing[p] /\ e.id.gen = g[p]
         /\ f.id.lab = Crossing[p] /\ f.id.gen = g[p]
         => e = f

\* No pending crossing is of a later generation than its process, and at most
\* one is of its process's.
CrossingInv == CrossingsIn(Pending, gen)

LEMMA AddOthersCurrent ==
  ASSUME NEW s, CrossingsIn(s, gen), NEW t,
         \A x \in t \ s : x.id.lab \notin Crossings
  PROVE  CrossingsIn(t, gen)
BY DEF CrossingsIn, Crossings

LEMMA RearmsNoCrossing ==
  ASSUME NEW S \in SUBSET Event, NEW r \in Rearms(S), NEW x \in r
  PROVE  x.id.lab \notin Crossings
<1>1. \A e \in S : e.at >= 0
  BY DEF Event
<1>2. x.id.lab \in Hazard
  BY <1>1, RearmsLater
<1> QED
  BY <1>2, SourceAssumption DEF Crossings

\* A resume supersedes what its process had pending.
LEMMA ResumeCurrent ==
  ASSUME TypeOK, CrossingInv, NEW e \in ready, NEW p \in Process, Resume(e, p)
  PROVE  CrossingInv'
<1>1. PICK new \in SUBSET Event :
        /\ RunWith(e, {}, new)
        /\ \A x \in new : x.id.lab = Crossing[p] /\ x.id.gen = NextGen(p)
        /\ \A x, y \in new : x = y
  BY ResumeAdds
<1>2. Pending' \subseteq Pending \cup new
  BY <1>1 DEF RunWith, Pending
<1>3. /\ gen'[p] = gen[p] + 1 /\ NextGen(p) = gen[p] + 1 /\ gen[p] \in Nat
      /\ \A q \in Process \ {p} : gen'[q] = gen[q]
  BY DEF Resume, NextGen, TypeOK
<1>4. \A x \in Pending : x.id.gen \in Nat
  BY DEF Pending, TypeOK, Event, Id
<1> SUFFICES ASSUME NEW q \in Process
             PROVE  /\ \A x \in Pending' : x.id.lab = Crossing[q]
                                          => x.id.gen <= gen'[q]
                    /\ \A x, y \in Pending' :
                         /\ x.id.lab = Crossing[q] /\ x.id.gen = gen'[q]
                         /\ y.id.lab = Crossing[q] /\ y.id.gen = gen'[q]
                         => x = y
  BY DEF CrossingInv, CrossingsIn
<1>5. CASE q = p
  <2>1. \A x \in Pending : x.id.lab = Crossing[p] => x.id.gen <= gen[p]
    BY DEF CrossingInv, CrossingsIn
  <2>2. \A x \in Pending : x.id.lab = Crossing[p]
          => x.id.gen <= gen'[p] /\ x.id.gen # gen'[p]
    BY <1>3, <1>4, <2>1
  <2>3. \A x \in new : x.id.gen <= gen'[p]
    BY <1>1, <1>3
  <2> QED
    BY <1>1, <1>2, <1>5, <2>2, <2>3
<1>6. CASE q # p
  <2>1. \A x \in Pending' : x.id.lab = Crossing[q] => x \in Pending
    BY <1>1, <1>2, <1>6, BranchAssumption
  <2>2. gen'[q] = gen[q]
    BY <1>3, <1>6
  <2> QED
    BY <2>1, <2>2 DEF CrossingInv, CrossingsIn
<1> QED
  BY <1>5, <1>6

\* A re-projection supersedes what its process had pending.
LEMMA MonitorsCurrent ==
  ASSUME TypeOK, CrossingsIn(queue, gen), NEW moved \in SUBSET Touched,
         NEW next \in [moved -> clock..Horizon + 1],
         gen' = [p \in Process |-> IF p \in moved THEN NextGen(p) ELSE gen[p]]
  PROVE  CrossingsIn(queue \cup MonitorEvents(moved, next), gen')
<1> DEFINE all == queue \cup MonitorEvents(moved, next)
<1> SUFFICES ASSUME NEW p \in Process
             PROVE  /\ \A e \in all : e.id.lab = Crossing[p]
                                      => e.id.gen <= gen'[p]
                    /\ \A e, f \in all :
                         /\ e.id.lab = Crossing[p] /\ e.id.gen = gen'[p]
                         /\ f.id.lab = Crossing[p] /\ f.id.gen = gen'[p]
                         => e = f
  BY DEF CrossingsIn
<1>1. gen[p] \in Nat /\ \A e \in queue : e.id.gen \in Nat
  BY DEF TypeOK, Event, Id
<1>2. \A e \in queue : e.id.lab = Crossing[p] => e.id.gen <= gen[p]
  BY DEF CrossingsIn
<1>3. ASSUME NEW x \in MonitorEvents(moved, next), x.id.lab = Crossing[p]
      PROVE  p \in moved /\ x = NewEvent(Crossing[p], next[p], NextGen(p), {})
  <2>1. x.id.lab \notin Others
    BY <1>3, SourceAssumption DEF Others
  <2>2. PICK q \in moved : x \in Projected(q, next[q], {})
    <3>1. ASSUME NEW w \in Watch, x = NewEvent(WatchEvent[w], clock, 0, {})
          PROVE  FALSE
      BY <2>1, <3>1 DEF NewEvent, Others
    <3>2. ASSUME NEW c \in Condition, NEW d, x = NewEvent(Wakes[c], clock, 0, d)
          PROVE  FALSE
      BY <2>1, <3>2 DEF NewEvent, Others
    <3>3. armed \subseteq Condition /\ Alerted \subseteq Watch
      BY DEF TypeOK, Alerted
    <3> QED
      BY <3>1, <3>2, <3>3 DEF MonitorEvents, Met
  <2>3. x = NewEvent(Crossing[q], next[q], NextGen(q), {})
    BY <2>2 DEF Projected
  <2>4. q \in Process /\ Crossing[q] = Crossing[p]
    BY <1>3, <2>3 DEF NewEvent, Touched
  <2> QED
    BY <2>3, <2>4, BranchAssumption
<1>4. CASE p \in moved
  <2>1. gen'[p] = gen[p] + 1 /\ NextGen(p) = gen[p] + 1
    BY <1>4 DEF NextGen
  <2>2. \A e \in queue : e.id.lab = Crossing[p]
          => e.id.gen <= gen'[p] /\ e.id.gen # gen'[p]
    BY <1>1, <1>2, <2>1
  <2>3. \A e \in MonitorEvents(moved, next) : e.id.lab = Crossing[p]
          => /\ e = NewEvent(Crossing[p], next[p], NextGen(p), {})
             /\ e.id.gen = gen'[p]
    BY <1>3, <2>1 DEF NewEvent
  <2>4. gen'[p] <= gen'[p]
    BY <1>1, <2>1
  <2> QED
    BY <2>2, <2>3, <2>4
<1>5. CASE p \notin moved
  <2>1. gen'[p] = gen[p]
    BY <1>5
  <2>2. \A e \in all : e.id.lab = Crossing[p] => e \in queue
    BY <1>3, <1>5
  <2> QED
    BY <1>2, <2>1, <2>2 DEF CrossingsIn
<1> QED
  BY <1>4, <1>5

\* What an overflow moves on stays what it was, once.
LEMMA OverflowCurrent ==
  ASSUME TypeOK, TimeInv, CrossingInv, Overflow
  PROVE  CrossingInv'
<1> DEFINE left == current \cup DueIn(queue)
           kept == queue \ DueIn(queue)
           moved == {[e EXCEPT !.at = clock + 1] : e \in left}
<1>1. PICK r \in Rearms(DueIn(queue)) : queue' = kept \cup r \cup moved
  BY DEF Overflow
<1>2. ready = {} /\ Pending' = queue' /\ UNCHANGED gen
  BY DEF Overflow, Pending, procVars
<1>3. kept \cap left = {} /\ kept \cup left \subseteq Pending
  <2>1. clock \in Nat
    BY DEF TypeOK
  <2> QED
    BY <2>1 DEF Pending, DueIn, TimeInv, TypeOK
<1>4. \A x \in moved : \E e \in left :
        x = [e EXCEPT !.at = clock + 1] /\ x.id = e.id
  <2>1. \A e \in left : e \in Event
    BY DEF TypeOK, DueIn
  <2> QED
    BY <2>1, PostponedType DEF TypeOK, Event
<1>5. CrossingsIn(kept \cup moved, gen)
  <2> HIDE DEF kept, left, moved
  <2>1. \A x \in kept \cup moved : \E e \in kept \cup left :
          /\ x.id = e.id
          /\ \/ e \in kept /\ x = e
             \/ e \in left /\ x = [e EXCEPT !.at = clock + 1]
    BY <1>4
  <2> SUFFICES ASSUME NEW p \in Process
               PROVE  /\ \A x \in kept \cup moved : x.id.lab = Crossing[p]
                                                    => x.id.gen <= gen[p]
                      /\ \A x, y \in kept \cup moved :
                           /\ x.id.lab = Crossing[p] /\ x.id.gen = gen[p]
                           /\ y.id.lab = Crossing[p] /\ y.id.gen = gen[p]
                           => x = y
    BY DEF CrossingsIn
  <2>2. \A x \in kept \cup moved : x.id.lab = Crossing[p]
                                   => x.id.gen <= gen[p]
    BY <1>3, <2>1 DEF CrossingInv, CrossingsIn
  <2>3. ASSUME NEW x \in kept \cup moved, NEW y \in kept \cup moved,
               x.id.lab = Crossing[p], x.id.gen = gen[p],
               y.id.lab = Crossing[p], y.id.gen = gen[p]
        PROVE  x = y
    <3>1. PICK e \in kept \cup left :
            /\ x.id = e.id
            /\ \/ e \in kept /\ x = e
               \/ e \in left /\ x = [e EXCEPT !.at = clock + 1]
      BY <2>1
    <3>2. PICK f \in kept \cup left :
            /\ y.id = f.id
            /\ \/ f \in kept /\ y = f
               \/ f \in left /\ y = [f EXCEPT !.at = clock + 1]
      BY <2>1
    <3>3. e = f
      BY <1>3, <2>3, <3>1, <3>2 DEF CrossingInv, CrossingsIn
    <3> QED
      BY <1>3, <3>1, <3>2, <3>3
  <2> QED
    BY <2>2, <2>3
<1>6. \A x \in r : x.id.lab \notin Crossings
  <2>1. DueIn(queue) \in SUBSET Event
    BY DEF DueIn, TypeOK
  <2> QED
    BY <2>1, RearmsNoCrossing
<1>7. CrossingsIn(queue', gen)
  <2> HIDE DEF kept, moved
  <2> QED
    BY <1>1, <1>5, <1>6, AddOthersCurrent
<1> QED
  BY <1>2, <1>7 DEF CrossingInv, Pending

\* Every process has at most one crossing that can still fire, whatever was
\* written, however often it was re-projected or resumed after a collapse and
\* wherever its superseded crossings wait.
THEOREM CrossingHolds == Spec => []OneCurrentCrossing
<1>1. Init => CrossingInv
  <2> SUFFICES ASSUME Init PROVE CrossingInv
    OBVIOUS
  <2>1. Pending = queue /\ \A e \in queue : e.id.lab \in Crossings => e.id.gen = 0
    BY SourceAssumption DEF Init, Pending, Crossings
  <2>2. \A e, f \in queue :
          e.id.lab = f.id.lab /\ e.id.lab \in Crossings => e = f
    BY SourceAssumption DEF Init, Crossings
  <2>3. \A p \in Process : gen[p] = 0 /\ Crossing[p] \in Crossings
    BY DEF Init, Crossings
  <2> QED
    BY <2>1, <2>2, <2>3 DEF CrossingInv, CrossingsIn
<1>2. TypeOK /\ TimeInv /\ CrossingInv /\ [Next]_vars => CrossingInv'
  <2> SUFFICES ASSUME TypeOK, TimeInv, CrossingInv, [Next]_vars
               PROVE  CrossingInv'
    OBVIOUS
  <2> USE DEF queueVars, layerVars, statVars, procVars, monitorVars
  <2>1. ASSUME gen' = gen,
               \A x \in Pending' \ Pending : x.id.lab \notin Crossings
        PROVE  CrossingInv'
    BY <2>1, AddOthersCurrent DEF CrossingInv
  <2>2. CASE \/ Truncate \/ Complete \/ Layer \/ UNCHANGED vars
             \/ \E e \in ready : Cancel(e) \/ Defer(e)
    <3>1. gen' = gen /\ Pending' \subseteq Pending
      BY <2>2 DEF Truncate, Complete, Layer, Cancel, Defer, Pending, vars
    <3> QED
      BY <2>1, <3>1
  <2>3. CASE Begin
    <3>1. PICK e \in queue :
            LET popped == {f \in queue : f.at = e.at}
            IN  /\ current' = popped
                /\ \E r \in Rearms(popped) : queue' = (queue \ popped) \cup r
      BY <2>3 DEF Begin, NewBatch
    <3> DEFINE popped == {f \in queue : f.at = e.at}
    <3>2. PICK r \in Rearms(popped) : queue' = (queue \ popped) \cup r
      BY <3>1
    <3>3. popped \in SUBSET Event /\ ready' = ready /\ gen' = gen
      BY <2>3 DEF Begin, TypeOK
    <3>4. Pending' \subseteq Pending \cup r
      BY <3>1, <3>2, <3>3 DEF Pending
    <3> HIDE DEF popped
    <3> QED
      BY <2>1, <3>2, <3>3, <3>4, RearmsNoCrossing
  <2>4. ASSUME NEW e \in ready, NEW w, NEW fu \in SUBSET FollowUps[e.id.lab],
               Effect(e, w, fu), gen' = gen
        PROVE  CrossingInv'
    <3>1. \A x \in queue' \ queue : x.id.lab \notin Crossings
      BY <2>4, FollowUpOther, SourceAssumption DEF Others, Crossings
    <3>2. Pending' \ Pending \subseteq queue' \ queue
      BY <2>4 DEF Effect, RunWith, Pending
    <3> QED
      BY <2>1, <2>4, <3>1, <3>2
  <2>5. ASSUME NEW e \in ready,
               \/ RunEvent(e) \/ Decide(e) \/ DecisionFails(e)
               \/ \E c \in Condition : Await(e, c)
        PROVE  CrossingInv'
    BY <2>4, <2>5, OutcomesType DEF RunEvent, Decide, DecisionFails, Await
  <2>6. CASE EndMicrostep
    <3>1. PICK r \in Rearms(DueIn(queue)) :
            queue' = (queue \ DueIn(queue)) \cup r
      BY <2>6 DEF EndMicrostep
    <3>2. DueIn(queue) \in SUBSET Event
      BY DEF DueIn, TypeOK
    <3>3. gen' = gen /\ Pending' \subseteq Pending \cup r
      BY <2>6, <3>1 DEF EndMicrostep, Pending, DueIn
    <3> QED
      BY <2>1, <3>1, <3>2, <3>3, RearmsNoCrossing
  <2>9. ASSUME NEW e \in ready, NEW p \in Process, Resume(e, p)
        PROVE  CrossingInv'
    BY <2>9, ResumeCurrent
  <2>7. CASE Overflow
    BY <2>7, OverflowCurrent
  <2>8. CASE Monitors
    <3>0. Pending = queue /\ ready' = {} /\ current = {}
      BY <2>8 DEF Monitors, Pending, TimeInv
    <3>1. PICK moved \in SUBSET Touched :
            \E next \in [moved -> clock..Horizon + 1] :
              LET all == queue \cup MonitorEvents(moved, next)
              IN  /\ all \in SUBSET Event
                  /\ gen' = [p \in Process |->
                               IF p \in moved THEN NextGen(p) ELSE gen[p]]
                  /\ \/ /\ NewBatch(DueIn(all))
                        /\ \E r \in Rearms(DueIn(all)) :
                             queue' = (all \ DueIn(all)) \cup r
                     \/ /\ queue' = all
                        /\ UNCHANGED current
      BY <2>8, MonitorsQueue
    <3>2. PICK next \in [moved -> clock..Horizon + 1] :
              LET all == queue \cup MonitorEvents(moved, next)
              IN  /\ all \in SUBSET Event
                  /\ gen' = [p \in Process |->
                               IF p \in moved THEN NextGen(p) ELSE gen[p]]
                  /\ \/ /\ NewBatch(DueIn(all))
                        /\ \E r \in Rearms(DueIn(all)) :
                             queue' = (all \ DueIn(all)) \cup r
                     \/ /\ queue' = all
                        /\ UNCHANGED current
      BY <3>1
    <3> DEFINE all == queue \cup MonitorEvents(moved, next)
    <3>3. CrossingsIn(all, gen')
      BY <3>0, <3>2, MonitorsCurrent DEF CrossingInv
    <3>4. all \in SUBSET Event /\ DueIn(all) \in SUBSET Event
      BY <3>2 DEF DueIn
    <3>5. \/ /\ NewBatch(DueIn(all))
             /\ \E r \in Rearms(DueIn(all)) :
                  queue' = (all \ DueIn(all)) \cup r
          \/ /\ queue' = all
             /\ UNCHANGED current
      BY <3>2
    <3> HIDE DEF all
    <3>6. \A x \in Pending' \ all : x.id.lab \notin Crossings
      <4>1. CASE queue' = all /\ UNCHANGED current
        BY <3>0, <4>1 DEF Pending
      <4>2. CASE /\ NewBatch(DueIn(all))
                 /\ \E r \in Rearms(DueIn(all)) :
                      queue' = (all \ DueIn(all)) \cup r
        <5>1. PICK r \in Rearms(DueIn(all)) :
                queue' = (all \ DueIn(all)) \cup r
          BY <4>2
        <5>2. Pending' \subseteq all \cup r
          BY <3>0, <4>2, <5>1 DEF Pending, NewBatch, DueIn
        <5> QED
          BY <3>4, <5>1, <5>2, RearmsNoCrossing
      <4> QED
        BY <3>5, <4>1, <4>2
    <3> QED
      BY <3>3, <3>6 DEF CrossingInv, CrossingsIn, Crossings
  <2> QED
    BY <2>2, <2>3, <2>5, <2>6, <2>7, <2>8, <2>9 DEF Next
<1>3. CrossingInv => OneCurrentCrossing
  BY DEF CrossingInv, CrossingsIn, OneCurrentCrossing
<1> QED
  BY <1>1, <1>2, <1>3, TimeHolds, PTL DEF Spec
-----------------------------------------------------------------------------
(* Progress: what Termination rests on besides the scheduler.               *)

\* How many more times the clock may move: the loop never takes the same
\* time twice.
TimesLeft == IF pc = "loop" /\ micro = 0 THEN Horizon + 2 ELSE Horizon + 1 - clock

\* The invocations that actors have left.
InvocationsLeft == {x \in Actor \X (1..MaxInvocations) : invoked[x[1]] < x[2]}

\* What monitors and checks may still schedule: fires of watches, generations
\* of processes, armed conditions.
FiresLeft == {x \in Watch \X (1..MaxFires) : fires[x[1]] < x[2]}
ProjectionsLeft == {x \in Process \X (1..MaxGeneration) : gen[x[1]] < x[2]}
MonitorsLeft == ({"fire"} \X FiresLeft) \cup ({"projection"} \X ProjectionsLeft)
                \cup ({"condition"} \X armed)

\* The microsteps that a batch has left, and where the loop is in them.
PhasesLeft ==
  4 * (MicrostepLimit + 1 - micro)
  + CASE pc = "layer" -> 4 [] pc = "run" -> 3 [] pc = "monitors" -> 2
      [] pc = "loop" -> 1 [] pc = "done" -> 0

Shrinks(T, S) == T \subseteq S /\ T # S

\* One step less: the five measures in this order.
StepsLess ==
  \/ TimesLeft' < TimesLeft
  \/ /\ TimesLeft' = TimesLeft
     /\ \/ Shrinks(InvocationsLeft', InvocationsLeft)
        \/ /\ InvocationsLeft' = InvocationsLeft
           /\ \/ Shrinks(MonitorsLeft', MonitorsLeft)
              \/ /\ MonitorsLeft' = MonitorsLeft
                 /\ \/ PhasesLeft' < PhasesLeft
                    \/ /\ PhasesLeft' = PhasesLeft
                       /\ Shrinks(ready', ready)

\* Batches and times: nothing is due when a batch has ended, and its
\* microsteps are within the limit.
BatchInv ==
  /\ clock <= Horizon
  /\ micro <= MicrostepLimit + 1
  /\ pc \in {"layer", "run"} => micro <= MicrostepLimit
  /\ pc = "monitors" => micro > 0
  /\ pc = "monitors" \/ (pc = "loop" /\ micro > 0) => \A e \in queue : e.at > clock

\* What is pending is finite.
FiniteInv == IsFiniteSet(queue) /\ IsFiniteSet(current) /\ IsFiniteSet(ready)

LEMMA InitBatch == Init => BatchInv
BY BranchAssumption DEF Init, BatchInv

\* The monitors either start a batch, and then some monitor fired, or leave
\* nothing due.
LEMMA MonitorsBatch ==
  ASSUME TypeOK, TimeInv, BatchInv, Monitors
  PROVE  \/ /\ pc' = "layer" /\ micro' = 0
            /\ MonitorsLeft' \subseteq MonitorsLeft /\ MonitorsLeft' # MonitorsLeft
         \/ /\ pc' \in {"loop", "done"} /\ micro' = micro
            /\ \A e \in queue' : e.at > clock
            /\ MonitorsLeft' \subseteq MonitorsLeft
<1>0. PICK moved \in SUBSET Touched :
        \E next \in [moved -> clock..Horizon + 1] :
          /\ gen' = [p \in Process |-> IF p \in moved THEN NextGen(p) ELSE gen[p]]
          /\ LET all == queue \cup MonitorEvents(moved, next)
             IN  IF DueIn(all) # {}
                 THEN NewBatch(DueIn(all))
                 ELSE /\ queue' = all
                      /\ LoopOrHalt
                      /\ UNCHANGED micro
  BY DEF Monitors
<1>1. PICK next \in [moved -> clock..Horizon + 1] :
        /\ gen' = [p \in Process |-> IF p \in moved THEN NextGen(p) ELSE gen[p]]
        /\ LET all == queue \cup MonitorEvents(moved, next)
           IN  IF DueIn(all) # {}
               THEN NewBatch(DueIn(all))
               ELSE /\ queue' = all
                    /\ LoopOrHalt
                    /\ UNCHANGED micro
  BY <1>0
<1> DEFINE all == queue \cup MonitorEvents(moved, next)
<1>2. /\ pc = "monitors"
      /\ fires' = [w \in Watch |-> IF w \in Alerted THEN fires[w] + 1 ELSE fires[w]]
      /\ armed' = armed \ Met
  BY DEF Monitors
<1>3. /\ fires \in [Watch -> 0..MaxFires] /\ gen \in [Process -> Nat] /\ clock \in Nat
      /\ moved \subseteq Touched /\ Touched \subseteq Process
      /\ Alerted \subseteq Watch /\ Met \subseteq armed
      /\ MaxFires \in Nat /\ MaxGeneration \in Nat
  BY BranchAssumption DEF TypeOK, Touched, Alerted, Met
<1>4. /\ \A w \in Watch : fires'[w] \in Nat /\ fires'[w] >= fires[w]
      /\ \A w \in Alerted : fires'[w] = fires[w] + 1 /\ fires[w] < MaxFires
  BY <1>2, <1>3 DEF Alerted
<1>5. /\ \A p \in Process : gen'[p] \in Nat /\ gen'[p] >= gen[p]
      /\ \A p \in moved : gen'[p] = gen[p] + 1 /\ gen[p] < MaxGeneration
  BY <1>1, <1>3 DEF Touched, NextGen
<1>6. FiresLeft' \subseteq FiresLeft /\ ProjectionsLeft' \subseteq ProjectionsLeft /\ armed' \subseteq armed
  <2>1. ASSUME NEW x \in FiresLeft' PROVE x \in FiresLeft
    <3>1. x[1] \in Watch /\ x[2] \in 1..MaxFires /\ x \in Watch \X (1..MaxFires) /\ fires'[x[1]] < x[2]
      BY DEF FiresLeft
    <3>2. fires[x[1]] \in Nat /\ fires'[x[1]] \in Nat /\ x[2] \in Nat /\ fires'[x[1]] >= fires[x[1]]
      BY <1>3, <1>4, <3>1
    <3>3. QED BY <3>1, <3>2 DEF FiresLeft
  <2>2. ASSUME NEW x \in ProjectionsLeft' PROVE x \in ProjectionsLeft
    <3>1. x[1] \in Process /\ x[2] \in 1..MaxGeneration /\ x \in Process \X (1..MaxGeneration) /\ gen'[x[1]] < x[2]
      BY DEF ProjectionsLeft
    <3>2. gen[x[1]] \in Nat /\ gen'[x[1]] \in Nat /\ x[2] \in Nat /\ gen'[x[1]] >= gen[x[1]]
      BY <1>3, <1>5, <3>1
    <3>3. QED BY <3>1, <3>2 DEF ProjectionsLeft
  <2>3. QED BY <1>2, <2>1, <2>2
<1>7. MonitorsLeft' \subseteq MonitorsLeft
  BY <1>6 DEF MonitorsLeft
<1>8. CASE DueIn(all) = {}
  <2>1. queue' = all /\ LoopOrHalt /\ micro' = micro
    BY <1>1, <1>8
  <2>2. \A e \in queue' : e \in Event /\ ~(e.at <= clock)
    BY <1>8, <2>1, MonitorEventsType DEF DueIn, TypeOK
  <2>3. \A e \in queue' : e.at > clock
    BY <1>3, <2>2 DEF Event
  <2>4. QED BY <1>7, <2>1, <2>3 DEF LoopOrHalt
<1>9. CASE DueIn(all) # {}
  <2>1. pc' = "layer" /\ micro' = 0
    BY <1>1, <1>9 DEF NewBatch
  <2>2. MonitorEvents(moved, next) # {}
    <3>1. PICK e \in all : e.at <= clock BY <1>9 DEF DueIn
    <3>2. e \notin queue
      <4>1. \A f \in queue : f.at > clock /\ f.at \in Nat BY <1>2 DEF BatchInv, TypeOK, Event
      <4>2. QED BY <1>3, <3>1, <4>1
    <3>3. QED BY <3>1, <3>2
  <2>3. moved # {} \/ Alerted # {} \/ Met # {}
    BY <2>2 DEF MonitorEvents
  <2>4. CASE moved # {}
    <3>1. PICK p \in moved : TRUE BY <2>4
    <3>2. gen[p] \in Nat /\ gen'[p] = gen[p] + 1 /\ gen[p] + 1 \in 1..MaxGeneration /\ p \in Process
      BY <1>3, <1>5
    <3> DEFINE x == <<p, gen[p] + 1>>
    <3>3. x \in ProjectionsLeft /\ x \notin ProjectionsLeft'
      BY <3>2 DEF ProjectionsLeft
    <3>4. <<"projection", x>> \in MonitorsLeft /\ <<"projection", x>> \notin MonitorsLeft'
      BY <3>3 DEF MonitorsLeft
    <3>5. QED BY <1>7, <2>1, <3>4
  <2>5. CASE Alerted # {}
    <3>1. PICK w \in Alerted : TRUE BY <2>5
    <3>2. fires[w] \in Nat /\ fires'[w] = fires[w] + 1 /\ fires[w] + 1 \in 1..MaxFires /\ w \in Watch
      BY <1>3, <1>4
    <3> DEFINE x == <<w, fires[w] + 1>>
    <3>3. x \in FiresLeft /\ x \notin FiresLeft'
      BY <3>2 DEF FiresLeft
    <3>4. <<"fire", x>> \in MonitorsLeft /\ <<"fire", x>> \notin MonitorsLeft'
      BY <3>3 DEF MonitorsLeft
    <3>5. QED BY <1>7, <2>1, <3>4
  <2>6. CASE Met # {}
    <3>1. PICK c \in Met : c \in armed /\ c \notin armed' BY <1>2, <1>3, <2>6
    <3>2. <<"condition", c>> \in MonitorsLeft /\ <<"condition", c>> \notin MonitorsLeft'
      BY <3>1 DEF MonitorsLeft
    <3>3. QED BY <1>7, <2>1, <3>2
  <2>7. QED BY <2>3, <2>4, <2>5, <2>6
<1>10. QED BY <1>8, <1>9

LEMMA NextBatch ==
  ASSUME TypeOK, TimeInv, BatchInv, [Next]_vars
  PROVE  BatchInv'
<1> USE DEF queueVars, layerVars, statVars, procVars, monitorVars
<1>1. /\ clock \in Nat /\ micro \in Nat /\ Horizon \in Nat /\ MicrostepLimit \in Nat
      /\ queue \subseteq Event /\ current \subseteq Event
  BY BranchAssumption DEF TypeOK
<1>2. CASE Truncate \/ Complete
  BY <1>2 DEF Truncate, Complete, BatchInv
<1>3. CASE Begin
  BY <1>1, <1>3 DEF Begin, NewBatch, BatchInv
<1>4. CASE Layer
  BY <1>4 DEF Layer, BatchInv
<1>5. ASSUME NEW e \in ready,
             \/ Cancel(e) \/ Defer(e) \/ RunEvent(e) \/ Decide(e) \/ DecisionFails(e)
             \/ \E c \in Condition : Await(e, c)
             \/ \E p \in Process : Resume(e, p)
      PROVE  BatchInv'
  BY <1>5 DEF Cancel, Defer, RunEvent, Decide, DecisionFails, Await, Resume, MayRun,
     Effect, RunWith, BatchInv
<1>6. CASE EndMicrostep
  <2>1. PICK r \in Rearms(DueIn(queue)) : queue' = (queue \ DueIn(queue)) \cup r
    BY <1>6 DEF EndMicrostep
  <2>2. \A x \in queue' : x.at > clock
    BY <1>1, <2>1, DueRearms DEF TimeInv
  <2>3. /\ pc = "run" /\ micro < MicrostepLimit /\ micro' = micro + 1 /\ clock' = clock
        /\ pc' \in {"monitors", "layer"}
    BY <1>6 DEF EndMicrostep
  <2>4. QED BY <1>1, <2>2, <2>3 DEF BatchInv
<1>7. CASE Overflow
  <2>1. PICK r \in Rearms(DueIn(queue)) :
          queue' = (queue \ DueIn(queue)) \cup r \cup
                     {[e EXCEPT !.at = clock + 1] : e \in current \cup DueIn(queue)}
    BY <1>7 DEF Overflow
  <2>2. /\ \A x \in r : x.at > clock
        /\ \A e \in queue \ DueIn(queue) : e.at > clock
    BY <1>1, DueRearms DEF TimeInv
  <2>3. \A e \in current \cup DueIn(queue) : [e EXCEPT !.at = clock + 1].at > clock
    BY <1>1, PostponedType DEF DueIn
  <2>4. \A x \in queue' : x.at > clock
    BY <2>1, <2>2, <2>3
  <2>5. pc = "run" /\ pc' = "monitors" /\ micro' = micro + 1 /\ clock' = clock
    BY <1>7 DEF Overflow
  <2>6. QED BY <1>1, <2>4, <2>5 DEF BatchInv
<1>8. CASE Monitors
  <2>1. clock' = clock /\ pc = "monitors" BY <1>8 DEF Monitors
  <2>2. QED BY <1>1, <1>8, <2>1, MonitorsBatch DEF BatchInv
<1>9. CASE UNCHANGED vars
  BY <1>9 DEF vars, BatchInv
<1>10. QED
  BY <1>2, <1>3, <1>4, <1>5, <1>6, <1>7, <1>8, <1>9 DEF Next

-----------------------------------------------------------------------------
\* What is pending stays finite.

\* The image of a finite set under a function.
LEMMA ImageIsFinite ==
  ASSUME NEW S, IsFiniteSet(S), NEW f
  PROVE  IsFiniteSet({f[x] : x \in S})
<1> DEFINE g == [x \in S |-> f[x]]
           T == {f[x] : x \in S}
<1>1. g \in Surjection(S, T)
  BY DEF Surjection
<1>2. QED BY <1>1, FS_Surjection

LEMMA RearmsFinite ==
  ASSUME NEW S, IsFiniteSet(S), NEW r \in Rearms(S)
  PROVE  IsFiniteSet(r)
<1> DEFINE A == {e \in S : e.id.lab \in Hazard}
<1>1. PICK next \in [A -> 1..Horizon + 1] :
        r = {NewEvent(e.id.lab, next[e], 0, {}) : e \in {x \in A : next[x] <= Horizon}}
  BY DEF Rearms
<1> DEFINE B == {x \in A : next[x] <= Horizon}
           f == [e \in B |-> NewEvent(e.id.lab, next[e], 0, {})]
<1>2. IsFiniteSet(B)
  BY FS_Subset
<1>3. r = {f[e] : e \in B}
  BY <1>1
<1> HIDE DEF B, f
<1>4. QED BY <1>2, <1>3, ImageIsFinite

LEMMA EffectFinite ==
  ASSUME FiniteInv, NEW e \in ready, e.id.lab \in Label, NEW w,
         NEW fu \in SUBSET FollowUps[e.id.lab], Effect(e, w, fu)
  PROVE  FiniteInv'
<1> DEFINE f == [x \in fu |-> NewEvent(x[1], clock + x[2], 0, {e.id})]
           Q == {f[x] : x \in fu}
<1>1. queue' = queue \cup Q /\ current' = current /\ ready' = ready \ {e}
  BY DEF Effect, RunWith
<1>2. IsFiniteSet(fu)
  BY FiniteAssumption, FS_Subset
<1>3. IsFiniteSet(Q)
  <2> HIDE DEF f
  <2> QED BY <1>2, ImageIsFinite
<1> HIDE DEF Q
<1>4. IsFiniteSet(ready') /\ IsFiniteSet(queue')
  BY <1>1, <1>3, FS_RemoveElement, FS_Union DEF FiniteInv
<1>5. QED BY <1>1, <1>4 DEF FiniteInv

LEMMA MonitorEventsFinite ==
  ASSUME NEW moved \in SUBSET Touched, NEW next, armed \subseteq Condition
  PROVE  IsFiniteSet(MonitorEvents(moved, next))
<1> DEFINE f == [p \in moved |-> Projected(p, next[p], {})]
           g == [w \in Alerted |-> NewEvent(WatchEvent[w], clock, 0, {})]
           h == [c \in Met |-> NewEvent(Wakes[c], clock, 0, {batch[i] : i \in FiredBy(c)})]
           F == {f[p] : p \in moved}
           G == {g[w] : w \in Alerted}
           H == {h[c] : c \in Met}
<1>1. MonitorEvents(moved, next) = (UNION F) \cup G \cup H
  BY DEF MonitorEvents
<1>2. IsFiniteSet(moved) /\ IsFiniteSet(Alerted) /\ IsFiniteSet(Met)
  <2>1. moved \subseteq Process /\ Alerted \subseteq Watch /\ Met \subseteq Condition
    BY DEF Touched, Alerted, Met
  <2>2. QED BY <2>1, FiniteAssumption, FS_Subset
<1>3. \A T \in F : IsFiniteSet(T)
  <2>1. ASSUME NEW p \in moved PROVE IsFiniteSet(f[p])
    BY FS_EmptySet, FS_Singleton DEF Projected
  <2>2. QED BY <2>1
<1>4. IsFiniteSet(F) /\ IsFiniteSet(G) /\ IsFiniteSet(H)
  <2> HIDE DEF f, g, h
  <2> QED BY <1>2, ImageIsFinite
<1> HIDE DEF F, G, H
<1>5. IsFiniteSet(UNION F)
  BY <1>3, <1>4, FS_UNION
<1>6. QED BY <1>1, <1>4, <1>5, FS_Union

LEMMA InitFinite == Init => FiniteInv
BY FiniteAssumption, FS_EmptySet DEF Init, FiniteInv

LEMMA NextFinite ==
  ASSUME TypeOK, FiniteInv, [Next]_vars
  PROVE  FiniteInv'
<1> USE DEF queueVars, layerVars, statVars, procVars, monitorVars
<1>1. IsFiniteSet(queue) /\ IsFiniteSet(current) /\ IsFiniteSet(ready)
  BY DEF FiniteInv
<1>2. CASE Truncate \/ Complete \/ UNCHANGED vars
  BY <1>2 DEF Truncate, Complete, vars, FiniteInv
<1>3. CASE Begin
  <2>1. PICK S \in SUBSET queue : /\ current' = S /\ ready' = ready
                                  /\ \E r \in Rearms(S) : queue' = (queue \ S) \cup r
    <3>1. PICK e \in queue :
            LET popped == {f \in queue : f.at = e.at}
            IN  /\ NewBatch(popped)
                /\ \E r \in Rearms(popped) : queue' = (queue \ popped) \cup r
      BY <1>3 DEF Begin
    <3> DEFINE popped == {f \in queue : f.at = e.at}
    <3>2. popped \in SUBSET queue /\ current' = popped /\ ready' = ready
      BY <1>3, <3>1 DEF Begin, NewBatch
    <3>3. QED BY <3>1, <3>2
  <2>2. PICK r \in Rearms(S) : queue' = (queue \ S) \cup r
    BY <2>1
  <2>3. IsFiniteSet(S) /\ IsFiniteSet(r) /\ IsFiniteSet(queue \ S)
    BY <1>1, FS_Subset, FS_Difference, RearmsFinite
  <2>4. QED BY <1>1, <2>1, <2>2, <2>3, FS_Union DEF FiniteInv
<1>4. CASE Layer
  <2>1. ready' \subseteq current /\ current' \subseteq current /\ queue' = queue
    BY <1>4 DEF Layer
  <2>2. QED BY <1>1, <2>1, FS_Subset DEF FiniteInv
<1>5. ASSUME NEW e \in ready, Cancel(e) \/ Defer(e) PROVE FiniteInv'
  <2>1. queue' = queue /\ ready' = ready \ {e} /\ current' \in {current, current \cup {e}}
    BY <1>5 DEF Cancel, Defer
  <2>2. IsFiniteSet(ready \ {e}) /\ IsFiniteSet(current \cup {e})
    BY <1>1, FS_RemoveElement, FS_AddElement
  <2>3. QED BY <1>1, <2>1, <2>2 DEF FiniteInv
<1>6. ASSUME NEW e \in ready,
             \/ RunEvent(e) \/ Decide(e) \/ DecisionFails(e)
             \/ \E c \in Condition : Await(e, c)
      PROVE  FiniteInv'
  <2>1. PICK fu \in SUBSET FollowUps[e.id.lab] : \E w : Effect(e, w, fu)
    <3>1. CASE RunEvent(e) \/ Decide(e)
      <4>1. PICK o \in Outcomes(e) : Effect(e, o[1], o[2]) BY <3>1 DEF RunEvent, Decide
      <4>2. o[2] \in SUBSET FollowUps[e.id.lab] BY DEF Outcomes
      <4>3. QED BY <4>1, <4>2
    <3>2. CASE DecisionFails(e) \/ \E c \in Condition : Await(e, c)
      <4>1. Effect(e, {}, {}) BY <3>2 DEF DecisionFails, Await
      <4>2. {} \in SUBSET FollowUps[e.id.lab] OBVIOUS
      <4>3. QED BY <4>1, <4>2
    <3>3. QED BY <1>6, <3>1, <3>2
  <2>2. e.id.lab \in Label
    BY DEF TypeOK, Event, Id
  <2>3. PICK w : Effect(e, w, fu) BY <2>1
  <2>4. QED BY <2>2, <2>3, EffectFinite
<1>12. ASSUME NEW e \in ready, NEW p \in Process, Resume(e, p) PROVE FiniteInv'
  <2>1. PICK new \in SUBSET Event : RunWith(e, {}, new) /\ IsFiniteSet(new)
    BY <1>12, ResumeAdds
  <2>2. queue' = queue \cup new /\ current' = current /\ ready' = ready \ {e}
    BY <2>1 DEF RunWith
  <2>3. IsFiniteSet(queue \cup new) /\ IsFiniteSet(ready \ {e})
    BY <1>1, <2>1, FS_Union, FS_RemoveElement
  <2>4. QED BY <1>1, <2>2, <2>3 DEF FiniteInv
<1>7. IsFiniteSet(DueIn(queue))
  BY <1>1, FS_Subset DEF DueIn
<1>8. CASE EndMicrostep
  <2>1. PICK r \in Rearms(DueIn(queue)) : queue' = (queue \ DueIn(queue)) \cup r
    BY <1>8 DEF EndMicrostep
  <2>2. IsFiniteSet(r) /\ IsFiniteSet(queue \ DueIn(queue)) /\ IsFiniteSet(current \cup DueIn(queue))
    BY <1>1, <1>7, RearmsFinite, FS_Difference, FS_Union
  <2>3. current' = current \cup DueIn(queue) /\ ready' = ready
    BY <1>8 DEF EndMicrostep
  <2>4. QED BY <1>1, <2>1, <2>2, <2>3, FS_Union DEF FiniteInv
<1>9. CASE Overflow
  <2> DEFINE f == [e \in current \cup DueIn(queue) |-> [e EXCEPT !.at = clock + 1]]
             M == {f[e] : e \in current \cup DueIn(queue)}
  <2>1. PICK r \in Rearms(DueIn(queue)) : queue' = (queue \ DueIn(queue)) \cup r \cup M
    BY <1>9 DEF Overflow
  <2>2. IsFiniteSet(r) /\ IsFiniteSet(queue \ DueIn(queue)) /\ IsFiniteSet(current \cup DueIn(queue))
    BY <1>1, <1>7, RearmsFinite, FS_Difference, FS_Union
  <2>3. IsFiniteSet(M)
    <3> HIDE DEF f
    <3> QED BY <2>2, ImageIsFinite
  <2> HIDE DEF M
  <2>4. IsFiniteSet(queue')
    BY <2>1, <2>2, <2>3, FS_Union
  <2>5. current' = {} /\ ready' = ready
    BY <1>9 DEF Overflow
  <2>6. QED BY <1>1, <2>4, <2>5, FS_EmptySet DEF FiniteInv
<1>10. CASE Monitors
  <2>1. PICK moved \in SUBSET Touched :
          \E next \in [moved -> clock..Horizon + 1] :
            LET all == queue \cup MonitorEvents(moved, next)
            IN  \/ /\ current' = DueIn(all)
                   /\ \E r \in Rearms(DueIn(all)) : queue' = (all \ DueIn(all)) \cup r
                \/ queue' = all /\ current' = current
    BY <1>10 DEF Monitors, NewBatch
  <2>2. PICK next \in [moved -> clock..Horizon + 1] :
            LET all == queue \cup MonitorEvents(moved, next)
            IN  \/ /\ current' = DueIn(all)
                   /\ \E r \in Rearms(DueIn(all)) : queue' = (all \ DueIn(all)) \cup r
                \/ queue' = all /\ current' = current
    BY <2>1
  <2> DEFINE all == queue \cup MonitorEvents(moved, next)
  <2>3. IsFiniteSet(all) /\ ready' = ready
    <3>1. IsFiniteSet(MonitorEvents(moved, next)) BY MonitorEventsFinite DEF TypeOK
    <3>2. QED BY <1>1, <1>10, <3>1, FS_Union DEF Monitors
  <2>4. IsFiniteSet(DueIn(all)) /\ IsFiniteSet(all \ DueIn(all))
    <3>1. DueIn(all) \in SUBSET all BY DEF DueIn
    <3> HIDE DEF all
    <3>2. QED BY <2>3, <3>1, FS_Subset, FS_Difference
  <2>5. ASSUME NEW r \in Rearms(DueIn(all)), queue' = (all \ DueIn(all)) \cup r
        PROVE  IsFiniteSet(queue')
    <3> HIDE DEF all
    <3>1. IsFiniteSet(r) BY <2>4, RearmsFinite
    <3>2. QED BY <2>4, <2>5, <3>1, FS_Union
  <2>6. QED BY <1>1, <2>2, <2>3, <2>4, <2>5 DEF FiniteInv
<1>11. QED
  BY <1>2, <1>3, <1>4, <1>5, <1>6, <1>8, <1>9, <1>10, <1>12 DEF Next

-----------------------------------------------------------------------------
\* A run of an event of ready.
LEMMA RunSteps ==
  ASSUME TypeOK, NEW e \in ready,
         \/ Cancel(e) \/ Defer(e) \/ RunEvent(e) \/ Decide(e) \/ DecisionFails(e)
         \/ \E c \in Condition : Await(e, c)
  PROVE  StepsLess
<1> USE DEF queueVars, layerVars, statVars, procVars, monitorVars
<1>1. /\ pc = "run" /\ pc' = pc /\ clock' = clock /\ micro' = micro
      /\ ready' = ready \ {e} /\ fires' = fires /\ gen' = gen
  BY DEF Cancel, Defer, RunEvent, Decide, DecisionFails, Await, MayRun, Effect, RunWith
<1>2. /\ TimesLeft' = TimesLeft /\ PhasesLeft' = PhasesLeft
      /\ FiresLeft' = FiresLeft /\ ProjectionsLeft' = ProjectionsLeft
  BY <1>1 DEF TimesLeft, PhasesLeft, FiresLeft, ProjectionsLeft
<1>3. ready' \subseteq ready /\ ready' # ready
  BY <1>1
<1>4. CASE invoked' = invoked
  <2>1. armed' = armed
    <3>1. ASSUME NEW c \in Condition, Await(e, c) PROVE FALSE
      <4>1. invoked[e.id.lab] \in Nat /\ e.id.lab \in Actor
            /\ invoked' = [invoked EXCEPT ![e.id.lab] = @ + 1] /\ invoked \in [Actor -> 0..MaxInvocations]
        BY <3>1 DEF Await, MayRun, TypeOK
      <4>2. invoked'[e.id.lab] = invoked[e.id.lab] + 1 BY <4>1
      <4>3. QED BY <1>4, <4>1, <4>2
    <3>2. QED BY <3>1 DEF Cancel, Defer, RunEvent, Decide, DecisionFails
  <2>2. InvocationsLeft' = InvocationsLeft /\ MonitorsLeft' = MonitorsLeft
    BY <1>2, <1>4, <2>1 DEF InvocationsLeft, MonitorsLeft
  <2>3. QED BY <1>2, <1>3, <2>2 DEF StepsLess, Shrinks
<1>5. CASE invoked' # invoked
  <2> DEFINE a == e.id.lab
             x == <<a, invoked[a] + 1>>
  <2>1. /\ invoked \in [Actor -> 0..MaxInvocations] /\ MaxInvocations \in Nat
    BY BranchAssumption DEF TypeOK
  <2>2. /\ a \in Actor /\ invoked[a] < MaxInvocations
        /\ invoked' = [invoked EXCEPT ![a] = @ + 1]
    <3>1. CASE Decide(e) \/ \E c \in Condition : Await(e, c)
      BY <3>1 DEF Decide, Await
    <3>2. CASE DecisionFails(e)
      <4>1. a \in Actor /\ invoked' = [invoked EXCEPT ![a] = IF @ < MaxInvocations THEN @ + 1 ELSE @]
        BY <3>2 DEF DecisionFails
      <4>2. invoked[a] < MaxInvocations
        BY <1>5, <2>1, <4>1
      <4>3. QED BY <4>1, <4>2
    <3>3. CASE Cancel(e) \/ Defer(e) \/ RunEvent(e)
      BY <1>5, <3>3 DEF Cancel, Defer, RunEvent
    <3>4. QED BY <3>1, <3>2, <3>3
  <2>3. x \in InvocationsLeft /\ x \notin InvocationsLeft'
    BY <2>1, <2>2 DEF InvocationsLeft
  <2>4. InvocationsLeft' \subseteq InvocationsLeft
    BY <2>1, <2>2 DEF InvocationsLeft
  <2>5. QED BY <1>2, <2>3, <2>4 DEF StepsLess, Shrinks
<1>6. QED BY <1>4, <1>5

\* A resume takes one of the generations that are left.
LEMMA ResumeSteps ==
  ASSUME TypeOK, NEW e \in ready, NEW p \in Process, Resume(e, p)
  PROVE  StepsLess
<1> USE DEF queueVars, layerVars, statVars, procVars, monitorVars
<1>1. /\ pc' = pc /\ clock' = clock /\ micro' = micro /\ fires' = fires
      /\ armed' = armed /\ invoked' = invoked
      /\ gen[p] < MaxGeneration /\ gen' = [gen EXCEPT ![p] = NextGen(p)]
  BY DEF Resume, RunWith
<1>2. /\ TimesLeft' = TimesLeft /\ InvocationsLeft' = InvocationsLeft
      /\ FiresLeft' = FiresLeft
  BY <1>1 DEF TimesLeft, InvocationsLeft, FiresLeft
<1>3. gen \in [Process -> Nat] /\ MaxGeneration \in Nat
  BY BranchAssumption DEF TypeOK
<1>4. /\ gen'[p] = gen[p] + 1
      /\ \A q \in Process : gen'[q] \in Nat /\ gen'[q] >= gen[q]
  BY <1>1, <1>3 DEF NextGen
<1>5. ASSUME NEW x \in ProjectionsLeft' PROVE x \in ProjectionsLeft
  <2>1. /\ x \in Process \X (1..MaxGeneration) /\ x[1] \in Process /\ x[2] \in Nat
        /\ gen'[x[1]] < x[2]
    BY <1>3 DEF ProjectionsLeft
  <2>2. gen[x[1]] < x[2]
    BY <1>3, <1>4, <2>1
  <2>3. QED BY <2>1, <2>2 DEF ProjectionsLeft
<1> DEFINE x == <<p, gen[p] + 1>>
<1>6. x \in ProjectionsLeft /\ x \notin ProjectionsLeft'
  BY <1>1, <1>3, <1>4 DEF ProjectionsLeft
<1>7. <<"projection", x>> \in MonitorsLeft /\ <<"projection", x>> \notin MonitorsLeft'
  BY <1>6 DEF MonitorsLeft
<1>8. MonitorsLeft' \subseteq MonitorsLeft
  BY <1>1, <1>2, <1>5 DEF MonitorsLeft
<1>9. QED BY <1>2, <1>7, <1>8 DEF StepsLess, Shrinks

\* The batch engine's own steps and the loop's.
LEMMA LoopSteps ==
  ASSUME TypeOK, TimeInv, BatchInv,
         Truncate \/ Complete \/ Begin \/ Layer \/ EndMicrostep \/ Overflow \/ Monitors
  PROVE  StepsLess
<1> USE DEF queueVars, layerVars, statVars, procVars, monitorVars
<1>1. /\ clock \in Nat /\ micro \in Nat /\ Horizon \in Nat /\ MicrostepLimit \in Nat
      /\ clock <= Horizon /\ micro <= MicrostepLimit + 1
  BY BranchAssumption DEF TypeOK, BatchInv
<1>2. invoked' = invoked
  BY DEF Truncate, Complete, Begin, Layer, EndMicrostep, Overflow, Monitors
<1>3. InvocationsLeft' = InvocationsLeft
  BY <1>2 DEF InvocationsLeft
<1>4. CASE Begin
  <2>1. /\ pc = "loop" /\ pc' = "layer" /\ clock' \in Nat
        /\ \E e \in queue : clock' = e.at
    BY <1>4 DEF Begin, NewBatch, TypeOK, Event
  <2>2. TimesLeft' = Horizon + 1 - clock'
    BY <2>1 DEF TimesLeft
  <2>3. CASE micro = 0
    BY <1>1, <2>1, <2>2, <2>3 DEF TimesLeft, StepsLess
  <2>4. CASE micro # 0
    <3>1. clock' > clock BY <1>1, <2>1, <2>4 DEF BatchInv
    <3>2. TimesLeft = Horizon + 1 - clock BY <2>4 DEF TimesLeft
    <3>3. QED BY <1>1, <2>1, <2>2, <3>1, <3>2 DEF StepsLess, Shrinks
  <2>5. QED BY <2>3, <2>4
<1>5. CASE Truncate \/ Complete \/ Layer \/ EndMicrostep \/ Overflow
  <2>1. /\ clock' = clock /\ fires' = fires /\ gen' = gen /\ armed' = armed
        /\ \/ pc = "loop" /\ pc' = "done" /\ micro' = micro
           \/ pc = "layer" /\ pc' = "run" /\ micro' = micro
           \/ pc = "run" /\ pc' \in {"layer", "monitors"} /\ micro' = micro + 1
    BY <1>5 DEF Truncate, Complete, Layer, EndMicrostep, Overflow
  <2>2. FiresLeft' = FiresLeft /\ ProjectionsLeft' = ProjectionsLeft
    BY <2>1 DEF FiresLeft, ProjectionsLeft
  <2>3. MonitorsLeft' = MonitorsLeft
    BY <2>1, <2>2 DEF MonitorsLeft
  <2>4. PhasesLeft' < PhasesLeft
    BY <1>1, <2>1 DEF PhasesLeft
  <2>5. TimesLeft' < TimesLeft \/ TimesLeft' = TimesLeft
    BY <1>1, <2>1 DEF TimesLeft
  <2>6. QED BY <1>3, <2>3, <2>4, <2>5 DEF StepsLess, Shrinks
<1>6. CASE Monitors
  <2>1. pc = "monitors" /\ clock' = clock /\ micro > 0
    BY <1>6 DEF Monitors, BatchInv
  <2>2. CASE /\ pc' = "layer" /\ micro' = 0
             /\ MonitorsLeft' \subseteq MonitorsLeft /\ MonitorsLeft' # MonitorsLeft
    <3>1. TimesLeft' = TimesLeft BY <2>1, <2>2 DEF TimesLeft
    <3>2. QED BY <1>3, <2>2, <3>1 DEF StepsLess, Shrinks
  <2>3. CASE /\ pc' \in {"loop", "done"} /\ micro' = micro
             /\ MonitorsLeft' \subseteq MonitorsLeft
    <3>1. TimesLeft' = TimesLeft BY <1>1, <2>1, <2>3 DEF TimesLeft
    <3>2. PhasesLeft' < PhasesLeft BY <1>1, <2>1, <2>3 DEF PhasesLeft
    <3>3. QED BY <1>3, <2>3, <3>1, <3>2 DEF StepsLess, Shrinks
  <2>4. QED BY <1>6, <2>2, <2>3, MonitorsBatch
<1>7. QED BY <1>4, <1>5, <1>6

LEMMA BatchHolds == Spec => [](TypeOK /\ TimeInv /\ BatchInv /\ FiniteInv)
<1>1. Init => TypeOK /\ TimeInv /\ BatchInv /\ FiniteInv
  BY InitType, InitTime, InitBatch, InitFinite
<1>2. (TypeOK /\ TimeInv /\ BatchInv /\ FiniteInv) /\ [Next]_vars
        => (TypeOK /\ TimeInv /\ BatchInv /\ FiniteInv)'
  BY NextType, NextTime, NextBatch, NextFinite
<1>3. QED BY <1>1, <1>2, PTL DEF Spec

\* The measures are finite.
MeasuresAreFinite ==
  /\ TimesLeft \in Nat /\ PhasesLeft \in Nat
  /\ IsFiniteSet(InvocationsLeft) /\ IsFiniteSet(MonitorsLeft) /\ IsFiniteSet(ready)

LEMMA MeasuresFinite ==
  ASSUME TypeOK, BatchInv, FiniteInv
  PROVE  MeasuresAreFinite
<1>1. /\ clock \in Nat /\ micro \in Nat /\ clock <= Horizon /\ micro <= MicrostepLimit + 1
      /\ {Horizon, MicrostepLimit, MaxInvocations, MaxFires, MaxGeneration} \subseteq Nat
      /\ pc \in {"loop", "layer", "run", "monitors", "done"}
  BY BranchAssumption DEF TypeOK, BatchInv
<1>2. TimesLeft \in Nat /\ PhasesLeft \in Nat
  BY <1>1 DEF TimesLeft, PhasesLeft
<1>3. \A k \in Nat : IsFiniteSet(1..k)
  BY FS_Interval
<1>4. /\ IsFiniteSet(Actor \X (1..MaxInvocations))
      /\ IsFiniteSet(Watch \X (1..MaxFires))
      /\ IsFiniteSet(Process \X (1..MaxGeneration))
      /\ IsFiniteSet(armed)
  <2>1. armed \in SUBSET Condition BY DEF TypeOK
  <2>2. /\ IsFiniteSet(1..MaxInvocations) /\ IsFiniteSet(1..MaxFires)
        /\ IsFiniteSet(1..MaxGeneration)
    BY <1>1, <1>3
  <2>3. QED BY <2>1, <2>2, FiniteAssumption, FS_Product, FS_Subset
<1>5. IsFiniteSet(InvocationsLeft) /\ IsFiniteSet(FiresLeft) /\ IsFiniteSet(ProjectionsLeft)
  BY <1>4, FS_Subset DEF InvocationsLeft, FiresLeft, ProjectionsLeft
<1>6. /\ IsFiniteSet({"fire"} \X FiresLeft)
      /\ IsFiniteSet({"projection"} \X ProjectionsLeft)
      /\ IsFiniteSet({"condition"} \X armed)
  <2>1. IsFiniteSet({"fire"}) /\ IsFiniteSet({"projection"}) /\ IsFiniteSet({"condition"})
    BY FS_Singleton
  <2>2. QED BY <1>4, <1>5, <2>1, FS_Product
<1>7. IsFiniteSet(MonitorsLeft)
  BY <1>6, FS_Union DEF MonitorsLeft
<1>8. QED BY <1>2, <1>5, <1>7 DEF MeasuresAreFinite, FiniteInv

\* The branch runs out of steps, however its events cause each other at one
\* time: every step lowers the first of five measures that it changes, times
\* of the clock, invocations left, monitors left, phases of the batch, events
\* of the layer (temporal_runtime.py: run_branch_temporal, process_timestamp).
\* All are finite.
THEOREM BranchRunsOut == Spec => []MeasuresAreFinite /\ [][StepsLess]_vars
<1>1. TypeOK /\ BatchInv /\ FiniteInv => MeasuresAreFinite
  BY MeasuresFinite
<1>2. TypeOK /\ TimeInv /\ BatchInv /\ [Next]_vars => [StepsLess]_vars
  <2>1. ASSUME TypeOK, TimeInv, BatchInv, Next PROVE StepsLess
    BY <2>1, RunSteps, ResumeSteps, LoopSteps DEF Next
  <2>2. QED BY <2>1
<1>3. QED BY <1>1, <1>2, BatchHolds, PTL DEF Spec

-----------------------------------------------------------------------------
\* Nothing that the next step needs is missing.
CanStep ==
  \/ pc = "loop" /\ (n >= SafetyMax \/ \A e \in queue : e.at > Horizon)
  \/ /\ pc = "loop"
     /\ \E e \in queue : /\ e.at <= Horizon
                         /\ \A f \in queue : e.at <= f.at
                         /\ Rearms({f \in queue : f.at = e.at}) # {}
  \/ pc = "layer"
  \/ pc = "run" /\ (ready # {} \/ Rearms(DueIn(queue)) # {})
  \/ /\ pc = "monitors"
     /\ \E moved \in SUBSET Touched : \E next \in [moved -> clock..Horizon + 1] :
          Rearms(DueIn(queue \cup MonitorEvents(moved, next))) # {}

\* A hazard whose arrival is popped by the horizon can be re-armed.
LEMMA RearmsExist ==
  ASSUME NEW S \in SUBSET Event, \A e \in S : e.at <= Horizon
  PROVE  Rearms(S) # {}
<1> DEFINE A == {e \in S : e.id.lab \in Hazard}
           next == [e \in A |-> Horizon + 1]
           r == {NewEvent(e.id.lab, next[e], 0, {}) : e \in {x \in A : next[x] <= Horizon}}
<1>1. Horizon \in Nat /\ \A e \in A : e.at \in Nat /\ e.at < Horizon + 1
  BY BranchAssumption DEF Event
<1>2. next \in {f \in [A -> 1..Horizon + 1] : \A e \in A : f[e] > e.at}
  BY <1>1
<1>3. r \in Rearms(S)
  BY <1>2 DEF Rearms
<1>4. QED BY <1>3

\* The heap has an earliest event.
LEMMA Earliest ==
  ASSUME TypeOK, queue # {}
  PROVE  \E e \in queue : \A f \in queue : e.at <= f.at
<1> DEFINE S == {e.at : e \in queue}
<1>1. S \subseteq Nat /\ S # {}
  BY DEF TypeOK, Event
<1>2. PICK x \in S : \A y \in S : <<y, x>> \notin OpToRel(<, Nat)
  <2> HIDE DEF S
  <2> QED BY <1>1, WFMin, NatLessThanWellFounded
<1>3. \A y \in S : y \in Nat /\ x \in Nat /\ ~(y < x)
  BY <1>1, <1>2 DEF OpToRel
<1>4. \A y \in S : x <= y
  BY <1>3
<1>5. QED BY <1>4

\* The branch is never stuck: until it has ended its next step lacks nothing.
THEOREM BranchCanStep == Spec => [](status = "running" => CanStep)
<1>1. ASSUME TypeOK, TimeInv, BatchInv, status = "running" PROVE CanStep
  <2>1. /\ queue \subseteq Event /\ clock \in Nat /\ clock <= Horizon
        /\ Horizon \in Nat /\ \A e \in queue : e.at \in Nat
        /\ pc \in {"loop", "layer", "run", "monitors"}
    BY <1>1, BranchAssumption DEF TypeOK, TimeInv, BatchInv, Event
  <2>2. CASE pc = "loop"
    <3>1. CASE \A e \in queue : e.at > Horizon
      BY <2>2, <3>1 DEF CanStep
    <3>2. CASE \E e \in queue : ~(e.at > Horizon)
      <4>1. PICK e \in queue : \A f \in queue : e.at <= f.at
        BY <1>1, <3>2, Earliest
      <4>2. e.at <= Horizon
        BY <2>1, <3>2, <4>1
      <4>3. Rearms({f \in queue : f.at = e.at}) # {}
        BY <2>1, <4>2, RearmsExist
      <4>4. QED BY <2>2, <4>1, <4>2, <4>3 DEF CanStep
    <3>3. QED BY <3>1, <3>2
  <2>3. \A q \in SUBSET Event : Rearms(DueIn(q)) # {}
    <3>1. SUFFICES ASSUME NEW q \in SUBSET Event PROVE Rearms(DueIn(q)) # {}
      OBVIOUS
    <3>2. DueIn(q) \in SUBSET Event /\ \A e \in DueIn(q) : e.at <= Horizon
      BY <2>1 DEF DueIn, Event
    <3>3. QED BY <3>2, RearmsExist
  <2>4. CASE pc = "monitors"
    <3> DEFINE next == [p \in {} |-> clock]
    <3>1. {} \in SUBSET Touched /\ next \in [{} -> clock..Horizon + 1]
      OBVIOUS
    <3>2. queue \cup MonitorEvents({}, next) \in SUBSET Event
      BY <1>1, <2>1, <3>1, MonitorEventsType
    <3>3. Rearms(DueIn(queue \cup MonitorEvents({}, next))) # {}
      BY <2>3, <3>2
    <3> HIDE DEF next
    <3>4. QED BY <2>4, <3>1, <3>3 DEF CanStep
  <2>5. CASE pc \in {"layer", "run"}
    BY <2>1, <2>3, <2>5 DEF CanStep
  <2>6. QED BY <2>1, <2>2, <2>4, <2>5
<1>2. QED BY <1>1, BatchHolds, PTL
=============================================================================
