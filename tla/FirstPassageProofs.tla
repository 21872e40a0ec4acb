------------------------- MODULE FirstPassageProofs -------------------------
(***************************************************************************)
(* Theorems about FirstPassage, for every set of processes, facts, votes   *)
(* and mechanisms, every window, and every plan that names a mode once.    *)
(***************************************************************************)
EXTENDS FirstPassage, TLAPS

-----------------------------------------------------------------------------
\* The type invariant.

LEMMA CheckType ==
  ASSUME NEW s \in Writer, NEW t \in Nat \ {0}, NEW c \in CheckOf(s, t)
  PROVE  /\ c \in Event /\ c.check /\ c.src = s
         /\ c.at = t + Window[s]
<1>1. s \in Source /\ t + Window[s] \in Nat \ {0}
  BY PassageAssumption DEF Source
<1>2. c = [src |-> s, at |-> t + Window[s], gen |-> 0, check |-> TRUE]
  BY DEF CheckOf
<1> QED
  BY <1>1, <1>2 DEF Event

LEMMA CrossingType ==
  ASSUME NEW p \in Process, NEW g \in Nat, NEW t \in Nat \ {0},
         NEW c \in CrossingAt(p, g, t)
  PROVE  c \in Event /\ ~c.check /\ c.src = p /\ c.at = t
<1>1. p \in Source
  BY DEF Source, Writer
<1>2. c = [src |-> p, at |-> t, gen |-> g, check |-> FALSE]
  BY DEF CrossingAt
<1> QED
  BY <1>1, <1>2 DEF Event

\* What the queue is after a step: nothing new but a check of the event's
\* source, or a process's crossing not before now.
LEMMA ReachQueue ==
  ASSUME TypeOK, NEW e \in queue, e.src \in Writer, Reach(e)
  PROVE  /\ queue' \subseteq Event
         /\ \A f \in queue' : f \in queue \ {e} \/ f \in CheckOf(e.src, e.at)
<1>1. e.at \in Nat \ {0}
  BY DEF TypeOK, Event
<1>2. \A f \in queue' : f \in queue \ {e} \/ f \in CheckOf(e.src, e.at)
  BY DEF Reach, Pop
<1> QED
  BY <1>1, <1>2, CheckType DEF TypeOK

LEMMA MonitorType ==
  ASSUME TypeOK, NEW e \in queue, Monitor(e), flagAt' \in Nat,
         mode' \in IF flagAt' = 0 THEN {NoMode} ELSE Mode
  PROVE  /\ stampAt' \in Nat
         /\ stampBy' \in IF stampAt' = 0 THEN {NoMode} ELSE Mode
         /\ \/ UNCHANGED <<stampAt, stampBy>>
            \/ stampAt' = e.at
<1>1. e.at \in Nat \ {0}
  BY DEF TypeOK, Event
<1> DEFINE at == IF SeesWrite(e) THEN flagAt' ELSE flagAt
           by == IF SeesWrite(e) THEN mode' ELSE mode
<1>2. at # 0 => by \in Mode
  BY DEF TypeOK
<1>3. CASE at # 0 /\ stampAt = 0
  <2>1. stampAt' = e.at /\ stampBy' = by
    BY <1>3 DEF Monitor
  <2> QED
    BY <1>1, <1>2, <1>3, <2>1
<1>4. CASE ~(at # 0 /\ stampAt = 0)
  BY <1>4 DEF Monitor, TypeOK
<1> QED
  BY <1>3, <1>4

LEMMA InitType == Init => TypeOK
BY PlanAssumption DEF Init, TypeOK

LEMMA HandleType ==
  ASSUME TypeOK, NEW e \in queue, Handle(e)
  PROVE  TypeOK'
<1>0. e \in Event /\ e.at \in Nat \ {0} /\ e.gen \in Nat /\ NoMode \notin Mode
  BY PassageAssumption DEF TypeOK, Event
<1>1. ASSUME Pass(e)
      PROVE  /\ queue' \subseteq Event /\ clock' \in Nat
             /\ UNCHANGED <<provVars, flagVars, procVars>>
  BY <1>0, <1>1 DEF Pass, Pop, TypeOK
<1>2. ASSUME e.src \in Writer, Reach(e)
      PROVE  /\ queue' \subseteq Event /\ clock' \in Nat
             /\ prov' \in Mode \cup {NoMode} /\ provAt' \in Nat
             /\ flagAt' \in Nat
             /\ mode' \in IF flagAt' = 0 THEN {NoMode} ELSE Mode
  <2>1. ModeOf[e.src] \in Mode
    BY <1>2, PassageAssumption
  <2> QED
    BY <1>0, <1>2, <2>1, ReachQueue
       DEF Reach, Pop, TypeOK, provVars, flagVars
<1> USE DEF provVars, flagVars, procVars
<1>3. CASE Cancel(e)
  BY <1>0, <1>3 DEF Cancel, Pop, TypeOK
<1>4. CASE Cross(e)
  <2>1. CASE Open
    BY <1>2, <1>4, <2>1, MonitorType DEF Cross, TypeOK, Writer
  <2>2. CASE ~Open
    BY <1>1, <1>4, <2>2, MonitorType DEF Cross, TypeOK
  <2> QED
    BY <2>1, <2>2
<1>5. CASE Round(e)
  <2>1. CASE Open /\ Reach(e) /\ UNCHANGED procVars
    BY <1>2, <1>5, <2>1, MonitorType DEF Round, TypeOK, Writer
  <2>2. CASE Pass(e)
    BY <1>1, <1>5, <2>2, MonitorType DEF Round, TypeOK
  <2> QED
    BY <1>5, <2>1, <2>2 DEF Round
<1>6. CASE Decide(e)
  <2>1. CASE Pass(e)
    BY <1>1, <1>6, <2>1, MonitorType DEF Decide, TypeOK
  <2>2. CASE ~Pass(e)
    <3>1. ModeOf[e.src] \in Mode
      BY <1>6, PassageAssumption DEF Decide
    <3> QED
      BY <1>0, <1>6, <2>2, <3>1, MonitorType DEF Decide, Pop, TypeOK
  <2> QED
    BY <2>1, <2>2
<1>7. CASE Break(e)
  BY <1>0, <1>7, MonitorType DEF Break, Pop, TypeOK
<1>8. CASE Happen(e) \/ Skip(e)
  BY <1>1, <1>8, MonitorType DEF Happen, Skip, TypeOK
<1>9. CASE Confirm(e)
  <2>1. prov \in Mode
    BY <1>0, <1>9, PassageAssumption DEF Confirm, Holds, Event
  <2> QED
    BY <1>0, <1>9, <2>1, MonitorType DEF Confirm, Confirmed, Pop, TypeOK
<1>10. CASE Collapse(e)
  <2>1. UNCHANGED <<prov, provAt, flagAt, mode>> /\ Monitor(e)
    BY <1>10 DEF Collapse
  <2>2. CASE e.src \in Process
    <3>1. PICK t \in e.at..Horizon + 1 :
            Pop(e, CrossingAt(e.src, gen[e.src] + 1, t))
      BY <1>10, <2>2 DEF Collapse
    <3>2. t \in Nat \ {0} /\ gen[e.src] + 1 \in Nat
      BY <1>0, <2>2, PassageAssumption DEF TypeOK
    <3>3. queue' \subseteq Event /\ clock' \in Nat
      BY <1>0, <2>2, <3>1, <3>2, CrossingType DEF Pop, TypeOK
    <3>4. fired' \in [Process -> BOOLEAN] /\ gen' \in [Process -> Nat]
      BY <1>10, <2>2, <3>2 DEF Collapse, Rearm, TypeOK
    <3> QED
      BY <2>1, <3>3, <3>4, MonitorType DEF TypeOK
  <2>3. CASE e.src \notin Process
    BY <1>0, <1>10, <2>1, <2>3, MonitorType DEF Collapse, Pop, TypeOK
  <2> QED
    BY <2>2, <2>3
<1> QED
  BY <1>3, <1>4, <1>5, <1>6, <1>7, <1>8, <1>9, <1>10 DEF Handle

LEMMA ReprojectType ==
  ASSUME TypeOK, NEW p \in Process, Reproject(p)
  PROVE  TypeOK'
<1>1. PICK t \in clock..Horizon + 1 :
        queue' = queue \cup CrossingAt(p, gen[p] + 1, t)
  BY DEF Reproject
<1>2. t \in Nat \ {0} /\ gen[p] + 1 \in Nat
  BY PassageAssumption DEF TypeOK, Reproject
<1>3. queue' \subseteq Event /\ gen' \in [Process -> Nat]
  BY <1>1, <1>2, CrossingType DEF TypeOK, Reproject
<1> QED
  BY <1>3 DEF Reproject, TypeOK, provVars, flagVars

\* Type correctness: the predicate and the stamp never carry a mode without a
\* time, nor a time without a mode.
THEOREM TypeCorrect == Spec => []TypeOK
<1>1. TypeOK /\ [Next]_vars => TypeOK'
  <2> SUFFICES ASSUME TypeOK, [Next]_vars PROVE TypeOK'
    OBVIOUS
  <2>1. CASE UNCHANGED vars
    BY <2>1 DEF vars, provVars, flagVars, procVars, TypeOK
  <2> QED
    BY <2>1, HandleType, ReprojectType DEF Next
<1> QED
  BY <1>1, InitType, PTL DEF Spec

-----------------------------------------------------------------------------
\* Provisional end-states and their checks.

\* A process or a fact has at most one check pending, a fact nothing else; a
\* process whose check is pending has fired; the check of the end-state that
\* holds falls where its window ends, when its writer alone claims its mode;
\* only an absorbed branch is stamped.
CheckInv ==
  /\ \A e, f \in queue :
       e.src = f.src /\ (e.src \in Fact \/ (e.check /\ f.check)) => e = f
  /\ \A e \in queue : e.check =>
       /\ e.src \in Process => fired[e.src]
       /\ Window[e.src] > 0
       /\ prov = ModeOf[e.src] /\ Sole(e.src) => e.at = provAt + Window[e.src]
  /\ stampAt # 0 => flagAt # 0

\* What handling an event is to the checks: it leaves them alone or consumes
\* one that is settled,
Settle(e) ==
  /\ queue' = queue \ {e}
  /\ UNCHANGED fired
  /\ UNCHANGED provVars \/ prov' = NoMode
  /\ e.check => \/ stampAt # 0 \/ flagAt' # 0
                \/ e.src \notin Process /\ prov # ModeOf[e.src]

\* or reaches an end-state,
Enter(e) ==
  /\ Open /\ Reach(e)
  /\ e.src \in Writer /\ ~e.check
  /\ IF e.src \in Process
     THEN ~fired[e.src] /\ fired' = [fired EXCEPT ![e.src] = TRUE]
     ELSE UNCHANGED fired

\* or makes a process live again.
Resume(e) ==
  /\ e.check /\ e.src \in Process
  /\ prov # ModeOf[e.src]
  /\ fired' = [fired EXCEPT ![e.src] = FALSE]
  /\ UNCHANGED provVars
  /\ \A f \in queue' : f \in queue \ {e} \/ (f.src = e.src /\ ~f.check)
  /\ queue \ {e} \subseteq queue'

LEMMA HandleKinds ==
  ASSUME TypeOK, NEW e \in queue, Handle(e)
  PROVE  /\ Settle(e) \/ Enter(e) \/ Resume(e)
         /\ Monitor(e) \/ UNCHANGED <<stampAt, stampBy>>
         /\ flagAt # 0 => flagAt' # 0
<1>0. e \in Event /\ e.at \in Nat \ {0} /\ (e.check => e.src \in Writer)
  BY DEF TypeOK, Event
<1> USE DEF provVars, flagVars, procVars
<1>1. ASSUME Pass(e), e.check => stampAt # 0
      PROVE  Settle(e) /\ flagAt' = flagAt
  BY <1>1 DEF Pass, Pop, Settle
<1>2. CASE Cancel(e)
  BY <1>2 DEF Cancel, Pop, Settle
<1>3. CASE Cross(e)
  <2>1. CASE Open
    BY <1>0, <1>3, <2>1 DEF Cross, IsCurrent, Enter, Open, Writer
  <2>2. CASE ~Open
    BY <1>1, <1>3, <2>2 DEF Cross
  <2> QED
    BY <2>1, <2>2
<1>4. CASE Round(e)
  <2>1. CASE Open /\ Reach(e) /\ UNCHANGED procVars
    <3>1. e.src \in Writer /\ e.src \notin Process
      BY <1>4, PassageAssumption DEF Round, Writer
    <3> QED
      BY <1>4, <2>1, <3>1 DEF Round, Enter, Open
  <2>2. CASE Pass(e)
    BY <1>1, <1>4, <2>2 DEF Round
  <2> QED
    BY <1>4, <2>1, <2>2 DEF Round
<1>5. ASSUME e.src \in Vote \cup Breaker \cup Other
      PROVE  ~e.check
  BY <1>0, <1>5, PassageAssumption DEF Writer
<1>6. CASE Decide(e)
  BY <1>0, <1>1, <1>5, <1>6 DEF Decide, Pop, Settle
<1>7. CASE Break(e)
  BY <1>5, <1>7 DEF Break, Pop, Settle
<1>8. CASE Happen(e) \/ Skip(e)
  BY <1>1, <1>5, <1>8 DEF Happen, Skip
<1>9. CASE Confirm(e)
  BY <1>0, <1>9 DEF Confirm, Pop, Settle
<1>10. CASE Collapse(e)
  <2>1. CASE e.src \in Process
    <3>1. PICK t \in e.at..Horizon + 1 :
            Pop(e, CrossingAt(e.src, gen[e.src] + 1, t))
      BY <1>10, <2>1 DEF Collapse
    <3>2. t \in Nat \ {0} /\ gen[e.src] + 1 \in Nat
      BY <1>0, <2>1, PassageAssumption DEF TypeOK
    <3>3. \A f \in CrossingAt(e.src, gen[e.src] + 1, t) :
            f.src = e.src /\ ~f.check
      BY <2>1, <3>2, CrossingType
    <3>4. /\ \A f \in queue' : f \in queue \ {e} \/ (f.src = e.src /\ ~f.check)
          /\ queue \ {e} \subseteq queue'
      BY <3>1, <3>3 DEF Pop
    <3>5. /\ e.check /\ prov # ModeOf[e.src] /\ Monitor(e)
          /\ fired' = [fired EXCEPT ![e.src] = FALSE]
          /\ UNCHANGED <<prov, provAt, flagAt, mode>>
      BY <1>10, <2>1 DEF Collapse, Holds, Rearm
    <3> QED
      BY <2>1, <3>4, <3>5 DEF Resume
  <2>2. CASE e.src \notin Process
    BY <1>10, <2>2 DEF Collapse, Holds, Pop, Settle
  <2> QED
    BY <1>10, <2>1, <2>2 DEF Collapse
<1> QED
  BY <1>2, <1>3, <1>4, <1>6, <1>7, <1>8, <1>9, <1>10 DEF Handle

LEMMA ReprojectKind ==
  ASSUME TypeOK, NEW p \in Process, Reproject(p)
  PROVE  /\ \A f \in queue' : f \in queue \/ (f.src = p /\ ~f.check)
         /\ queue \subseteq queue'
         /\ UNCHANGED <<clock, prov, provAt, flagAt, mode, stampAt, stampBy, fired>>
<1>1. PICK t \in clock..Horizon + 1 :
        queue' = queue \cup CrossingAt(p, gen[p] + 1, t)
  BY DEF Reproject
<1>2. t \in Nat \ {0} /\ gen[p] + 1 \in Nat
  BY PassageAssumption DEF TypeOK, Reproject
<1>3. \A f \in CrossingAt(p, gen[p] + 1, t) : f.src = p /\ ~f.check
  BY <1>2, CrossingType
<1>4. UNCHANGED <<clock, prov, provAt, flagAt, mode, stampAt, stampBy, fired>>
  BY DEF Reproject, provVars, flagVars
<1> QED
  BY <1>1, <1>3, <1>4

LEMMA CheckInit == Init => CheckInv /\ ClaimIsChecked
BY PlanAssumption DEF Init, CheckInv, ClaimIsChecked, Writer

LEMMA EnterChecks ==
  ASSUME TypeOK, CheckInv, NEW e \in queue, Enter(e)
  PROVE  /\ \A f \in queue \ {e} : f.check => f.src # e.src
         /\ e.src \in Fact => \A f \in queue \ {e} : f.src # e.src
<1>1. CASE e.src \in Process
  BY <1>1, PassageAssumption DEF CheckInv, Enter
<1>2. CASE e.src \in Fact
  BY <1>2 DEF CheckInv
<1> QED
  BY <1>1, <1>2 DEF Enter, Writer

LEMMA ModeOfSource ==
  ASSUME NEW s \in Writer
  PROVE  ModeOf[s] \in Mode /\ ModeOf[s] # NoMode
BY PassageAssumption

LEMMA HandleChecks ==
  ASSUME TypeOK, CheckInv, NEW e \in queue, Handle(e)
  PROVE  CheckInv'
<1>0. /\ e.at \in Nat \ {0}
      /\ \A f \in queue : f.check => f.src \in Writer
  BY DEF TypeOK, Event
<1> DEFINE One(q) == \A f, g \in q :
             f.src = g.src /\ (f.src \in Fact \/ (f.check /\ g.check)) => f = g
           Due(q) == \A f \in q : f.check =>
             /\ f.src \in Process => fired'[f.src]
             /\ Window[f.src] > 0
             /\ prov' = ModeOf[f.src] /\ Sole(f.src)
                  => f.at = provAt' + Window[f.src]
<1>1. stampAt' # 0 => flagAt' # 0
  BY HandleKinds DEF CheckInv, Monitor
<1>2. One(queue) /\ fired \in [Process -> BOOLEAN]
  BY DEF CheckInv, TypeOK
<1>3. CASE Settle(e)
  <2>1. One(queue')
    BY <1>2, <1>3 DEF Settle
  <2>2. Due(queue')
    BY <1>0, <1>3, ModeOfSource DEF Settle, CheckInv, provVars
  <2> QED
    BY <1>1, <2>1, <2>2 DEF CheckInv
<1>4. CASE Enter(e)
  <2>1. /\ \A f \in queue' : f \in queue \ {e} \/ f \in CheckOf(e.src, e.at)
        /\ e.src \in Writer
    BY <1>4, ReachQueue DEF Enter
  <2>2. \A f \in CheckOf(e.src, e.at) :
          f.src = e.src /\ f.check /\ f.at = e.at + Window[e.src]
    BY <1>0, <2>1, CheckType
  <2>3. \A f, g \in CheckOf(e.src, e.at) : f = g
    BY DEF CheckOf
  <2>4. One(queue')
    BY <1>2, <1>4, <2>1, <2>2, <2>3, EnterChecks
  <2>5. Due(queue \ {e})
    <3> SUFFICES ASSUME NEW f \in queue \ {e}, f.check
                 PROVE  /\ f.src \in Process => fired'[f.src]
                        /\ Window[f.src] > 0
                        /\ ~(prov' = ModeOf[f.src] /\ Sole(f.src))
      OBVIOUS
    <3>1. f.src # e.src /\ f.src \in Writer
      BY <1>0, <1>4, EnterChecks
    <3>2. f.src \in Process => fired'[f.src]
      BY <1>2, <1>4, <3>1 DEF CheckInv, Enter
    <3>3. ~(prov' = ModeOf[f.src] /\ Sole(f.src))
      <4>1. prov' = NoMode \/ (prov' = ModeOf[e.src] /\ Window[e.src] > 0)
        BY <1>4 DEF Enter, Reach, Open, provVars
      <4> QED
        BY <2>1, <3>1, <4>1, ModeOfSource DEF Sole
    <3>4. Window[f.src] > 0
      BY DEF CheckInv
    <3> QED
      BY <3>2, <3>3, <3>4
  <2>6. CASE Window[e.src] > 0
    <3>1. Due(CheckOf(e.src, e.at))
      BY <1>2, <1>4, <2>1, <2>2, <2>6, ModeOfSource
         DEF Enter, Reach, Open, provVars
    <3> QED
      BY <1>1, <2>1, <2>4, <2>5, <3>1 DEF CheckInv
  <2>7. CASE ~(Window[e.src] > 0)
    <3>1. queue' = queue \ {e}
      BY <1>4, <2>7 DEF Enter, Reach, Pop
    <3> QED
      BY <1>1, <2>4, <2>5, <3>1 DEF CheckInv
  <2> QED
    BY <2>6, <2>7
<1>5. CASE Resume(e)
  <2>1. \A f \in queue' : f.check \/ f.src \in Fact => f \in queue \ {e}
    BY <1>5, PassageAssumption DEF Resume
  <2>2. One(queue')
    BY <1>2, <2>1
  <2>3. \A f \in queue \ {e} : f.check => f.src # e.src
    BY <1>2, <1>5 DEF Resume
  <2>4. Due(queue')
    BY <1>2, <1>5, <2>1, <2>3 DEF Resume, CheckInv, provVars
  <2> QED
    BY <1>1, <2>2, <2>4 DEF CheckInv
<1> QED
  BY <1>3, <1>4, <1>5, HandleKinds

LEMMA HandleClaim ==
  ASSUME TypeOK, CheckInv, ClaimIsChecked, NEW e \in queue, Handle(e)
  PROVE  ClaimIsChecked'
<1> SUFFICES ASSUME flagAt' = 0
             PROVE  /\ prov' # NoMode =>
                         \E f \in queue' : f.check /\ ModeOf[f.src] = prov'
                    /\ \A p \in Process : fired'[p] =>
                         \E f \in queue' : f.check /\ f.src = p
  BY DEF ClaimIsChecked
<1>1. /\ flagAt = 0 /\ stampAt = 0 /\ e.at \in Nat \ {0}
      /\ fired \in [Process -> BOOLEAN]
  BY HandleKinds DEF CheckInv, TypeOK, Event
<1>2. CASE Settle(e)
  BY <1>1, <1>2 DEF Settle, ClaimIsChecked, provVars
<1>3. CASE Enter(e)
  <2> DEFINE c == [src |-> e.src, at |-> e.at + Window[e.src], gen |-> 0,
                   check |-> TRUE]
  <2>1. /\ queue' = (queue \ {e}) \cup {c}
        /\ prov' = ModeOf[e.src] /\ ~e.check
    BY <1>1, <1>3 DEF Enter, Reach, Pop, CheckOf
  <2>2. c \in queue' /\ c.check /\ c.src = e.src
    BY <2>1
  <2>3. ASSUME NEW p \in Process, fired'[p]
        PROVE  \E f \in queue' : f.check /\ f.src = p
    <3>1. CASE p = e.src
      BY <2>2, <3>1
    <3>2. CASE p # e.src
      <4>1. fired[p]
        BY <1>1, <1>3, <2>3, <3>2 DEF Enter
      <4>2. PICK f \in queue : f.check /\ f.src = p
        BY <1>1, <4>1 DEF ClaimIsChecked
      <4> QED
        BY <2>1, <4>2
    <3> QED
      BY <3>1, <3>2
  <2>4. \E f \in queue' : f.check /\ ModeOf[f.src] = prov'
    BY <2>1, <2>2
  <2> QED
    BY <2>3, <2>4
<1>4. CASE Resume(e)
  BY <1>1, <1>4 DEF Resume, ClaimIsChecked, provVars
<1> QED
  BY <1>2, <1>3, <1>4, HandleKinds

LEMMA ReprojectChecks ==
  ASSUME TypeOK, CheckInv, ClaimIsChecked, NEW p \in Process, Reproject(p)
  PROVE  CheckInv' /\ ClaimIsChecked'
<1>1. /\ queue \subseteq queue'
      /\ \A f \in queue' : f.check \/ f.src \in Fact => f \in queue
      /\ UNCHANGED <<prov, provAt, flagAt, stampAt, fired>>
  BY ReprojectKind, PassageAssumption
<1>2. CheckInv'
  BY <1>1 DEF CheckInv
<1>3. ClaimIsChecked'
  BY <1>1 DEF ClaimIsChecked
<1> QED
  BY <1>2, <1>3

LEMMA ClaimsHold == Spec => [](TypeOK /\ CheckInv /\ ClaimIsChecked)
<1> DEFINE Inv == TypeOK /\ CheckInv /\ ClaimIsChecked
<1>1. Init => Inv
  BY InitType, CheckInit
<1>2. Inv /\ [Next]_vars => Inv'
  <2> SUFFICES ASSUME Inv, [Next]_vars PROVE Inv'
    OBVIOUS
  <2>1. CASE UNCHANGED vars
    BY <2>1 DEF vars, provVars, flagVars, procVars, TypeOK, CheckInv,
                ClaimIsChecked
  <2>2. CASE Next
    BY <2>2, HandleType, HandleChecks, HandleClaim, ReprojectType,
       ReprojectChecks DEF Next
  <2> QED
    BY <2>1, <2>2
<1> QED
  BY <1>1, <1>2, PTL DEF Spec

\* While a branch is open, the check of the provisional end-state and of every
\* process that fired is pending.
THEOREM ClaimHolds == Spec => []ClaimIsChecked
BY ClaimsHold, PTL

LEMMA HeldStep ==
  ASSUME TypeOK, CheckInv, NEW e \in queue, Handle(e),
         flagAt = 0, flagAt' # 0, prov # NoMode, prov' = NoMode,
         NEW s \in Writer, ModeOf[s] = mode', Window[s] > 0, Sole(s)
  PROVE  clock' >= provAt + Window[s]
<1> USE DEF provVars, flagVars
<1>1. Confirm(e)
  <2>1. ~Cancel(e) /\ ~Skip(e) /\ ~Break(e) /\ ~Happen(e) /\ ~Collapse(e)
    BY DEF Cancel, Skip, Break, Happen, Collapse, Pass
  <2>2. ~Cross(e) /\ ~Round(e) /\ ~Decide(e)
    BY DEF Cross, Round, Decide, Open, Pass
  <2> QED
    BY <2>1, <2>2 DEF Handle
<1>2. e.check /\ prov = ModeOf[e.src] /\ mode' = prov /\ clock' = e.at
  BY <1>1 DEF Confirm, Holds, Confirmed, Pop
<1>3. e.src \in Writer /\ e.at \in Nat
  BY <1>2 DEF TypeOK, Event
<1>4. s = e.src
  BY <1>2, <1>3 DEF CheckInv, Sole
<1>5. e.at = provAt + Window[s]
  BY <1>2, <1>4 DEF CheckInv
<1> QED
  BY <1>2, <1>3, <1>5

\* An end-state that had to hold becomes the answer only at the end of its
\* window, having held all of it, unless another writer claims the same mode.
THEOREM HeldHolds == Spec => HeldWholeWindow
<1>1. TypeOK /\ CheckInv /\ [Next]_vars =>
        [(flagAt = 0 /\ flagAt' # 0 /\ prov # NoMode /\ prov' = NoMode)
         => \A s \in Writer : ModeOf[s] = mode' /\ Window[s] > 0 /\ Sole(s)
                              => clock' >= provAt + Window[s]]_vars
  <2> SUFFICES ASSUME TypeOK, CheckInv, Next,
                      flagAt = 0, flagAt' # 0, prov # NoMode, prov' = NoMode,
                      NEW s \in Writer, ModeOf[s] = mode', Window[s] > 0, Sole(s)
               PROVE  clock' >= provAt + Window[s]
    OBVIOUS
  <2>1. ~\E p \in Process : Reproject(p)
    BY ReprojectKind
  <2> QED
    BY <2>1, HeldStep DEF Next
<1> QED
  BY <1>1, ClaimsHold, PTL DEF Spec, HeldWholeWindow

-----------------------------------------------------------------------------
\* The answer, when every writer of the predicate comes before the monitor in
\* the operator list.

WritersFirst == Late \subseteq {"other"}

StampInv ==
  /\ flagAt = 0 <=> stampAt = 0
  /\ StampIsFirstPassage

\* Handling an event writes the predicate only on a branch without an answer,
\* at the event's time, and the monitor sees it.
LEMMA HandleFlag ==
  ASSUME TypeOK, StampInv, WritersFirst, NEW e \in queue, Handle(e)
  PROVE  /\ \/ UNCHANGED flagVars
            \/ flagAt = 0 /\ flagAt' = e.at
         /\ \/ UNCHANGED <<flagVars, stampAt, stampBy>>
            \/ Monitor(e) /\ (SeesWrite(e) \/ UNCHANGED flagVars)
<1> USE DEF provVars, flagVars, StampInv
<1>0. /\ e.check \in BOOLEAN
      /\ e.check => e.src \in Writer
  BY DEF TypeOK, Event
<1>1. OperatorOf(e) # "other" => SeesWrite(e)
  BY DEF WritersFirst, SeesWrite
<1>2. CASE Cancel(e)
  BY <1>2 DEF Cancel
<1>3. CASE Cross(e)
  <2>1. SeesWrite(e)
    BY <1>1, <1>3 DEF Cross, OperatorOf
  <2> QED
    BY <1>3, <2>1 DEF Cross, Open, Reach, Pass
<1>4. CASE Round(e)
  <2>1. SeesWrite(e)
    BY <1>1, <1>4, PassageAssumption DEF Round, OperatorOf
  <2> QED
    BY <1>4, <2>1 DEF Round, Open, Reach, Pass
<1>5. CASE Decide(e)
  <2>1. SeesWrite(e)
    <3>1. e.src \notin Process /\ e.src \notin Fact
      BY <1>5, PassageAssumption DEF Decide
    <3>2. OperatorOf(e) = "institutional_decision"
      BY <1>0, <1>5, <3>1 DEF Decide, OperatorOf, Writer
    <3> QED
      BY <1>1, <3>2
  <2> QED
    BY <1>5, <2>1 DEF Decide, MayDecide, Pass
<1>6. CASE Break(e) \/ Happen(e) \/ Skip(e)
  BY <1>6 DEF Break, Happen, Skip, Pass
<1>7. CASE Confirm(e)
  <2>1. SeesWrite(e)
    BY <1>1, <1>7 DEF Confirm, OperatorOf
  <2> QED
    BY <1>7, <2>1 DEF Confirm
<1>8. CASE Collapse(e)
  BY <1>8 DEF Collapse
<1> QED
  BY <1>2, <1>3, <1>4, <1>5, <1>6, <1>7, <1>8 DEF Handle

LEMMA HandleStamp ==
  ASSUME TypeOK, StampInv, WritersFirst, NEW e \in queue, Handle(e)
  PROVE  /\ StampInv'
         /\ flagAt # 0 => UNCHANGED <<Readout, flagAt, mode>>
<1>1. e.at \in Nat \ {0}
  BY DEF TypeOK, Event
<1>2. CASE UNCHANGED <<flagVars, stampAt, stampBy>>
  BY <1>2 DEF StampInv, StampIsFirstPassage, Readout, flagVars
<1>3. CASE Monitor(e) /\ (SeesWrite(e) \/ UNCHANGED flagVars)
  <2>1. IF flagAt' # 0 /\ stampAt = 0
        THEN stampAt' = e.at /\ stampBy' = mode'
        ELSE UNCHANGED <<stampAt, stampBy>>
    BY <1>3 DEF Monitor, flagVars
  <2>2. UNCHANGED <<flagAt, mode>> \/ (flagAt = 0 /\ flagAt' = e.at)
    BY HandleFlag DEF flagVars
  <2> QED
    BY <1>1, <2>1, <2>2 DEF StampInv, StampIsFirstPassage, Readout
<1> QED
  BY <1>2, <1>3, HandleFlag

LEMMA ReprojectStamp ==
  ASSUME TypeOK, StampInv, NEW p \in Process, Reproject(p)
  PROVE  StampInv' /\ UNCHANGED <<Readout, flagAt, mode>>
BY ReprojectKind DEF StampInv, StampIsFirstPassage, Readout

LEMMA StampsHold ==
  ASSUME WritersFirst
  PROVE  Spec => [](TypeOK /\ StampInv)
<1>1. Init => TypeOK /\ StampInv
  BY InitType DEF Init, StampInv, StampIsFirstPassage
<1>2. TypeOK /\ StampInv /\ [Next]_vars => TypeOK' /\ StampInv'
  <2> SUFFICES ASSUME TypeOK, StampInv, [Next]_vars PROVE TypeOK' /\ StampInv'
    OBVIOUS
  <2>1. CASE UNCHANGED vars
    BY <2>1 DEF vars, provVars, flagVars, procVars, TypeOK, StampInv,
                StampIsFirstPassage
  <2>2. CASE Next
    BY <2>2, HandleType, HandleStamp, ReprojectType, ReprojectStamp DEF Next
  <2> QED
    BY <2>1, <2>2
<1> QED
  BY <1>1, <1>2, PTL DEF Spec

\* When every writer comes before the monitor, the stamp is the time and the
\* mode of the write that absorbed the branch.
THEOREM StampHolds ==
  ASSUME WritersFirst
  PROVE  Spec => []StampIsFirstPassage
<1>1. TypeOK /\ StampInv => StampIsFirstPassage
  BY DEF StampInv
<1> QED
  BY <1>1, StampsHold, PTL

\* When every writer comes before the monitor, no later event changes when a
\* branch was absorbed or by what.
THEOREM AnswerHolds ==
  ASSUME WritersFirst
  PROVE  Spec => AnswerIsFinal
<1>1. TypeOK /\ StampInv /\ [Next]_vars =>
        [flagAt # 0 => UNCHANGED <<Readout, flagAt, mode>>]_vars
  BY HandleStamp, ReprojectStamp DEF Next
<1> QED
  BY <1>1, StampsHold, PTL DEF Spec, AnswerIsFinal

-----------------------------------------------------------------------------
\* The readout as a register that is written once.

\* Nothing is pending in the past.
QueueInv == \A e \in queue : clock <= e.at

LEMMA PopTime ==
  ASSUME TypeOK, QueueInv, NEW e \in queue, NEW F, Pop(e, F),
         \A f \in F : e.at <= f.at
  PROVE  QueueInv' /\ clock' = e.at /\ clock' \in Nat /\ clock' >= clock
<1>1. e.at \in Nat /\ clock \in Nat /\ clock <= e.at
  BY DEF TypeOK, QueueInv, Event
<1>2. clock' = e.at /\ queue' = (queue \ {e}) \cup F /\ \A f \in queue : e.at <= f.at
  BY DEF Pop, IsNext
<1> QED
  BY <1>1, <1>2 DEF QueueInv

\* Events are handled in the order of time, and cause none in the past.
LEMMA HandleTime ==
  ASSUME TypeOK, QueueInv, NEW e \in queue, Handle(e)
  PROVE  QueueInv' /\ clock' = e.at /\ clock' \in Nat /\ clock' >= clock
<1>0. e.at \in Nat \ {0} /\ (e.check => e.src \in Writer)
  BY DEF TypeOK, Event
<1>1. ASSUME Pop(e, {})
      PROVE  QueueInv' /\ clock' = e.at /\ clock' \in Nat /\ clock' >= clock
  BY <1>1, PopTime
<1>2. ASSUME e.src \in Writer, Reach(e)
      PROVE  QueueInv' /\ clock' = e.at /\ clock' \in Nat /\ clock' >= clock
  <2>1. \A f \in CheckOf(e.src, e.at) : e.at <= f.at
    BY <1>0, <1>2, CheckType, PassageAssumption
  <2>2. Pop(e, CheckOf(e.src, e.at)) \/ Pop(e, {})
    BY <1>2 DEF Reach
  <2> QED
    BY <1>1, <2>1, <2>2, PopTime
<1>3. CASE Cancel(e) \/ Decide(e) \/ Break(e) \/ Happen(e) \/ Confirm(e) \/ Skip(e)
  BY <1>1, <1>3 DEF Cancel, Decide, Break, Happen, Confirm, Skip, Pass
<1>4. CASE Cross(e) \/ Round(e)
  BY <1>1, <1>2, <1>4 DEF Cross, Round, Pass, Writer
<1>5. CASE Collapse(e)
  <2>1. CASE e.src \in Process
    <3>1. PICK t \in e.at..Horizon + 1 :
            Pop(e, CrossingAt(e.src, gen[e.src] + 1, t))
      BY <1>5, <2>1 DEF Collapse
    <3>2. t \in Nat \ {0} /\ e.at <= t /\ gen[e.src] + 1 \in Nat
      BY <1>0, <2>1, PassageAssumption DEF TypeOK
    <3>3. \A f \in CrossingAt(e.src, gen[e.src] + 1, t) : e.at <= f.at
      BY <2>1, <3>2, CrossingType
    <3> QED
      BY <3>1, <3>3, PopTime
  <2>2. CASE e.src \notin Process
    BY <1>1, <1>5, <2>2 DEF Collapse
  <2> QED
    BY <2>1, <2>2
<1> QED
  BY <1>3, <1>4, <1>5 DEF Handle

LEMMA ReprojectTime ==
  ASSUME TypeOK, QueueInv, NEW p \in Process, Reproject(p)
  PROVE  QueueInv'
<1>1. PICK t \in clock..Horizon + 1 :
        queue' = queue \cup CrossingAt(p, gen[p] + 1, t)
  BY DEF Reproject
<1>2. t \in Nat \ {0} /\ clock <= t /\ gen[p] + 1 \in Nat
  BY PassageAssumption DEF TypeOK, Reproject
<1>3. \A f \in CrossingAt(p, gen[p] + 1, t) : clock <= f.at
  BY <1>2, CrossingType
<1>4. clock' = clock
  BY ReprojectKind
<1> QED
  BY <1>1, <1>3, <1>4 DEF QueueInv

\* A check never comes after the window of what its mode last reached.
WindowInv ==
  /\ provAt <= clock
  /\ \A e \in queue : e.check => e.at <= provAt + Window[e.src]

LEMMA HandleWindow ==
  ASSUME TypeOK, CheckInv, QueueInv, WindowInv, NEW e \in queue, Handle(e)
  PROVE  WindowInv'
<1> USE DEF provVars, flagVars, procVars
<1>0. /\ e.at \in Nat \ {0} /\ clock \in Nat /\ provAt \in Nat
      /\ clock' = e.at /\ provAt <= e.at
      /\ \A f \in queue : f.at \in Nat /\ (f.check => Window[f.src] \in Nat)
  BY HandleTime, PassageAssumption DEF TypeOK, Event, QueueInv, WindowInv
<1>1. ASSUME provAt' \in {provAt, e.at},
             \A f \in queue' : f.check => f \in queue \/ f.at <= provAt' + Window[f.src]
      PROVE  WindowInv'
  BY <1>0, <1>1 DEF WindowInv
<1>2. CASE Settle(e)
  <2>1. provAt' \in {provAt, e.at}
    BY <1>2 DEF Handle, Settle, Cancel, Cross, Round, Decide, Break, Happen,
                Confirm, Collapse, Skip, Pass, Reach
  <2> QED
    BY <1>1, <1>2, <2>1 DEF Settle
<1>3. CASE Enter(e)
  <2>1. CASE Window[e.src] > 0
    <3>1. provAt' = e.at /\ queue' = (queue \ {e}) \cup CheckOf(e.src, e.at)
      BY <1>3, <2>1 DEF Enter, Reach, Pop
    <3>2. \A f \in CheckOf(e.src, e.at) : f.at <= provAt' + Window[f.src]
      BY <1>0, <1>3, <3>1, CheckType, PassageAssumption DEF Enter
    <3> QED
      BY <1>1, <3>1, <3>2
  <2>2. CASE ~(Window[e.src] > 0)
    BY <1>1, <1>3, <2>2 DEF Enter, Reach, Pop
  <2> QED
    BY <2>1, <2>2
<1>4. CASE Resume(e)
  BY <1>1, <1>4 DEF Resume
<1> QED
  BY <1>2, <1>3, <1>4, HandleKinds

RegisterInv == TypeOK /\ CheckInv /\ StampInv /\ QueueInv /\ WindowInv

\* A step keeps the invariant.
LEMMA RegisterInvStep ==
  ASSUME WritersFirst, RegisterInv, [Next]_vars
  PROVE  RegisterInv'
<1> USE DEF RegisterInv
<1>1. CASE UNCHANGED vars
  BY <1>1 DEF vars, provVars, flagVars, procVars, TypeOK, CheckInv, StampInv,
              StampIsFirstPassage, QueueInv, WindowInv
<1>2. ASSUME NEW e \in queue, Handle(e) PROVE RegisterInv'
  BY <1>2, HandleType, HandleChecks, HandleStamp, HandleTime, HandleWindow
<1>3. ASSUME NEW p \in Process, Reproject(p) PROVE RegisterInv'
  <2>1. CheckInv'
    <3>1. /\ \A f \in queue' : f.check \/ f.src \in Fact => f \in queue
          /\ UNCHANGED <<prov, provAt, flagAt, stampAt, fired>>
      BY <1>3, ReprojectKind, PassageAssumption
    <3> QED
      BY <3>1 DEF CheckInv
  <2>2. WindowInv'
    BY <1>3, ReprojectKind DEF WindowInv
  <2> QED
    BY <1>3, <2>1, <2>2, ReprojectType, ReprojectStamp, ReprojectTime
<1> QED
  BY <1>1, <1>2, <1>3 DEF Next

\* The readout is the predicate.
LEMMA ReadoutIs ==
  ASSUME RegisterInv, RegisterInv'
  PROVE  /\ ReadoutMode = mode /\ Readout = flagAt /\ (mode = NoMode <=> flagAt = 0)
         /\ ReadoutMode' = mode' /\ Readout' = flagAt' /\ (mode' = NoMode <=> flagAt' = 0)
BY PassageAssumption
   DEF RegisterInv, TypeOK, StampInv, StampIsFirstPassage, ReadoutMode, Readout

LEMMA HoldOfIs ==
  /\ \A s \in Writer : ModeOf[s] \in Mode /\ ModeOf[s] # NoMode /\ HoldOf[s] = Window[s]
  /\ \A s \in Vote : ModeOf[s] \in Mode /\ HoldOf[s] = 0
BY PassageAssumption DEF HoldOf, Writer

\* Handling an event is a step of the register.
LEMMA HandleRegister ==
  ASSUME RegisterInv, RegisterInv', NEW e \in queue, Handle(e)
  PROVE  Register!Next
<1> USE DEF provVars, flagVars, procVars
<1>0. /\ TypeOK /\ CheckInv /\ StampInv /\ QueueInv /\ WindowInv
      /\ NoMode \notin Mode /\ (e.check => e.src \in Writer)
  BY PassageAssumption DEF RegisterInv, TypeOK, Event
<1>1. clock' = e.at /\ clock' \in Nat /\ clock' >= clock /\ e.at \in Nat \ {0}
  BY <1>0, HandleTime DEF TypeOK, Event
<1>2. /\ ReadoutMode = mode /\ Readout = flagAt /\ (mode = NoMode <=> flagAt = 0)
      /\ ReadoutMode' = mode' /\ Readout' = flagAt'
  BY ReadoutIs
<1>3. SUFFICES \/ \E s \in Writer \cup Vote :
                    Register!Claim(s) \/ Register!Write(s) \/ Register!Settle(s)
               \/ Register!Withdraw \/ Register!Pass
  BY <1>1 DEF Register!Next
<1>4. ASSUME UNCHANGED <<provVars, flagVars>> PROVE Register!Pass
  BY <1>2, <1>4 DEF Register!Pass
<1>5. ASSUME Open, Reach(e), e.src \in Writer
      PROVE  Register!Claim(e.src) \/ Register!Write(e.src)
  <2>1. /\ ModeOf[e.src] # NoMode /\ HoldOf[e.src] = Window[e.src]
        /\ Window[e.src] \in Nat
    BY <1>5, HoldOfIs, PassageAssumption
  <2>2. CASE Window[e.src] > 0
    BY <1>1, <1>2, <1>5, <2>1, <2>2 DEF Reach, Open, Register!Claim
  <2>3. CASE ~(Window[e.src] > 0)
    BY <1>1, <1>2, <1>5, <2>1, <2>3 DEF Reach, Open, Register!Write
  <2> QED
    BY <2>2, <2>3
<1>6. CASE Cross(e) \/ Round(e)
  <2>1. e.src \in Writer
    BY <1>6 DEF Cross, Round, Writer
  <2>2. (Open /\ Reach(e)) \/ UNCHANGED <<provVars, flagVars>>
    BY <1>6 DEF Cross, Round, Pass
  <2> QED
    BY <1>4, <1>5, <2>1, <2>2
<1>7. CASE Decide(e)
  <2>1. CASE Pass(e)
    BY <1>4, <2>1 DEF Pass
  <2>2. CASE ~Pass(e)
    <3>1. e.src \in Vote /\ HoldOf[e.src] = 0
      BY <1>7, HoldOfIs DEF Decide
    <3>2. Register!Write(e.src)
      BY <1>1, <1>2, <1>7, <2>2, <3>1 DEF Decide, MayDecide, Register!Write
    <3> QED
      BY <3>1, <3>2
  <2> QED
    BY <2>1, <2>2
<1>8. CASE Break(e)
  BY <1>2, <1>8 DEF Break, Register!Withdraw, Register!Pass
<1>9. CASE Confirm(e)
  <2>1. /\ e.check /\ prov = ModeOf[e.src] /\ e.src \in Writer
        /\ e.at <= provAt + Window[e.src]
    BY <1>0, <1>9 DEF Confirm, Holds, WindowInv
  <2>2. prov \in Mode /\ prov # NoMode /\ HoldOf[e.src] = Window[e.src]
    BY <2>1, HoldOfIs
  <2>5. HoldOf[e.src] > 0 /\ (Register!Sole(e.src) => Sole(e.src))
    BY <1>0, <2>1, <2>2, HoldOfIs DEF CheckInv, Sole, Register!Sole
  <2>6. Register!Sole(e.src) => e.at = provAt + Window[e.src]
    BY <1>0, <2>1, <2>5 DEF CheckInv
  <2>3. stampAt = 0 /\ flagAt = 0
    BY <1>0, <1>9 DEF Confirm, StampInv
  <2>4. prov' = NoMode /\ flagAt' = e.at /\ mode' = prov
    BY <1>9 DEF Confirm, Confirmed
  <2> QED
    BY <1>1, <1>2, <2>1, <2>2, <2>3, <2>4, <2>5, <2>6 DEF Register!Settle
<1>10. CASE Cancel(e) \/ Happen(e) \/ Collapse(e) \/ Skip(e)
  BY <1>4, <1>10 DEF Cancel, Happen, Collapse, Skip, Pass
<1> QED
  BY <1>6, <1>7, <1>8, <1>9, <1>10 DEF Handle

\* A re-projection changes nothing that the register has.
LEMMA RegisterStep ==
  ASSUME RegisterInv, RegisterInv', [Next]_vars
  PROVE  [Register!Next]_(Register!registerVars)
<1>1. ASSUME UNCHANGED <<clock, prov, provAt, flagAt, mode, stampAt, stampBy>>
      PROVE  UNCHANGED Register!registerVars
  BY <1>1 DEF Register!registerVars, Readout, ReadoutMode
<1>2. CASE UNCHANGED vars
  BY <1>1, <1>2 DEF vars, provVars, flagVars
<1>3. ASSUME NEW p \in Process, Reproject(p) PROVE UNCHANGED Register!registerVars
  BY <1>1, <1>3, ReprojectKind DEF RegisterInv
<1> QED
  BY <1>2, <1>3, HandleRegister DEF Next

\* When every writer comes before the monitor, the readout of a branch is a
\* register that is written once, when it is written; a claim that nothing
\* withdrew is the answer exactly at the end of the time it had to hold, or,
\* when another source claims its mode too, at that time at the latest.
THEOREM RegisterHolds ==
  ASSUME WritersFirst
  PROVE  Spec => Register!Spec
<1>1. Init => RegisterInv /\ Register!Init
  <2> SUFFICES ASSUME Init PROVE RegisterInv /\ Register!Init
    OBVIOUS
  <2>1. TypeOK /\ CheckInv
    BY InitType, CheckInit
  <2>2. StampInv /\ QueueInv
    BY <2>1 DEF Init, StampInv, StampIsFirstPassage, QueueInv, TypeOK, Event
  <2>4. WindowInv
    BY <2>1, PlanAssumption DEF Init, WindowInv
  <2>3. Register!Init
    BY DEF Init, Register!Init, Readout, ReadoutMode
  <2> QED
    BY <2>1, <2>2, <2>3, <2>4 DEF RegisterInv
<1>2. RegisterInv /\ [Next]_vars => RegisterInv' /\ [Register!Next]_(Register!registerVars)
  BY RegisterInvStep, RegisterStep
<1> QED
  BY <1>1, <1>2, PTL DEF Spec, Register!Spec
=============================================================================
