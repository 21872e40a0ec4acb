------------------------ MODULE LeanDecisionsProofs ------------------------
(***************************************************************************)
(* Proofs about LeanDecisions, for every number of threads, contexts and   *)
(* workers and every cap.                                                  *)
(***************************************************************************)
EXTENDS LeanDecisions, FiniteSetTheorems, TLAPS

PC == Leading \cup Waiting \cup {"get", "begin", "woken", "begin_again", "woken_again",
                                 "queued", "ring", "done"}

\* Where a wave's threads can be; only they reach the gateway.
WavePC == {"queued", "peek", "admit", "finish", "ring", "done"} \cup Calling
ControllerPC == {"get", "begin", "woken", "begin_again", "woken_again", "fresh", "finish",
                 "ring", "done"} \cup Waiting

Routes == \A t \in Thread : pc[t] \in IF route = "wave" THEN WavePC ELSE ControllerPC

\* A registered flight is that of a thread which has its context and has yet
\* to finish it.
FlightLed ==
  \A k \in Key : flight[k] # None => KeyOf(flight[k]) = k /\ pc[flight[k]] \in Leading

FlightInv ==
  /\ TypeOK
  /\ Routes
  /\ FlightLed
  /\ \A t \in Thread : pc[t] \in Waiting => event[t] # None
  /\ WakeupIsComing

LEMMA KeyOfType == ASSUME TypeOK PROVE \A t \in Thread : KeyOf(t) \in Key
BY DecisionsAssumption DEF TypeOK, KeyOf

\* The steps of a thread, by what they do to flights and events: it moves on,
\* and ...
Moves(t) ==
  /\ pc' = [pc EXCEPT ![t] = pc'[t]]
  /\ UNCHANGED route

\* ... goes on leading if it led, with no flight or event touched;
Quiet(t) ==
  /\ Moves(t)
  /\ UNCHANGED <<flight, rung, event>>
  /\ pc'[t] \in PC \ Waiting /\ pc[t] # "ring"
  /\ pc[t] \in Leading => pc'[t] \in Leading

\* ... no longer waits.
Awakes(t) ==
  /\ Moves(t)
  /\ pc[t] \in Waiting /\ pc'[t] \in {"woken", "woken_again"}
  /\ event' = [event EXCEPT ![t] = None]
  /\ UNCHANGED <<flight, rung>>

RouteKept(t) == pc'[t] \in IF route = "wave" THEN WavePC ELSE ControllerPC

LEMMA Shapes ==
  ASSUME TypeOK, Routes, NEW t \in Thread, Step(t) \/ GiveUp(t)
  PROVE  /\ Moves(t) /\ RouteKept(t)
         /\ \/ Quiet(t)
            \/ Awakes(t)
            \/ /\ Lead(t, KeyOf(t)) /\ pc[t] \notin Leading \cup Waiting \cup {"ring"}
               /\ pc'[t] \in Leading /\ UNCHANGED <<rung, event>>
            \/ /\ flight[KeyOf(t)] # None
               /\ event' = [event EXCEPT ![t] = flight[KeyOf(t)]]
               /\ pc[t] \notin Leading \cup Waiting \cup {"ring"} /\ pc'[t] \in Waiting
               /\ UNCHANGED <<flight, rung>>
            \/ Finish(t)
            \/ Announce(t)
<1> USE DEF TypeOK, Routes, At, Go, Raise, Moves, RouteKept, Leading, Waiting, Calling, WavePC, ControllerPC,
        PC, flightVars
<1>1. CASE Finish(t)
  BY <1>1 DEF Finish
<1>2. CASE Announce(t)
  BY <1>2 DEF Announce
<1>3. ASSUME NEW here \in {"get", "woken", "woken_again"},
             NEW missing \in {"begin", "begin_again", "fresh"}, Get(t, here, missing)
      PROVE  Moves(t) /\ RouteKept(t) /\ Quiet(t)
  BY <1>3 DEF Get, Quiet
<1>4. ASSUME NEW here \in {"begin", "begin_again"}, NEW waiting \in Waiting,
             Begin(t, here, "fresh", waiting)
      PROVE  /\ Moves(t) /\ RouteKept(t)
             /\ \/ /\ Lead(t, KeyOf(t)) /\ pc[t] \notin Leading \cup Waiting \cup {"ring"}
                   /\ pc'[t] \in Leading /\ UNCHANGED <<rung, event>>
                \/ /\ flight[KeyOf(t)] # None
                   /\ event' = [event EXCEPT ![t] = flight[KeyOf(t)]]
                   /\ pc[t] \notin Leading \cup Waiting \cup {"ring"} /\ pc'[t] \in Waiting
                   /\ UNCHANGED <<flight, rung>>
  BY <1>4 DEF Begin
<1>5. ASSUME NEW here \in Waiting, NEW there \in {"woken", "woken_again"},
             Wake(t, here, there) \/ TimeOut(t, here, there)
      PROVE  Moves(t) /\ RouteKept(t) /\ Awakes(t)
  BY <1>5 DEF Wake, TimeOut, Awakes
<1>6. ASSUME Fresh(t) PROVE Moves(t) /\ RouteKept(t) /\ Quiet(t)
  BY <1>6 DEF Fresh, Quiet
<1>7. CASE Take(t)
  BY <1>7 DEF Take
<1>8. ASSUME CallFails(t, TRUE) \/ CallFails(t, FALSE), pc[t] \in {"admit", "retry", "second"}
      PROVE  Moves(t) /\ RouteKept(t) /\ Quiet(t)
  BY <1>8 DEF CallFails, Quiet
<1>9. ASSUME PeekAgain(t) \/ Admit(t) \/ Provider(t) \/ Retry(t) \/ SecondTry(t) \/ Reply(t)
      PROVE  Moves(t) /\ RouteKept(t) /\ Quiet(t)
  <2>1. CASE PeekAgain(t) BY <2>1 DEF PeekAgain, Quiet
  <2>2. CASE Admit(t) BY <2>2, <1>8 DEF Admit, Quiet
  <2>3. CASE Provider(t) BY <2>3 DEF Provider, Quiet
  <2>4. CASE Retry(t) BY <2>4, <1>8 DEF Retry, Quiet
  <2>5. CASE SecondTry(t) BY <2>5, <1>8 DEF SecondTry, Quiet
  <2>6. CASE Reply(t) BY <2>6 DEF Reply, Quiet
  <2>7. QED BY <1>9, <2>1, <2>2, <2>3, <2>4, <2>5, <2>6
<1>10. CASE Decide(t)
  BY <1>3, <1>4, <1>5, <1>6, <1>10 DEF Decide
<1>11. CASE DecideOne(t)
  BY <1>7, <1>9, <1>11 DEF DecideOne
<1>12. CASE GiveUp(t)
  BY <1>5, <1>12 DEF GiveUp
<1>13. QED BY <1>1, <1>2, <1>10, <1>11, <1>12 DEF Step

LEMMA TypeStep == ASSUME TypeOK, Routes, [Next]_vars PROVE TypeOK'
<1> USE DEF TypeOK, At, Go, Raise, flightVars, ledgerVars
<1>1. ASSUME NEW t \in Thread, Step(t) \/ GiveUp(t) PROVE TypeOK'
  <2> DEFINE Typed(S) == pc' \in [Thread -> S]
  <2>1. KeyOf(t) \in Key BY KeyOfType
  <2>2. pc' \in [Thread -> PC]
    BY <1>1, Shapes DEF Moves, RouteKept, WavePC, ControllerPC, PC, Routes, Leading, Waiting, Calling
  <2>3. flight' \in [Key -> Thread \cup {None}] /\ event' \in [Thread -> Thread \cup {None}] /\ route' = route
    BY <1>1, <2>1, Shapes DEF Moves, Quiet, Awakes, Lead, Finish, Announce, Pop
  <2>4. rung' \subseteq Thread
    BY <1>1, Shapes DEF Quiet, Awakes, Finish, Announce, Ring
  <2>5. ASSUME NEW e \in BOOLEAN, CallFails(t, e)
        PROVE  /\ stage' \in [Thread -> Stage] /\ raised' \subseteq Thread
               /\ UNCHANGED <<templates, calls, retries, late>>
    BY <2>5 DEF CallFails, Stage
  <2>6. ASSUME Reply(t)
        PROVE  /\ stage' \in [Thread -> Stage] /\ raised' \subseteq Thread
               /\ templates' \in [Key -> Thread \cup {None}]
               /\ calls' \in Nat /\ retries' \in Nat /\ late' \in BOOLEAN
    BY <2>1, <2>6 DEF Reply, RecordCall, Store, Stage
  <2>7. ASSUME DecideOne(t), ~Reply(t)
        PROVE  /\ stage' \in [Thread -> Stage] /\ raised' \subseteq Thread
               /\ UNCHANGED <<templates, calls, retries, late>>
    BY <2>5, <2>7 DEF DecideOne, Take, PeekAgain, Admit, Provider, Retry, SecondTry
  <2>8. ASSUME Decide(t) \/ Finish(t) \/ Announce(t) \/ GiveUp(t)
        PROVE  /\ UNCHANGED <<stage, raised, calls, retries, late>>
               /\ templates' \in [Key -> Thread \cup {None}]
    BY <2>1, <2>8 DEF Decide, Finish, Announce, GiveUp, Get, Begin, Wake, TimeOut, Fresh, Store
  <2>9. /\ stage' \in [Thread -> Stage] /\ raised' \subseteq Thread
        /\ templates' \in [Key -> Thread \cup {None}]
        /\ calls' \in Nat /\ retries' \in Nat /\ late' \in BOOLEAN
    BY <1>1, <2>6, <2>7, <2>8 DEF Step
  <2>10. QED BY <2>2, <2>3, <2>4, <2>9 DEF PC
<1>2. CASE CancelQueued
  BY <1>2 DEF CancelQueued
<1>3. CASE WallClock
  BY <1>3 DEF WallClock, TimePasses
<1>4. CASE UNCHANGED vars
  BY <1>4 DEF vars
<1>5. QED BY <1>1, <1>2, <1>3, <1>4 DEF Next

LEMMA FlightStep == ASSUME FlightInv, [Next]_vars PROVE FlightInv'
<1>1. TypeOK'
  BY TypeStep DEF FlightInv
<1>2. \A t \in Thread : KeyOf(t) \in Key
  BY KeyOfType DEF FlightInv
<1> DEFINE Held == \A t \in Thread : pc[t] \in Waiting => event[t] # None
           Coming(t) == \/ event[t] \in rung
                        \/ \E u \in Thread : pc[u] = "ring" /\ event[u] = event[t]
                        \/ flight[KeyOf(t)] = event[t] /\ pc[event[t]] \in Leading
<1>3. ASSUME NEW t \in Thread, Step(t) \/ GiveUp(t) PROVE FlightInv'
  <2> USE DEF FlightInv, TypeOK
  <2>1. Moves(t) /\ RouteKept(t)
    BY <1>3, Shapes
  <2>2. Routes'
    BY <2>1 DEF Moves, RouteKept, Routes
  <2>3. \A u \in Thread : KeyOf(u)' = KeyOf(u)
    BY <2>1 DEF Moves, KeyOf
  <2>4. \A u \in Thread \ {t} : pc'[u] = pc[u]
    BY <2>1 DEF Moves
  <2>5. CASE Quiet(t)
    <3>1. FlightLed' BY <1>2, <2>3, <2>4, <2>5 DEF FlightLed, Quiet
    <3>2. Held' BY <2>4, <2>5 DEF Quiet
    <3>3. WakeupIsComing'
      <4>1. \A u \in Thread : pc'[u] \in Waiting => u # t /\ pc[u] \in Waiting /\ event[u] \in Thread
        BY <2>4, <2>5 DEF Quiet
      <4>2. ASSUME NEW u \in Thread, pc[u] \in Waiting, Coming(u) PROVE Coming(u)'
        BY <2>3, <2>4, <2>5, <4>2 DEF Quiet
      <4>3. QED BY <4>1, <4>2 DEF WakeupIsComing
    <3>4. QED BY <1>1, <2>2, <3>1, <3>2, <3>3
  <2>6. CASE Awakes(t)
    <3>1. FlightLed' BY <1>2, <2>3, <2>4, <2>6 DEF FlightLed, Awakes, Leading, Waiting, Calling
    <3>2. \A u \in Thread : pc'[u] \in Waiting => u # t /\ pc[u] \in Waiting
      BY <2>4, <2>6 DEF Awakes, Waiting
    <3>3. Held' BY <2>4, <2>6, <3>2 DEF Awakes
    <3>4. WakeupIsComing'
      <4>1. ASSUME NEW u \in Thread, u # t, pc[u] \in Waiting, Coming(u) PROVE Coming(u)'
        <5>1. event'[u] = event[u] /\ flight' = flight /\ rung' = rung
          BY <2>6, <4>1 DEF Awakes
        <5>2. \A v \in Thread : pc[v] = "ring" => pc'[v] = "ring" /\ event'[v] = event[v]
          BY <2>4, <2>6 DEF Awakes, Waiting
        <5>3. \A v \in Thread : pc[v] \in Leading => pc'[v] \in Leading
          BY <2>4, <2>6 DEF Awakes, Waiting, Leading, Calling
        <5>4. event[u] \in Thread BY <4>1
        <5>5. QED BY <2>3, <4>1, <5>1, <5>2, <5>3, <5>4
      <4>2. QED BY <3>2, <4>1 DEF WakeupIsComing
    <3>5. QED BY <1>1, <2>2, <3>1, <3>3, <3>4
  <2>7. CASE /\ Lead(t, KeyOf(t)) /\ pc[t] \notin Leading \cup Waiting \cup {"ring"}
             /\ pc'[t] \in Leading /\ UNCHANGED <<rung, event>>
    <3>1. FlightLed' BY <1>2, <2>3, <2>4, <2>7 DEF FlightLed, Lead
    <3>2. \A u \in Thread : pc'[u] \in Waiting => u # t /\ pc[u] \in Waiting
      BY <2>4, <2>7 DEF Waiting, Leading, Calling
    <3>3. Held' BY <2>4, <2>7, <3>2
    <3>4. WakeupIsComing'
      <4>1. ASSUME NEW u \in Thread, u # t, pc[u] \in Waiting, Coming(u) PROVE Coming(u)'
        <5>1. event[u] \in Thread BY <4>1
        <5>2. flight[KeyOf(u)] = event[u] => flight'[KeyOf(u)] = event[u]
          BY <1>2, <2>7, <5>1, FlightAssumption DEF Lead
        <5>3. \A v \in Thread : pc[v] \in Leading \cup {"ring"} => pc'[v] = pc[v]
          BY <2>4, <2>7
        <5>4. QED BY <2>3, <2>7, <4>1, <5>1, <5>2, <5>3
      <4>2. QED BY <3>2, <4>1 DEF WakeupIsComing
    <3>5. QED BY <1>1, <2>2, <3>1, <3>3, <3>4
  <2>8. CASE /\ flight[KeyOf(t)] # None
             /\ event' = [event EXCEPT ![t] = flight[KeyOf(t)]]
             /\ pc[t] \notin Leading \cup Waiting \cup {"ring"} /\ pc'[t] \in Waiting
             /\ UNCHANGED <<flight, rung>>
    <3>1. \A v \in Thread : pc[v] \in Leading \cup {"ring"} => pc'[v] = pc[v] /\ event'[v] = event[v]
      BY <2>4, <2>8
    <3>2. FlightLed' BY <1>2, <2>3, <2>8, <3>1 DEF FlightLed
    <3>3. Held' BY <2>4, <2>8
    <3>4. Coming(t)' BY <1>2, <2>3, <2>8, <3>1 DEF FlightLed
    <3>5. ASSUME NEW u \in Thread, u # t, pc[u] \in Waiting, Coming(u) PROVE Coming(u)'
      <4>1. event[u] \in Thread /\ event'[u] = event[u] BY <2>8, <3>5
      <4>2. QED BY <2>3, <2>8, <3>1, <3>5, <4>1
    <3>6. WakeupIsComing' BY <2>4, <3>4, <3>5 DEF WakeupIsComing
    <3>7. QED BY <1>1, <2>2, <3>2, <3>3, <3>6
  <2>9. CASE Finish(t)
    <3>1. /\ flight' = [flight EXCEPT ![KeyOf(t)] = None]
          /\ event' = [event EXCEPT ![t] = flight[KeyOf(t)]]
          /\ pc[t] = "finish" /\ pc'[t] = "ring" /\ rung' = rung
      BY <2>9 DEF Finish, Pop, At, Go
    <3>2. FlightLed'
      <4>1. ASSUME NEW k \in Key, flight'[k] # None
            PROVE  ContextOf[route'][flight'[k]] = k /\ pc'[flight'[k]] \in Leading
        <5>1. k # KeyOf(t) /\ flight'[k] = flight[k] BY <1>2, <3>1, <4>1
        <5>2. flight[k] \in Thread /\ KeyOf(flight[k]) = k /\ pc[flight[k]] \in Leading
          BY <4>1, <5>1 DEF FlightLed
        <5>3. flight[k] # t BY <5>1, <5>2
        <5>4. route' = route BY <2>1 DEF Moves
        <5>5. QED BY <2>4, <5>1, <5>2, <5>3, <5>4 DEF KeyOf
      <4>2. QED BY <4>1 DEF FlightLed, KeyOf
    <3>3. \A u \in Thread : pc'[u] \in Waiting => u # t /\ pc[u] \in Waiting
      BY <2>4, <3>1 DEF Waiting
    <3>4. Held' BY <3>1, <3>3
    <3>5. ASSUME NEW u \in Thread, u # t, pc[u] \in Waiting, Coming(u) PROVE Coming(u)'
      <4>1. event[u] \in Thread /\ event'[u] = event[u] BY <3>1, <3>5
      <4>2. CASE event[u] \in rung BY <3>1, <4>1, <4>2
      <4>3. CASE \E v \in Thread : pc[v] = "ring" /\ event[v] = event[u]
        BY <2>4, <3>1, <4>1, <4>3
      <4>4. CASE /\ flight[KeyOf(u)] = event[u] /\ pc[event[u]] \in Leading
                 /\ KeyOf(u) = KeyOf(t)
        BY <3>1, <4>1, <4>4
      <4>5. CASE /\ flight[KeyOf(u)] = event[u] /\ pc[event[u]] \in Leading
                 /\ KeyOf(u) # KeyOf(t)
        <5>1. flight'[KeyOf(u)] = event[u] BY <1>2, <3>1, <4>5
        <5>2. KeyOf(event[u]) = KeyOf(u) BY <1>2, <4>1, <4>5, FlightAssumption DEF FlightLed
        <5>3. event[u] # t BY <4>5, <5>2
        <5>4. QED BY <2>3, <2>4, <4>1, <4>5, <5>1, <5>3
      <4>6. QED BY <3>5, <4>2, <4>3, <4>4, <4>5
    <3>6. WakeupIsComing' BY <3>3, <3>5 DEF WakeupIsComing
    <3>7. QED BY <1>1, <2>2, <3>2, <3>4, <3>6
  <2>10. CASE Announce(t)
    <3>1. /\ flight' = flight
          /\ event' = [event EXCEPT ![t] = None]
          /\ pc[t] = "ring" /\ pc'[t] = "done" /\ rung' = rung \cup ({event[t]} \ {None})
      BY <2>10 DEF Announce, Ring, At, Go
    <3>2. \A v \in Thread : pc[v] \in Leading => pc'[v] = pc[v] /\ v # t
      BY <2>4, <3>1 DEF Leading, Calling
    <3>3. FlightLed' BY <1>2, <2>3, <3>1, <3>2 DEF FlightLed
    <3>4. \A u \in Thread : pc'[u] \in Waiting => u # t /\ pc[u] \in Waiting
      BY <2>4, <3>1 DEF Waiting
    <3>5. Held' BY <3>1, <3>4
    <3>6. ASSUME NEW u \in Thread, u # t, pc[u] \in Waiting, Coming(u) PROVE Coming(u)'
      <4>1. event[u] \in Thread /\ event'[u] = event[u] BY <3>1, <3>6
      <4>2. CASE event[u] \in rung BY <3>1, <4>1, <4>2
      <4>3. CASE \E v \in Thread : pc[v] = "ring" /\ event[v] = event[u]
        BY <2>4, <3>1, <4>1, <4>3, FlightAssumption
      <4>4. CASE flight[KeyOf(u)] = event[u] /\ pc[event[u]] \in Leading
        BY <2>3, <3>1, <3>2, <4>1, <4>4
      <4>5. QED BY <3>6, <4>2, <4>3, <4>4
    <3>7. WakeupIsComing' BY <3>4, <3>6 DEF WakeupIsComing
    <3>8. QED BY <1>1, <2>2, <3>3, <3>5, <3>7
  <2>11. QED BY <1>3, <2>5, <2>6, <2>7, <2>8, <2>9, <2>10, Shapes
<1>4. CASE CancelQueued
  <2>1. /\ UNCHANGED <<flight, rung, event, route>>
        /\ pc' = [t \in Thread |-> IF pc[t] = "queued" THEN "done" ELSE pc[t]]
    BY <1>4 DEF CancelQueued, flightVars
  <2>2. \A t \in Thread : pc[t] # "queued" => pc'[t] = pc[t]
    BY <2>1
  <2>3. \A t \in Thread : pc'[t] # pc[t] => pc[t] = "queued" /\ pc'[t] = "done"
    BY <2>1
  <2>4. \A t \in Thread : KeyOf(t)' = KeyOf(t)
    BY <2>1 DEF KeyOf
  <2>5. Routes'
    BY <2>1, <2>3 DEF FlightInv, Routes, WavePC, ControllerPC, Waiting, Calling
  <2>6. FlightLed'
    BY <1>2, <2>1, <2>2, <2>4 DEF FlightInv, FlightLed, TypeOK, Leading, Calling
  <2>7. \A t \in Thread : pc'[t] \in Waiting => pc[t] \in Waiting
    BY <2>3 DEF Waiting
  <2>8. Held'
    BY <2>1, <2>7 DEF FlightInv
  <2>9. WakeupIsComing'
    <3>1. ASSUME NEW u \in Thread, pc[u] \in Waiting, Coming(u) PROVE Coming(u)'
      <4>1. event[u] \in Thread BY <3>1 DEF FlightInv, TypeOK
      <4>2. QED BY <2>1, <2>2, <2>4, <3>1, <4>1 DEF Leading, Calling
    <3>2. QED BY <2>7, <3>1 DEF FlightInv, WakeupIsComing
  <2>10. QED BY <1>1, <2>5, <2>6, <2>8, <2>9 DEF FlightInv
<1>5. CASE WallClock \/ UNCHANGED vars
  <2>1. UNCHANGED <<flight, rung, event, route, pc>>
    BY <1>5 DEF WallClock, flightVars, vars
  <2>2. QED BY <1>1, <2>1 DEF FlightInv, Routes, FlightLed, WakeupIsComing, KeyOf
<1>6. QED BY <1>3, <1>4, <1>5 DEF Next

LEMMA FlightStart == Init => FlightInv
<1> SUFFICES ASSUME Init PROVE FlightInv
  OBVIOUS
<1> USE DEF Init, FlightInit, LedgerInit
<1>1. TypeOK BY DEF TypeOK, Stage
<1>2. Routes BY DEF Routes, WavePC, ControllerPC
<1>3. FlightLed BY DEF FlightLed
<1>4. \A t \in Thread : pc[t] \notin Waiting BY DEF Waiting
<1>5. QED BY <1>1, <1>2, <1>3, <1>4 DEF FlightInv, WakeupIsComing

LEMMA FlightHolds == Spec => []FlightInv
<1>1. FlightInv /\ [Next]_vars => FlightInv' BY FlightStep
<1>2. QED BY <1>1, FlightStart, PTL DEF Spec

\* Type correctness.
THEOREM TypeCorrect == Spec => []TypeOK
<1>1. FlightInv => TypeOK BY DEF FlightInv
<1>2. QED BY <1>1, FlightHolds, PTL

\* No thread waits for an event that nobody will set, whatever flights are
\* finished by threads that did not begin them (lean_decision_cache.py: begin,
\* finish; lean_controller.py: decision_for).
THEOREM WakeupHolds == Spec => []WakeupIsComing
<1>1. FlightInv => WakeupIsComing BY DEF FlightInv
<1>2. QED BY <1>1, FlightHolds, PTL

-----------------------------------------------------------------------------
(* Templates.                                                               *)

LEMMA StoreKeeps ==
  ASSUME TypeOK, NEW t \in Thread, Store(t, KeyOf(t)), NEW k \in Key, Stored(k)
  PROVE  templates'[k] = templates[k]
BY KeyOfType DEF TypeOK, Store, Stored

\* The template of a context is written once, however many threads lead its
\* flight (lean_decision_cache.py: store).
THEOREM TemplateHolds == Spec => TemplateStays
<1>1. ASSUME TypeOK, [Next]_vars
      PROVE  [\A k \in Key : Stored(k) => templates'[k] = templates[k]]_vars
  <2> SUFFICES ASSUME NEW k \in Key, Stored(k), Next PROVE templates'[k] = templates[k]
    BY <1>1
  <2>1. ASSUME NEW t \in Thread, Step(t) \/ GiveUp(t) PROVE templates'[k] = templates[k]
    <3>1. CASE Decide(t)
      BY <1>1, <3>1, StoreKeeps DEF Decide, Get, Begin, Wake, Fresh, flightVars
    <3>2. ASSUME NEW e, CallFails(t, e) PROVE templates'[k] = templates[k]
      BY <3>2 DEF CallFails, flightVars
    <3>3. CASE DecideOne(t)
      BY <1>1, <3>2, <3>3, StoreKeeps DEF DecideOne, Take, PeekAgain, Admit, Provider, Retry, SecondTry,
         Reply, flightVars
    <3>4. CASE Finish(t) \/ Announce(t) \/ GiveUp(t)
      BY <3>4 DEF Finish, Announce, GiveUp, TimeOut, flightVars
    <3>5. QED BY <2>1, <3>1, <3>3, <3>4 DEF Step
  <2>2. CASE CancelQueued \/ WallClock
    BY <2>2 DEF CancelQueued, WallClock, flightVars
  <2>3. QED BY <2>1, <2>2 DEF Next
<1>2. QED BY <1>1, TypeCorrect, PTL DEF Spec, TemplateStays

-----------------------------------------------------------------------------
(* Caps.                                                                    *)

Called == {t \in Thread : pc[t] \in Calling}
Retried == {t \in Thread : pc[t] \in {"second", "second_reply"}}

CapInv ==
  /\ FlightInv
  /\ Cardinality(Running) <= Workers \/ route = "controller"
  /\ calls + Cardinality(Called) < MaxCalls + Workers
  /\ retries + Cardinality(Retried) < MaxRetries + Workers

LEMMA Counts ==
  ASSUME NEW S, S \subseteq Thread
  PROVE  /\ IsFiniteSet(S) /\ Cardinality(S) \in Nat
         /\ \A x \in Thread \ S : Cardinality(S \cup {x}) = Cardinality(S) + 1
         /\ \A x \in S : Cardinality(S \ {x}) = Cardinality(S) - 1
         /\ \A T \in SUBSET S : Cardinality(T) <= Cardinality(S)
<1>1. IsFiniteSet(S) BY FS_Subset, DecisionsAssumption
<1>2. QED BY <1>1, FS_CardinalityType, FS_AddElement, FS_RemoveElement, FS_Subset

LEMMA CapStep == ASSUME CapInv, [Next]_vars PROVE CapInv'
<1> USE DecisionsAssumption, GatewayAssumption
<1>1. FlightInv' /\ TypeOK /\ Routes /\ calls \in Nat /\ retries \in Nat
  BY FlightStep DEF CapInv, FlightInv, TypeOK
<1>2. ASSUME NEW t \in Thread, Step(t) \/ GiveUp(t) PROVE CapInv'
  <2>1. Moves(t) /\ RouteKept(t) BY <1>1, <1>2, Shapes
  <2>2. \A u \in Thread \ {t} : pc'[u] = pc[u] BY <1>1, <2>1 DEF Moves, TypeOK
  <2>3. Cardinality(Running') <= Workers \/ route' = "controller"
    <3>1. CASE Take(t)
      <4>1. Running' \subseteq Running \cup {t} BY <2>2 DEF Running
      <4>2. Cardinality(Running) < Workers BY <3>1 DEF Take
      <4>3. Cardinality(Running \cup {t}) <= Cardinality(Running) + 1
        <5>1. IsFiniteSet(Running) /\ Cardinality(Running) \in Nat BY Counts DEF Running
        <5>2. Cardinality(Running \cup {t}) =
                IF t \in Running THEN Cardinality(Running) ELSE Cardinality(Running) + 1
          BY <5>1, FS_AddElement
        <5>3. QED BY <5>1, <5>2
      <4>4. Cardinality(Running') <= Cardinality(Running \cup {t})
        BY <4>1, Counts DEF Running
      <4>5. QED BY <4>2, <4>3, <4>4, Counts DEF Running
    <3>2. CASE ~Take(t)
      <4>1. pc[t] \notin {"queued", "done"}
        BY <1>2, <3>2 DEF Step, GiveUp, Decide, DecideOne, Finish, Announce, Get, Begin, Wake, TimeOut, Fresh,
           PeekAgain, Admit, Provider, Retry, SecondTry, Reply, At
      <4>2. Running' \subseteq Running BY <2>2, <4>1 DEF Running
      <4>3. Cardinality(Running') <= Cardinality(Running) BY <4>2, Counts DEF Running
      <4>4. QED BY <2>1, <4>3, Counts DEF CapInv, Moves, Running
    <3>3. QED BY <3>1, <3>2
  <2>4. CASE Called' \subseteq Called /\ Retried' \subseteq Retried /\ UNCHANGED <<calls, retries>>
    <3>1. /\ Cardinality(Called') <= Cardinality(Called) /\ Cardinality(Retried') <= Cardinality(Retried)
          /\ Cardinality(Called') \in Nat /\ Cardinality(Retried') \in Nat
          /\ Cardinality(Called) \in Nat /\ Cardinality(Retried) \in Nat
      BY <2>4, Counts DEF Called, Retried
    <3>2. QED BY <1>1, <2>3, <2>4, <3>1 DEF CapInv
  <2>5. CASE Admit(t) /\ Admitted /\ pc'[t] = "provider"
    <3>0. UNCHANGED <<calls, retries>> BY <2>5 DEF Admit, CallFails, ledgerVars
    <3>1. route = "wave" BY <1>1, <2>5 DEF Admit, At, Routes, ControllerPC, Waiting
    <3>2. Called' \subseteq Running'
      BY DEF Called, Running, Calling
    <3>3. Cardinality(Called') <= Cardinality(Running') BY <3>2, Counts DEF Running
    <3>4. calls < MaxCalls BY <2>5 DEF Admitted
    <3>5. Retried' \subseteq Retried BY <2>2, <2>5 DEF Retried
    <3>6. Cardinality(Retried') <= Cardinality(Retried) BY <3>5, Counts DEF Retried
    <3>7. /\ Cardinality(Called') \in Nat /\ Cardinality(Retried') \in Nat
          /\ Cardinality(Running') \in Nat /\ Cardinality(Retried) \in Nat
      BY Counts DEF Called, Retried, Running
    <3>8. route' = "wave" BY <2>1, <3>1 DEF Moves
    <3>9. calls' + Cardinality(Called') < MaxCalls + Workers
      BY <3>0, <1>1, <2>3, <2>5, <3>3, <3>4, <3>7, <3>8
    <3>10. retries' + Cardinality(Retried') < MaxRetries + Workers
      BY <3>0, <1>1, <2>5, <3>6, <3>7 DEF CapInv
    <3>11. QED BY <1>1, <2>3, <3>9, <3>10 DEF CapInv
  <2>6. CASE Retry(t) /\ RetriesAllowed /\ pc'[t] = "second"
    <3>0. UNCHANGED <<calls, retries>> BY <2>6 DEF Retry, CallFails, ledgerVars
    <3>1. route = "wave" /\ pc[t] = "retry"
      BY <1>1, <2>6 DEF Retry, At, Routes, ControllerPC, Waiting
    <3>2. Retried' \subseteq Running' BY DEF Retried, Running
    <3>3. Cardinality(Retried') <= Cardinality(Running') BY <3>2, Counts DEF Running
    <3>4. retries < MaxRetries BY <2>6 DEF RetriesAllowed
    <3>5. Called' \subseteq Called BY <2>2, <3>1 DEF Called, Calling
    <3>6. Cardinality(Called') <= Cardinality(Called) BY <3>5, Counts DEF Called
    <3>7. /\ Cardinality(Called') \in Nat /\ Cardinality(Retried') \in Nat
          /\ Cardinality(Running') \in Nat /\ Cardinality(Called) \in Nat
      BY Counts DEF Called, Retried, Running
    <3>8. route' = "wave" BY <2>1, <3>1 DEF Moves
    <3>9. retries' + Cardinality(Retried') < MaxRetries + Workers
      BY <3>0, <1>1, <2>3, <2>6, <3>3, <3>4, <3>7, <3>8
    <3>10. calls' + Cardinality(Called') < MaxCalls + Workers
      BY <3>0, <1>1, <2>6, <3>6, <3>7 DEF CapInv
    <3>11. QED BY <1>1, <2>3, <3>9, <3>10 DEF CapInv
  <2>7. CASE Reply(t)
    <3>1. /\ pc[t] \in {"reply", "second_reply"} /\ pc'[t] \in {"finish", "admit"}
          /\ calls' = calls + 1
          /\ retries' = IF pc[t] = "second_reply" THEN retries + 1 ELSE retries
      BY <1>1, <2>7 DEF Reply, RecordCall, TypeOK, Go
    <3>2. Called' = Called \ {t} /\ t \in Called BY <2>2, <3>1 DEF Called, Calling
    <3>3. Retried' = Retried \ {t} /\ (t \in Retried <=> pc[t] = "second_reply")
      BY <2>2, <3>1 DEF Retried
    <3>4. Cardinality(Called') = Cardinality(Called) - 1 /\ Cardinality(Called) \in Nat
      BY <3>2, Counts DEF Called
    <3>5. /\ pc[t] = "second_reply" => Cardinality(Retried') = Cardinality(Retried) - 1
          /\ pc[t] # "second_reply" => Cardinality(Retried') = Cardinality(Retried)
          /\ Cardinality(Retried) \in Nat
      <4>1. t \notin Retried => Retried' = Retried BY <3>3
      <4>2. QED BY <3>3, <4>1, Counts DEF Retried
    <3>6. calls' + Cardinality(Called') < MaxCalls + Workers
      BY <1>1, <3>1, <3>4 DEF CapInv
    <3>7. retries' + Cardinality(Retried') < MaxRetries + Workers
      BY <1>1, <3>1, <3>5 DEF CapInv
    <3>8. QED BY <1>1, <2>3, <3>6, <3>7 DEF CapInv
  <2>8. CASE ~Reply(t) /\ ~(Admit(t) /\ Admitted /\ pc'[t] = "provider") /\ ~(Retry(t) /\ RetriesAllowed /\ pc'[t] = "second")
    <3> USE DEF At, Go, Raise
    <3>1. UNCHANGED <<calls, retries>>
      BY <1>2, <2>8 DEF Step, GiveUp, Decide, DecideOne, Finish, Announce, Get, Begin, Wake, TimeOut, Fresh,
           Take, PeekAgain, Admit, Provider, Retry, SecondTry, CallFails, ledgerVars
    <3>2. pc'[t] \in Calling => pc[t] \in Calling
      BY <1>1, <1>2, <2>8 DEF Step, GiveUp, Decide, DecideOne, Finish, Announce, Get, Begin, Wake, TimeOut, Fresh,
           Take, PeekAgain, Admit, Provider, Retry, SecondTry, CallFails, TypeOK, Calling
    <3>3. pc'[t] \in {"second", "second_reply"} => pc[t] \in {"second", "second_reply"}
      BY <1>1, <1>2, <2>8 DEF Step, GiveUp, Decide, DecideOne, Finish, Announce, Get, Begin, Wake, TimeOut, Fresh,
           Take, PeekAgain, Admit, Provider, Retry, SecondTry, CallFails, TypeOK
    <3>4. QED BY <2>2, <2>4, <3>1, <3>2, <3>3 DEF Called, Retried
  <2>9. QED BY <2>5, <2>6, <2>7, <2>8
<1>3. CASE CancelQueued
  <2>1. /\ UNCHANGED <<calls, retries, route>>
        /\ pc' = [t \in Thread |-> IF pc[t] = "queued" THEN "done" ELSE pc[t]]
    BY <1>3 DEF CancelQueued, ledgerVars
  <2>2. Running' = Running /\ Called' = Called /\ Retried' = Retried
    BY <2>1 DEF Running, Called, Retried, Calling
  <2>3. QED BY <1>1, <2>1, <2>2 DEF CapInv
<1>4. CASE WallClock \/ UNCHANGED vars
  <2>1. UNCHANGED <<calls, retries, route, pc>>
    BY <1>4 DEF WallClock, TimePasses, vars
  <2>2. QED BY <1>1, <2>1 DEF CapInv, Running, Called, Retried
<1>5. QED BY <1>2, <1>3, <1>4 DEF Next

\* Recorded calls and retries exceed their caps by less than the number of
\* workers (gateway.py: call; budget.py: allow_call, record_call).
THEOREM CapsHolds == Spec => []CapsHold
<1>1. Init => CapInv
  <2> SUFFICES ASSUME Init PROVE CapInv
    OBVIOUS
  <2>1. FlightInv BY FlightStart
  <2>2. Called = {} /\ Retried = {} /\ (route = "wave" => Running = {})
    BY DEF Init, Called, Retried, Running, Calling
  <2>3. route = "wave" \/ route = "controller" BY DEF Init
  <2>4. QED BY <2>1, <2>2, <2>3, FS_EmptySet, DecisionsAssumption, GatewayAssumption
        DEF CapInv, Init, LedgerInit
<1>2. CapInv /\ [Next]_vars => CapInv' BY CapStep
<1>3. CapInv => CapsHold
  <2> SUFFICES ASSUME CapInv PROVE CapsHold
    OBVIOUS
  <2>1. Cardinality(Called) \in Nat /\ Cardinality(Retried) \in Nat BY Counts DEF Called, Retried
  <2>2. calls \in Nat /\ retries \in Nat BY DEF CapInv, FlightInv, TypeOK
  <2>3. QED BY <2>1, <2>2, DecisionsAssumption, GatewayAssumption DEF CapInv, CapsHold
<1>4. QED BY <1>1, <1>2, <1>3, PTL DEF Spec

-----------------------------------------------------------------------------
(* Progress: what AllAnswered rests on besides the scheduler.               *)

\* How far a location is from the end, and how many calls may follow.
Ahead(l) ==
  CASE l = "done" -> 0
    [] l = "ring" -> 1
    [] l = "finish" -> 2
    [] l \in {"fresh", "reply", "second_reply"} -> 3
    [] l \in {"woken_again", "second"} -> 4
    [] l \in {"wait_again", "retry"} -> 5
    [] l \in {"begin_again", "provider"} -> 6
    [] l \in {"woken", "admit"} -> 7
    [] l \in {"wait", "peek"} -> 8
    [] l \in {"begin", "queued"} -> 9
    [] l = "get" -> 10
CallsAhead(s) ==
  CASE s = "actor_decision" -> 2 [] s = "schema_format_repair" -> 1 [] s = "reask" -> 0
StepsLeft(t) == Ahead(pc[t]) + 5 * CallsAhead(stage[t])

\* Nothing that thread t's next step needs is missing: it is at a location
\* that waits for nothing, its event is set, or a worker is free for it.
CanStep(t) ==
  \/ pc[t] \notin Waiting \cup {"queued", "done"}
  \/ pc[t] \in Waiting /\ event[t] \in rung
  \/ /\ pc[t] = "queued"
     /\ Cardinality(Running) < Workers
     /\ \A u \in Thread : Order[u] < Order[t] => pc[u] # "queued"
     /\ flight[KeyOf(t)] = None

LEMMA AheadType == \A l \in PC : Ahead(l) \in 0..10
BY DEF PC, Leading, Waiting, Calling, Ahead

LEMMA StepsLeftType == ASSUME TypeOK PROVE \A t \in Thread : StepsLeft(t) \in 0..20
<1>1. \A t \in Thread : pc[t] \in PC /\ stage[t] \in Stage
  BY DEF TypeOK, PC
<1>2. \A t \in Thread : Ahead(pc[t]) \in 0..10
  BY <1>1, AheadType
<1>3. \A t \in Thread : CallsAhead(stage[t]) \in 0..2
  BY <1>1 DEF Stage, CallsAhead
<1> QED
  BY <1>2, <1>3 DEF StepsLeft

\* A thread's step brings it nearer to its end, and no other thread further.
LEMMA ThreadProgress ==
  ASSUME TypeOK, Routes, NEW t \in Thread, Step(t) \/ GiveUp(t)
  PROVE  /\ StepsLeft(t)' < StepsLeft(t) /\ StepsLeft(t)' <= StepsLeft(t)
         /\ \A u \in Thread \ {t} : StepsLeft(u)' = StepsLeft(u)
<1> DEFINE Nearer(l, s) ==
             /\ pc' = [pc EXCEPT ![t] = l] /\ stage' = [stage EXCEPT ![t] = s]
             /\ l \in PC /\ s \in Stage
             /\ \/ s = stage[t] /\ Ahead(l) < Ahead(pc[t])
                \/ /\ CallsAhead(s) = CallsAhead(stage[t]) - 1
                   /\ Ahead(l) < Ahead(pc[t]) + 5
<1>0. /\ pc \in [Thread -> PC] /\ stage \in [Thread -> Stage]
      /\ \A s \in Stage : CallsAhead(s) \in 0..2
  BY DEF TypeOK, PC, Stage, CallsAhead
<1>1. ASSUME NEW l, NEW s, Nearer(l, s)
      PROVE  /\ StepsLeft(t)' < StepsLeft(t) /\ StepsLeft(t)' <= StepsLeft(t)
             /\ \A u \in Thread \ {t} : StepsLeft(u)' = StepsLeft(u)
  <2>1. pc'[t] = l /\ stage'[t] = s
    BY <1>0, <1>1
  <2>2. \A u \in Thread \ {t} : pc'[u] = pc[u] /\ stage'[u] = stage[u]
    BY <1>0, <1>1
  <2>3. /\ Ahead(l) \in 0..10 /\ Ahead(pc[t]) \in 0..10
        /\ CallsAhead(s) \in 0..2 /\ CallsAhead(stage[t]) \in 0..2
    BY <1>0, <1>1, AheadType
  <2>4. Ahead(l) + 5 * CallsAhead(s) < Ahead(pc[t]) + 5 * CallsAhead(stage[t])
    <3>1. CASE s = stage[t] BY <1>1, <2>3, <3>1
    <3>2. CASE s # stage[t] BY <1>1, <2>3, <3>2
    <3>3. QED BY <3>1, <3>2
  <2>5. StepsLeft(t)' = Ahead(l) + 5 * CallsAhead(s)
    BY <2>1 DEF StepsLeft
  <2>6. StepsLeft(t)' < StepsLeft(t) /\ StepsLeft(t)' <= StepsLeft(t)
    BY <2>3, <2>4, <2>5 DEF StepsLeft
  <2>7. \A u \in Thread \ {t} : StepsLeft(u)' = StepsLeft(u)
    BY <2>2 DEF StepsLeft
  <2>8. QED BY <2>6, <2>7
<1>2. ASSUME NEW l \in PC, Go(t, l), stage' = stage, Ahead(l) < Ahead(pc[t])
      PROVE  Nearer(l, stage[t])
  BY <1>0, <1>2 DEF Go
<1>3. ASSUME NEW l \in PC, Go(t, l), NEW s \in Stage, stage' = [stage EXCEPT ![t] = s],
             CallsAhead(s) = CallsAhead(stage[t]) - 1, Ahead(l) < Ahead(pc[t]) + 5
      PROVE  Nearer(l, s)
  BY <1>3 DEF Go
<1> DEFINE Progress == \E l \in PC : \E s \in Stage : Nearer(l, s)
<1>4. SUFFICES Progress
  BY <1>1
<1>5. ASSUME NEW l \in PC, Go(t, l), stage' = stage, Ahead(l) < Ahead(pc[t]) PROVE Progress
  BY <1>0, <1>2, <1>5
<1> HIDE DEF Nearer, Progress
<1>6. ASSUME NEW here \in {"get", "woken", "woken_again"},
             NEW missing \in {"begin", "begin_again", "fresh"}, Get(t, here, missing),
             Ahead(missing) < Ahead(here)
      PROVE  Progress
  <2>1. Ahead("done") < Ahead(here)
    BY <1>6 DEF Ahead
  <2>2. {"done", missing} \subseteq PC /\ pc[t] = here /\ stage' = stage
    BY <1>6 DEF Get, At, PC, Leading
  <2>3. QED BY <1>5, <1>6, <2>1, <2>2 DEF Get
<1>7. CASE Decide(t) /\ ~Fresh(t)
  <2>1. /\ Ahead("begin") < Ahead("get") /\ Ahead("fresh") < Ahead("begin")
        /\ Ahead("wait") < Ahead("begin") /\ Ahead("woken") < Ahead("wait")
        /\ Ahead("begin_again") < Ahead("woken") /\ Ahead("fresh") < Ahead("begin_again")
        /\ Ahead("wait_again") < Ahead("begin_again") /\ Ahead("woken_again") < Ahead("wait_again")
        /\ Ahead("fresh") < Ahead("woken_again")
    BY DEF Ahead
  <2>2. {"fresh", "wait", "wait_again", "woken", "woken_again"} \subseteq PC
    BY DEF PC, Leading, Waiting
  <2>3. CASE Get(t, "get", "begin") \/ Get(t, "woken", "begin_again") \/ Get(t, "woken_again", "fresh")
    BY <1>6, <2>1, <2>3
  <2>4. CASE Begin(t, "begin", "fresh", "wait") \/ Begin(t, "begin_again", "fresh", "wait_again")
    BY <1>5, <2>1, <2>2, <2>4 DEF Begin, At
  <2>5. CASE Wake(t, "wait", "woken") \/ Wake(t, "wait_again", "woken_again")
    BY <1>5, <2>1, <2>2, <2>5 DEF Wake, At
  <2>6. QED BY <1>7, <2>3, <2>4, <2>5 DEF Decide
<1>8. CASE GiveUp(t)
  <2>1. /\ Ahead("woken") < Ahead("wait") /\ Ahead("woken_again") < Ahead("wait_again")
        /\ {"woken", "woken_again"} \subseteq PC
    BY DEF Ahead, PC
  <2>2. QED BY <1>5, <1>8, <2>1 DEF GiveUp, TimeOut, At
<1>9. CASE Fresh(t) \/ Finish(t) \/ Announce(t)
  <2>1. /\ Ahead("finish") < Ahead("fresh") /\ Ahead("ring") < Ahead("finish")
        /\ Ahead("done") < Ahead("ring")
        /\ {"finish", "ring", "done"} \subseteq PC
    BY DEF Ahead, PC, Leading
  <2>2. QED BY <1>5, <1>9, <2>1 DEF Fresh, Finish, Announce, At
<1>10. ASSUME NEW e \in BOOLEAN, CallFails(t, e), pc[t] \in {"admit", "retry", "second"}
       PROVE  Progress
  <2>1. /\ Ahead("finish") < Ahead(pc[t]) /\ Ahead("admit") < Ahead(pc[t]) + 5
        /\ {"finish", "admit"} \subseteq PC
    <3>1. Ahead("finish") = 2 /\ Ahead("admit") = 7 /\ {"finish", "admit"} \subseteq PC
      BY DEF Ahead, PC, Leading
    <3>2. Ahead(pc[t]) \in 4..7
      BY <1>10 DEF Ahead
    <3>3. QED BY <3>1, <3>2
  <2>2. CASE stage[t] = "schema_format_repair"
    <3>1. Go(t, "admit") /\ stage' = [stage EXCEPT ![t] = "reask"]
      BY <1>10, <2>2 DEF CallFails
    <3>2. CallsAhead("reask") = CallsAhead(stage[t]) - 1 /\ "reask" \in Stage
      BY <2>2 DEF CallsAhead, Stage
    <3>3. Nearer("admit", "reask") BY <1>3, <2>1, <3>1, <3>2
    <3>4. QED BY <2>1, <3>2, <3>3 DEF Progress
  <2>3. CASE stage[t] # "schema_format_repair"
    BY <1>5, <1>10, <2>1, <2>3 DEF CallFails, Raise
  <2>4. QED BY <2>2, <2>3
<1>11. CASE Take(t) \/ PeekAgain(t) \/ Provider(t)
  <2>1. /\ Ahead("peek") < Ahead("queued") /\ Ahead("finish") < Ahead("peek")
        /\ Ahead("admit") < Ahead("peek") /\ Ahead("reply") < Ahead("provider")
        /\ Ahead("retry") < Ahead("provider")
        /\ {"peek", "finish", "admit", "reply", "retry"} \subseteq PC
    BY DEF Ahead, PC, Leading, Calling
  <2>2. QED BY <1>5, <1>11, <2>1 DEF Take, PeekAgain, Provider, At
<1>12. CASE Admit(t) \/ Retry(t) \/ SecondTry(t)
  <2>1. /\ Ahead("provider") < Ahead("admit") /\ Ahead("second") < Ahead("retry")
        /\ Ahead("second_reply") < Ahead("second")
        /\ {"provider", "second", "second_reply"} \subseteq PC
    BY DEF Ahead, PC, Leading, Calling
  <2>2. QED BY <1>5, <1>10, <1>12, <2>1 DEF Admit, Retry, SecondTry, At
<1>13. CASE Reply(t)
  <2>1. /\ Ahead("finish") < Ahead(pc[t]) /\ Ahead("admit") < Ahead(pc[t]) + 5
        /\ {"finish", "admit"} \subseteq PC
    <3>1. Ahead("finish") = 2 /\ Ahead("admit") = 7 /\ {"finish", "admit"} \subseteq PC
      BY DEF Ahead, PC, Leading
    <3>2. Ahead(pc[t]) = 3
      BY <1>13 DEF Reply, Ahead
    <3>3. QED BY <3>1, <3>2
  <2>2. CASE Go(t, "finish") /\ stage' = stage
    BY <1>5, <2>1, <2>2
  <2>3. CASE ~(Go(t, "finish") /\ stage' = stage)
    <3> DEFINE s == IF stage[t] = "actor_decision" THEN "schema_format_repair" ELSE "reask"
    <3>1. Go(t, "admit") /\ stage[t] # "reask" /\ stage' = [stage EXCEPT ![t] = s]
      BY <1>13, <2>3 DEF Reply
    <3>2. CallsAhead(s) = CallsAhead(stage[t]) - 1 /\ s \in Stage
      BY <1>0, <3>1 DEF CallsAhead, Stage
    <3>3. Nearer("admit", s) BY <1>3, <2>1, <3>1, <3>2
    <3>4. QED BY <2>1, <3>2, <3>3 DEF Progress
  <2>4. QED BY <2>2, <2>3
<1>14. QED
  BY <1>7, <1>8, <1>9, <1>11, <1>12, <1>13 DEF Step, DecideOne

\* Every step but the wall clock's brings a thread nearer to its end and none
\* further from it: no thread takes more than 20 steps, whatever it meets in
\* the cache and however its calls fail (lean_controller.py: decision_for;
\* lean_v2/engine.py: _decide_one, _call_and_validate).
THEOREM StepsRunOut ==
  Spec => [][/\ \A t \in Thread : StepsLeft(t) \in 0..20 /\ StepsLeft(t)' <= StepsLeft(t)
             /\ late' = late => \E t \in Thread : StepsLeft(t)' < StepsLeft(t)]_vars
<1>1. ASSUME FlightInv, Next
      PROVE  /\ \A t \in Thread : StepsLeft(t) \in 0..20 /\ StepsLeft(t)' <= StepsLeft(t)
             /\ late' = late => \E t \in Thread : StepsLeft(t)' < StepsLeft(t)
  <2>1. TypeOK /\ Routes
    BY <1>1 DEF FlightInv
  <2>2. \A t \in Thread : StepsLeft(t) \in 0..20
    BY <2>1, StepsLeftType
  <2>3. ASSUME NEW t \in Thread, Step(t) \/ GiveUp(t)
        PROVE  /\ \A u \in Thread : StepsLeft(u)' <= StepsLeft(u)
               /\ StepsLeft(t)' < StepsLeft(t)
    <3>1. /\ StepsLeft(t)' < StepsLeft(t) /\ StepsLeft(t)' <= StepsLeft(t)
          /\ \A u \in Thread \ {t} : StepsLeft(u)' = StepsLeft(u)
      BY <2>1, <2>3, ThreadProgress
    <3>2. QED BY <2>2, <3>1
  <2>4. CASE CancelQueued
    <3>1. /\ pc' = [t \in Thread |-> IF pc[t] = "queued" THEN "done" ELSE pc[t]]
          /\ stage' = stage /\ \E t \in Thread : pc[t] = "queued"
      BY <2>4 DEF CancelQueued
    <3>2. \A t \in Thread : CallsAhead(stage[t]) \in 0..2 /\ Ahead(pc[t]) \in 0..10
      BY <2>1, AheadType DEF TypeOK, PC, Stage, CallsAhead
    <3>3. Ahead("done") = 0 /\ Ahead("queued") = 9
      BY DEF Ahead
    <3>4. \A t \in Thread : pc[t] = "queued" =>
            StepsLeft(t)' < StepsLeft(t) /\ StepsLeft(t)' <= StepsLeft(t)
      BY <3>1, <3>2, <3>3 DEF StepsLeft
    <3>5. \A t \in Thread : pc[t] # "queued" => StepsLeft(t)' = StepsLeft(t)
      BY <3>1 DEF StepsLeft
    <3>6. QED BY <2>2, <3>1, <3>4, <3>5
  <2>5. CASE WallClock
    <3>1. UNCHANGED <<pc, stage>> /\ late' # late
      BY <2>5 DEF WallClock, TimePasses
    <3>2. \A t \in Thread : StepsLeft(t)' = StepsLeft(t)
      BY <3>1 DEF StepsLeft
    <3>3. QED BY <2>2, <3>1, <3>2
  <2>6. QED BY <1>1, <2>2, <2>3, <2>4, <2>5 DEF Next
<1>2. QED BY <1>1, FlightHolds, PTL DEF Spec

\* Of the threads that are queued one comes first.
LEMMA FirstQueued ==
  ASSUME NEW t \in Thread, pc[t] = "queued"
  PROVE  \E u \in Thread : /\ pc[u] = "queued"
                           /\ \A v \in Thread : Order[v] < Order[u] => pc[v] # "queued"
<1> DEFINE S == {Order[u] : u \in {v \in Thread : pc[v] = "queued"}}
<1>1. S \subseteq Nat /\ S # {}
  BY DecisionsAssumption
<1>2. PICK x \in S : \A y \in S : <<y, x>> \notin OpToRel(<, Nat)
  <2> HIDE DEF S
  <2> QED BY <1>1, WFMin, NatLessThanWellFounded
<1>3. \A y \in S : ~(y < x)
  BY <1>1, <1>2 DEF OpToRel
<1>4. QED BY <1>3

\* Until all threads are done one of them can step, without a timeout: the
\* cache, its flights and the pool cannot deadlock.
THEOREM NobodyIsStuck ==
  Spec => []((\E t \in Thread : pc[t] # "done") => \E t \in Thread : CanStep(t))
<1>1. ASSUME FlightInv, NEW t \in Thread, pc[t] # "done"
      PROVE  \E u \in Thread : CanStep(u)
  <2> USE DEF Waiting
  <2>1. /\ TypeOK /\ Routes /\ FlightLed /\ WakeupIsComing
        /\ event \in [Thread -> Thread \cup {None}]
        /\ \A u \in Thread : pc[u] \in Waiting => event[u] # None
    BY <1>1 DEF FlightInv, TypeOK
  <2>2. ASSUME NEW u \in Thread, pc[u] \in Leading \cup {"ring"} PROVE CanStep(u)
    BY <2>2 DEF CanStep, Leading, Calling
  <2>3. CASE pc[t] \in Waiting
    <3>1. event[t] \in Thread
      BY <2>1, <2>3
    <3>2. CASE event[t] \in rung BY <2>3, <3>2 DEF CanStep
    <3>3. CASE event[t] \notin rung
      BY <2>1, <2>2, <2>3, <3>1, <3>3 DEF WakeupIsComing
    <3>4. QED BY <3>2, <3>3
  <2>4. CASE pc[t] = "queued"
    <3>1. route = "wave" /\ \A u \in Thread : pc[u] \in WavePC
      BY <2>1, <2>4 DEF Routes, ControllerPC
    <3>2. CASE Running # {}
      <4>1. PICK u \in Thread : pc[u] \notin {"queued", "done"}
        BY <3>2 DEF Running
      <4>2. pc[u] \notin Waiting
        BY <3>1 DEF WavePC, Calling
      <4>3. QED BY <4>1, <4>2 DEF CanStep
    <3>3. CASE Running = {}
      <4>1. PICK u \in Thread : /\ pc[u] = "queued"
                                /\ \A v \in Thread : Order[v] < Order[u] => pc[v] # "queued"
        BY <2>4, FirstQueued
      <4>2. Cardinality(Running) < Workers
        BY <3>3, FS_EmptySet, DecisionsAssumption
      <4>3. flight[KeyOf(u)] = None
        <5>1. SUFFICES ASSUME flight[KeyOf(u)] # None PROVE FALSE
          OBVIOUS
        <5>2. PICK v \in Thread : KeyOf(v) = KeyOf(u) /\ pc[v] \in Leading
          BY <2>1, <5>1, KeyOfType DEF FlightLed, TypeOK
        <5>3. v = u
          BY <3>1, <5>2, DecisionsAssumption DEF KeyOf
        <5>4. QED BY <4>1, <5>2, <5>3 DEF Leading, Calling
      <4>4. QED BY <4>1, <4>2, <4>3 DEF CanStep
    <3>4. QED BY <3>2, <3>3
  <2>5. CASE pc[t] \notin Waiting \cup {"queued"}
    BY <1>1, <2>5 DEF CanStep
  <2>6. QED BY <2>3, <2>4, <2>5
<1>2. FlightInv => ((\E t \in Thread : pc[t] # "done") => \E t \in Thread : CanStep(t))
  BY <1>1
<1>3. QED BY <1>2, FlightHolds, PTL
=============================================================================
