--------------------------- MODULE LeanDecisions ---------------------------
(***************************************************************************)
(* How concurrent threads come by the decisions of actors: the cache, the  *)
(* single flight and the gateway, as their two callers compose them.       *)
(*                                                                         *)
(* Route "controller" is lean_controller.py: threads roll out branches     *)
(* (materialize.py: run_branches) and may decide in equal contexts; a      *)
(* thread that waits gives up after a timeout.  Route "wave" is            *)
(* lean_v2/engine.py: a pool decides the distinct contexts of one wave,    *)
(* each with up to three calls of the gateway.                             *)
(***************************************************************************)
EXTENDS SingleFlight, LeanGateway

CONSTANTS
  Workers,              \* max_workers of the pool
  Order,                \* the order of contexts in a wave
  ContextOf             \* the context of each thread, by route

ASSUME DecisionsAssumption ==
  /\ IsFiniteSet(Thread)
  /\ Workers \in Nat \ {0, 1}
  /\ Order \in [Thread -> Nat]
  /\ ContextOf \in [{"controller", "wave"} -> [Thread -> Key]]
  /\ \A t, u \in Thread : t # u => /\ ContextOf["wave"][t] # ContextOf["wave"][u]
                                   /\ Order[t] # Order[u]

VARIABLES
  route,
  pc,        \* what each thread does next
  event,     \* whose event it waits for, or will set
  stage,     \* which of the three calls of a wave's decision it makes
  raised     \* the threads of a wave that the budget has stopped
vars == <<templates, flight, rung, calls, retries, late, route, pc, event, stage, raised>>

Stage == {"actor_decision", "schema_format_repair", "reask"}

KeyOf(t) == ContextOf[route][t]

\* A thread in the middle of a call that was admitted; one that a finally
\* clause holds to finish its flight.
Calling == {"provider", "retry", "second", "reply", "second_reply"}
Leading == {"fresh", "peek", "admit", "finish"} \cup Calling
Waiting == {"wait", "wait_again"}

Init ==
  /\ FlightInit /\ LedgerInit
  /\ route \in {"controller", "wave"}
  /\ pc = [t \in Thread |-> IF route = "controller" THEN "get" ELSE "queued"]
  /\ event = [t \in Thread |-> None]
  /\ stage = [t \in Thread |-> "actor_decision"]
  /\ raised = {}

At(t, here) == pc[t] = here
Go(t, there) == pc' = [pc EXCEPT ![t] = there]
Raise(t) == Go(t, "finish") /\ raised' = raised \cup {t}

-----------------------------------------------------------------------------
(* The flight of a context, on both routes.                                 *)

\* begin: lead, or wait for whoever leads.
Begin(t, here, leading, waiting) ==
  /\ At(t, here)
  /\ \/ Lead(t, KeyOf(t)) /\ Go(t, leading) /\ UNCHANGED event
     \/ /\ flight[KeyOf(t)] # None
        /\ event' = [event EXCEPT ![t] = flight[KeyOf(t)]]
        /\ Go(t, waiting)
        /\ UNCHANGED flight
  /\ UNCHANGED <<templates, rung, ledgerVars, route, stage, raised>>

\* A mutant of Finish: only a stored decision is announced.
FinishStored(t) ==
  /\ At(t, "finish")
  /\ IF Stored(KeyOf(t))
     THEN Pop(KeyOf(t)) /\ event' = [event EXCEPT ![t] = flight[KeyOf(t)]] /\ Go(t, "ring")
     ELSE Go(t, "done") /\ UNCHANGED <<flight, event>>
  /\ UNCHANGED <<templates, rung, ledgerVars, route, stage, raised>>

\* finish removes the flight of the context, also one that another began, ...
Finish(t) ==
  /\ At(t, "finish")
  /\ Pop(KeyOf(t))
  /\ event' = [event EXCEPT ![t] = flight[KeyOf(t)]]
  /\ Go(t, "ring")
  /\ UNCHANGED <<templates, rung, ledgerVars, route, stage, raised>>

\* ... and then sets its event.
Announce(t) ==
  /\ At(t, "ring")
  /\ Ring(event[t])
  /\ event' = [event EXCEPT ![t] = None]
  /\ Go(t, "done")
  /\ UNCHANGED <<templates, flight, ledgerVars, route, stage, raised>>

-----------------------------------------------------------------------------
(* decision_for of the controller.                                          *)

\* get, and _reuse of what it finds, which may fail on the receiving branch.
Get(t, here, missing) ==
  /\ At(t, here)
  /\ \/ Stored(KeyOf(t)) /\ Go(t, "done")
     \/ Go(t, missing)
  /\ UNCHANGED <<flightVars, ledgerVars, route, event, stage, raised>>

\* ev.wait(timeout=300)
Wake(t, here, there) ==
  /\ At(t, here) /\ event[t] \in rung
  /\ event' = [event EXCEPT ![t] = None]
  /\ Go(t, there)
  /\ UNCHANGED <<flightVars, ledgerVars, route, stage, raised>>

TimeOut(t, here, there) ==
  /\ At(t, here) /\ event[t] \notin rung
  /\ event' = [event EXCEPT ![t] = None]
  /\ Go(t, there)
  /\ UNCHANGED <<flightVars, ledgerVars, route, stage, raised>>

\* _fresh: a decision that is stored; or none, one that was salvaged, or an
\* exception, and nothing is.
Fresh(t) ==
  /\ At(t, "fresh")
  /\ Store(t, KeyOf(t)) \/ UNCHANGED templates
  /\ Go(t, "finish")
  /\ UNCHANGED <<flight, rung, ledgerVars, route, event, stage, raised>>

\* A thread that has waited twice decides without a flight of its own, and
\* finishes whichever flight there is.
Decide(t) ==
  \/ Get(t, "get", "begin")
  \/ Begin(t, "begin", "fresh", "wait")
  \/ Wake(t, "wait", "woken")
  \/ Get(t, "woken", "begin_again")
  \/ Begin(t, "begin_again", "fresh", "wait_again")
  \/ Wake(t, "wait_again", "woken_again")
  \/ Get(t, "woken_again", "fresh")
  \/ Fresh(t)

-----------------------------------------------------------------------------
(* A wave: the pool, _decide_one and _call_and_validate.                    *)

Running == {t \in Thread : pc[t] \notin {"queued", "done"}}

\* A worker of the pool takes the next context of the wave and leads its
\* flight: no other thread has the same context.
Take(t) ==
  /\ Cardinality(Running) < Workers
  /\ \A u \in Thread : Order[u] < Order[t] => pc[u] # "queued"
  /\ At(t, "queued")
  /\ Lead(t, KeyOf(t))
  /\ Go(t, "peek")
  /\ UNCHANGED <<templates, rung, ledgerVars, route, event, stage, raised>>

\* list(pool.map(...)) meets an exception in the order of the contexts, and
\* cancels what has not begun.
CancelQueued ==
  /\ \E t \in raised : /\ pc[t] = "done"
                       /\ \A u \in Thread : Order[u] < Order[t] => pc[u] = "done"
  /\ \E t \in Thread : pc[t] = "queued"
  /\ pc' = [t \in Thread |-> IF pc[t] = "queued" THEN "done" ELSE pc[t]]
  /\ UNCHANGED <<flightVars, ledgerVars, route, event, stage, raised>>

PeekAgain(t) ==
  /\ At(t, "peek")
  /\ Go(t, IF Stored(KeyOf(t)) THEN "finish" ELSE "admit")
  /\ UNCHANGED <<flightVars, ledgerVars, route, event, stage, raised>>

\* A mutant of CallFails: a repair is tried until it succeeds.
RepairAgain(t, exhausted) ==
  /\ IF stage[t] = "schema_format_repair"
     THEN Go(t, "admit") /\ UNCHANGED raised
     ELSE IF exhausted THEN Raise(t) ELSE Go(t, "finish") /\ UNCHANGED raised
  /\ UNCHANGED <<flightVars, ledgerVars, route, event, stage>>

\* The call of this stage has failed.  Only the repair swallows an exhausted
\* budget.
CallFails(t, exhausted) ==
  /\ IF stage[t] = "schema_format_repair"
     THEN stage' = [stage EXCEPT ![t] = "reask"] /\ Go(t, "admit") /\ UNCHANGED raised
     ELSE UNCHANGED stage /\ IF exhausted THEN Raise(t) ELSE Go(t, "finish") /\ UNCHANGED raised
  /\ UNCHANGED <<flightVars, ledgerVars, route, event>>

Admit(t) ==
  /\ At(t, "admit")
  /\ \/ /\ Admitted
        /\ Go(t, "provider")
        /\ UNCHANGED <<flightVars, ledgerVars, route, event, stage, raised>>
     \/ ~Admitted /\ CallFails(t, TRUE)

\* The provider answers or raises.
Provider(t) ==
  /\ At(t, "provider")
  /\ Go(t, "reply") \/ Go(t, "retry")
  /\ UNCHANGED <<flightVars, ledgerVars, route, event, stage, raised>>

\* One retry, if the retries recorded so far leave room.
Retry(t) ==
  /\ At(t, "retry")
  /\ \/ /\ RetriesAllowed
        /\ Go(t, "second")
        /\ UNCHANGED <<flightVars, ledgerVars, route, event, stage, raised>>
     \/ ~RetriesAllowed /\ CallFails(t, TRUE)

\* A call that fails twice is recorded nowhere.
SecondTry(t) ==
  /\ At(t, "second")
  /\ \/ /\ Go(t, "second_reply")
        /\ UNCHANGED <<flightVars, ledgerVars, route, event, stage, raised>>
     \/ CallFails(t, FALSE)

\* The reply is recorded; a valid one is the decision, an invalid one is
\* repaired, then asked for again.
Reply(t) ==
  /\ pc[t] \in {"reply", "second_reply"}
  /\ RecordCall(pc[t] = "second_reply")
  /\ \/ Store(t, KeyOf(t)) /\ Go(t, "finish") /\ UNCHANGED stage
     \/ /\ stage[t] # "reask"
        /\ stage' = [stage EXCEPT ![t] =
             IF @ = "actor_decision" THEN "schema_format_repair" ELSE "reask"]
        /\ Go(t, "admit")
        /\ UNCHANGED templates
     \/ /\ stage[t] = "reask"
        /\ Go(t, "finish")
        /\ UNCHANGED <<templates, stage>>
  /\ UNCHANGED <<flight, rung, route, event, raised>>

DecideOne(t) ==
  \/ Take(t)
  \/ PeekAgain(t)
  \/ Admit(t)
  \/ Provider(t)
  \/ Retry(t)
  \/ SecondTry(t)
  \/ Reply(t)

-----------------------------------------------------------------------------

\* What a thread does without a timeout.
Step(t) == Decide(t) \/ DecideOne(t) \/ Finish(t) \/ Announce(t)

GiveUp(t) == TimeOut(t, "wait", "woken") \/ TimeOut(t, "wait_again", "woken_again")

\* The ledger's clock; the controller has no ledger.
WallClock == route = "wave" /\ TimePasses /\ UNCHANGED <<flightVars, route, pc, event, stage, raised>>

Next ==
  \/ \E t \in Thread : Step(t) \/ GiveUp(t)
  \/ CancelQueued
  \/ WallClock

\* Threads are scheduled and the provider's client returns; neither a timeout
\* nor the wall clock is relied upon.
Spec ==
  /\ Init /\ [][Next]_vars
  /\ \A t \in Thread : WF_vars(Step(t))
  /\ WF_vars(CancelQueued)

-----------------------------------------------------------------------------
(* Properties.                                                              *)

\* Type invariant.
TypeOK ==
  /\ templates \in [Key -> Thread \cup {None}]
  /\ flight \in [Key -> Thread \cup {None}]
  /\ rung \subseteq Thread
  /\ calls \in Nat /\ retries \in Nat /\ late \in BOOLEAN
  /\ route \in {"controller", "wave"}
  /\ pc \in [Thread -> Leading \cup Waiting \cup {"get", "begin", "woken", "begin_again",
                       "woken_again", "queued", "ring", "done"}]
  /\ event \in [Thread -> Thread \cup {None}]
  /\ stage \in [Thread -> Stage]
  /\ raised \subseteq Thread

\* No wakeup is lost: the event a thread waits for is set, is about to be
\* set, or belongs to a flight that its leader will finish.
WakeupIsComing ==
  \A t \in Thread : pc[t] \in Waiting =>
    \/ event[t] \in rung
    \/ \E u \in Thread : pc[u] = "ring" /\ event[u] = event[t]
    \/ flight[KeyOf(t)] = event[t] /\ pc[event[t]] \in Leading

\* A template that branches may already have reused is never replaced, by a
\* second leader of its context either.
TemplateStays ==
  [][\A k \in Key : Stored(k) => templates'[k] = templates[k]]_vars

\* Admission and recording are apart: the workers between them may exceed a
\* cap, and by no more than one call each but the last.
CapsHold ==
  /\ calls < MaxCalls + Workers
  /\ retries < MaxRetries + Workers

\* Every thread comes to an end, though no timeout helps it.
AllAnswered == <>(\A t \in Thread : pc[t] = "done")
=============================================================================
