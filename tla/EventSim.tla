------------------------------ MODULE EventSim ------------------------------
(***************************************************************************)
(* What the branch loop of temporal_runtime.py promises: a discrete-event  *)
(* simulation.  Every scheduled event is handled once, at its timestamp,   *)
(* before the clock passes it; the branch is complete only when nothing is *)
(* left within the horizon.  TemporalBranch, with its batches, microsteps  *)
(* and monitors, implements it.                                            *)
(***************************************************************************)
EXTENDS Integers

CONSTANTS
  Event,     \* records with a field at, the event's timestamp
  Horizon

VARIABLES
  now,       \* the clock
  pending,   \* events scheduled and not handled
  handled,   \* how many events were run or canceled
  status

simVars == <<now, pending, handled, status>>

Due == {e \in pending : e.at <= now}

\* The step leaves the events of kept pending and may schedule others, none in
\* the past of t.
KeepAndAdd(kept, t) ==
  /\ kept \subseteq pending'
  /\ \A e \in pending' \ kept : e \in Event /\ e.at >= t

Init ==
  /\ now \in Nat
  /\ \A e \in pending : e \in Event /\ e.at >= now
  /\ handled = 0
  /\ status = "running"

\* The clock moves to the earliest event, once nothing is left at its time.
Advance ==
  /\ Due = {}
  /\ \E e \in pending : e.at = now'
  /\ \A e \in pending : e.at >= now'
  /\ now' <= Horizon
  /\ KeepAndAdd(pending, now')
  /\ UNCHANGED <<handled, status>>

\* An event that is due is run or canceled, and may cause others.
Handle(e) ==
  /\ e \in Due
  /\ KeepAndAdd(pending \ {e}, now)
  /\ handled' = handled + 1
  /\ UNCHANGED <<now, status>>

\* Events are scheduled by something other than an event: a monitor, a
\* hazard that re-arms.
Schedule ==
  /\ KeepAndAdd(pending, now)
  /\ UNCHANGED <<now, handled, status>>

\* The guard against endless causation within one timestamp moves what is due.
Postpone ==
  /\ KeepAndAdd((pending \ Due) \cup {[e EXCEPT !.at = now + 1] : e \in Due},
                now)
  /\ UNCHANGED <<now, handled, status>>

\* The branch is complete when the horizon holds nothing more.
Complete ==
  /\ \A e \in pending : e.at > Horizon
  /\ status' = "completed"
  /\ UNCHANGED <<now, pending, handled>>

\* Or it is truncated between two timestamps, with what is pending kept.
Truncate ==
  /\ Due = {}
  /\ status' \in {"event_budget", "halted"}
  /\ KeepAndAdd(pending, now)
  /\ UNCHANGED <<now, handled>>

Next ==
  /\ status = "running"
  /\ \/ Advance
     \/ \E e \in pending : Handle(e)
     \/ Schedule
     \/ Postpone
     \/ Complete
     \/ Truncate

Spec == Init /\ [][Next]_simVars
=============================================================================
