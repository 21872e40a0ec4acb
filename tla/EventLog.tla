------------------------------ MODULE EventLog ------------------------------
(***************************************************************************)
(* The event-sourced history of swm/world_model_v2/phase8_events.py: what  *)
(* one stored event is, and how the effective and the as-of views are      *)
(* computed from the events a log holds.                                   *)
(*                                                                         *)
(* An event's id is a hash of its content (seq excluded), so an event is   *)
(* its id here: a member of Event whose content the constant functions     *)
(* give.  Two appends of the same content are appends of the same member.  *)
(***************************************************************************)
EXTENDS Integers, Sequences, FiniteSets

CONSTANTS
  Event,          \* the events that may ever be logged
  NoEvent,        \* the empty revises_event_id
  Kind,           \* Event -> Kinds
  Revises,        \* Event -> the event it corrects, retracts or relinks
  EventTime,      \* Event -> when it happened
  ObservedTime,   \* Event -> when it became knowable
  AsOf            \* the as_of values queries are made with

\* The kinds plain ingestion and the three revising operations produce.
Kinds == {"observation", "correction", "retraction", "identity_link_change"}

\* An event that revises another is built from it by correct, retract or
\* relink_identity, which copy its event_time.
ASSUME EventAssumption ==
  /\ NoEvent \notin Event
  /\ Kind \in [Event -> Kinds]
  /\ Revises \in [Event -> Event \cup {NoEvent}]
  /\ EventTime \in [Event -> Nat]
  /\ ObservedTime \in [Event -> Nat]
  /\ AsOf \subseteq Nat
  /\ \A e \in Event : Revises[e] = NoEvent <=> Kind[e] = "observation"
  /\ \A e \in Event :
       Revises[e] # NoEvent => EventTime[e] = EventTime[Revises[e]]

\* The events a sequence of appends holds.
Ids(s) == {s[i] : i \in 1..Len(s)}

\* Events some stored event revises, whatever its kind and observed_time.
Superseded(S) == {Revises[e] : e \in S} \ {NoEvent}

\* Events some stored retraction targets.
Retracted(S) == {Revises[e] : e \in {x \in S : Kind[x] = "retraction"}}

\* effective_events: retractions, superseded events, retracted events and the
\* direct revisions of a retracted event drop out.
Effective(S) ==
  {e \in S : /\ Kind[e] # "retraction"
             /\ e \notin Superseded(S)
             /\ e \notin Retracted(S)
             /\ Revises[e] \notin Retracted(S)}

\* events_as_of in filtering mode: the effective events observed by t.
KnownAsOf(S, t) == {e \in Effective(S) : ObservedTime[e] <= t}

-----------------------------------------------------------------------------
\* What the module's docstring promises of the views.

\* The event and all that its chain of revisions passes through.
Lineage(e) ==
  LET upto[n \in 0..Cardinality(Event)] ==
        IF n = 0 THEN {e}
        ELSE upto[n - 1] \cup ({Revises[x] : x \in upto[n - 1]} \ {NoEvent})
  IN  upto[Cardinality(Event)]

\* No effective event descends, at any depth, from a retracted event.
NoRetractedLineage(S) ==
  \A e \in Effective(S) : Lineage(e) \cap Retracted(S) = {}

\* The view as of t from the whole log is the one from the events known by t.
OnlyKnowable(S, t) ==
  KnownAsOf(S, t) = Effective({e \in S : ObservedTime[e] <= t})
=============================================================================
