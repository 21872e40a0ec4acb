---------------------------- MODULE MCEventStore ----------------------------
(* Instances of EventStore for TLC. *)
EXTENDS EventStore, TLC

ProcSymmetry == Permutations(Proc)

\* An observation, an earlier one, and a correction of the first that becomes
\* known last.
MCKind == [e1 |-> "observation", e2 |-> "observation", c1 |-> "correction"]
MCRevises == [e1 |-> NoEvent, e2 |-> NoEvent, c1 |-> "e1"]
MCEventTime == [e1 |-> 2, e2 |-> 1, c1 |-> 2]
MCObservedTime == [e1 |-> 2, e2 |-> 1, c1 |-> 3]
MCEvent == DOMAIN MCKind

\* An observation, its correction, a correction of that, and a retraction of
\* the observation.
ChainKind == [e1 |-> "observation", c1 |-> "correction", c2 |-> "correction",
              r1 |-> "retraction"]
ChainRevises == [e1 |-> NoEvent, c1 |-> "e1", c2 |-> "c1", r1 |-> "e1"]
ChainTime == [e1 |-> 1, c1 |-> 1, c2 |-> 1, r1 |-> 1]
ChainEvent == DOMAIN ChainKind

D(b, x, f, s, n) == [backend |-> b, exclusive |-> x, failing |-> f,
                     shared |-> s, checkpoints |-> n]

\* Every backend and discipline the properties tell apart; the concurrent
\* writers do not checkpoint, no property speaks of theirs.
AllDeployments ==
  {D(b, TRUE, FALSE, s, 2) : b \in {"sqlite", "jsonl"}, s \in BOOLEAN}
  \cup {D(b, FALSE, FALSE, FALSE, 0) : b \in {"sqlite", "jsonl"}}
  \cup {D("sqlite", TRUE, TRUE, FALSE, 1)}
TwoWriters == {D("sqlite", FALSE, FALSE, FALSE, 0)}
FailingWriter == {D("sqlite", TRUE, TRUE, FALSE, 0)}
OneWriter == {D("sqlite", TRUE, FALSE, FALSE, 0)}
=============================================================================
