SPECIFICATION Spec
CONSTANTS
  Proc = {p1, p2}
  NoEvent = NoEvent
  Event <- MCEvent
  Kind <- MCKind
  Revises <- MCRevises
  EventTime <- MCEventTime
  ObservedTime <- MCObservedTime
  AsOf = {2, 3}
  Deployments <- FailingWriter
  KeepCheckpoints = 1
INVARIANT
  RetryIsDurable
CHECK_DEADLOCK FALSE
