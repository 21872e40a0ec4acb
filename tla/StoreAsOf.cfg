SPECIFICATION Spec
CONSTANTS
  Proc = {p1, p2}
  NoEvent = NoEvent
  Event <- MCEvent
  Kind <- MCKind
  Revises <- MCRevises
  EventTime <- MCEventTime
  ObservedTime <- MCObservedTime
  AsOf = {2, 3}
  Deployments <- OneWriter
  KeepCheckpoints = 1
INVARIANT
  AsOfIsKnowable
CHECK_DEADLOCK FALSE
