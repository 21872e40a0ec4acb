SPECIFICATION Spec
CONSTANTS
  Proc = {p1, p2}
  NoEvent = NoEvent
  Event <- ChainEvent
  Kind <- ChainKind
  Revises <- ChainRevises
  EventTime <- ChainTime
  ObservedTime <- ChainTime
  AsOf = {2, 3}
  Deployments <- OneWriter
  KeepCheckpoints = 1
INVARIANT
  RetractedStaysOut
CHECK_DEADLOCK FALSE
