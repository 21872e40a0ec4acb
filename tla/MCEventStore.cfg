SPECIFICATION Spec
CONSTANTS
  Proc = {p1, p2}
  NoEvent = NoEvent
  Event <- MCEvent
  Kind <- MCKind
  Revises <- MCRevises
  EventTime <- MCEventTime
  ObservedTime <- MCObservedTime
  AsOf = {2, 3}
  Deployments <- AllDeployments
  KeepCheckpoints = 1
INVARIANTS
  TypeOK
  NoDoubleApply
  AckedIsDurable
  RevisedIsDurable
  MemoryIsDisk
  OrderlyVerifies
  CheckpointIsHistory
  CheckpointIsReplay
PROPERTY
  StartKnowsAll
SYMMETRY ProcSymmetry
CHECK_DEADLOCK FALSE
