SPECIFICATION Spec
CONSTANTS
  Label <- MCLabel
  Path <- MCPath
  Reads <- MCReads
  Writes <- MCWrites
  FollowUps <- MCFollowUps
  Actor = {"invoke"}
  Hazard = {"shock"}
  Process = {"settle"}
  Crossing <- MCCrossing
  Check <- MCCheck
  ProcessReads <- MCProcessReads
  Condition = {"reply"}
  Awaits <- MCAwaits
  Wakes <- MCWakes
  Watch = {"watch"}
  WatchPath <- MCWatchPath
  WatchEvent <- MCWatchEvent
  Initial <- MCInitial
  Horizon = 2
  MicrostepLimit = 2
  SafetyMax = 6
  MaxInvocations = 2
  MaxFires = 2
  MaxGeneration = 2
INVARIANTS
  TypeOK
  DependentsWait
  OneCurrentCrossing
  OneArrivalPerHazard
PROPERTIES
  Simulates
  HaltStopsClock
  Termination
CHECK_DEADLOCK FALSE
