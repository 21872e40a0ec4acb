SPECIFICATION Spec
CONSTANTS
  Process = {"p", "q"}
  Fact = {"truce", "pact", "ruling"}
  Vote = {"vote"}
  Breaker = {"break"}
  Other = {"other"}
  Mode = {"p", "q", "entailed", "ruling", "vote"}
  NoMode = "none"
  ModeOf <- MCModeOf
  Window <- MCWindow
  Late = {}
  Initial <- MCInitial
  Horizon = 5
  MaxGeneration = 1
INVARIANTS
  TypeOK
  StampIsFirstPassage
  ClaimIsChecked
PROPERTIES
  AnswerIsFinal
  HeldWholeWindow
  ProvisionalResolves
CHECK_DEADLOCK FALSE
