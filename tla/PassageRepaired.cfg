SPECIFICATION Spec
CONSTANTS
  Process = {"p", "q"}
  Fact = {"truce", "pact", "ruling"}
  Vote = {"vote"}
  Breaker = {"break"}
  Other = {"other"}
  Mode = {"p", "q", "entailed", "ruling", "vote"}
  NoMode = "none"
  ModeOf <- MCModeOf
  Window <- MCWindow
  Late = {"institutional_decision"}
  Initial <- MCRepaired
  Horizon = 5
  MaxGeneration = 1
INVARIANT
  StampIsFirstPassage
CHECK_DEADLOCK FALSE
