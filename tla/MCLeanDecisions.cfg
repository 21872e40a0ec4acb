SPECIFICATION Spec
CONSTANTS
  Thread = {"t1", "t2", "t3", "t4"}
  Key = {"k1", "k2", "k3", "k4"}
  None = "none"
  MaxCalls = 2
  MaxRetries = 1
  Workers = 2
  Order <- MCOrder
  ContextOf <- MCContextOf
INVARIANTS
  TypeOK
  WakeupIsComing
  CapsHold
PROPERTIES
  TemplateStays
  AllAnswered
CHECK_DEADLOCK FALSE
