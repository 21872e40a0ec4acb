SPECIFICATION Spec
CONSTANTS
  Item = {"m1", "m2", "c1", "g1"}
  Channel = {"mail", "call", ""}
  Semantic = {"m1", "m2", "g1"}
  NoEvent = "none"
  General = {""}
  Persistent = {"mail"}
  Deep = {"g1"}
  ChannelOf <- MCChannelOf
  EventOf <- MCEventOf
  Rank <- MCRank
  BundleCap = 3
  ViewCap = 2
  KeysCap = 1
  MaxInvocations = 2
  MaxEvents = 8
  Horizon = 1
INVARIANTS
  TypeOK
  AttentionIsComing
  ItemsAreKept
PROPERTIES
  Noticed
CHECK_DEADLOCK FALSE
