SPECIFICATION Spec
CONSTANTS
  Actor = {"a", "b", "p"}
  Promotable = {"p"}
  Member = {"a", "b"}
  Required = {"a"}
  ActorOrder <- MCActorOrder
  Option = {"yes", "no"}
  OptionOrder <- MCOptionOrder
  Action = {"pass", "novel", "more"}
  Template <- MCTemplate
  NoTemplate = NoTemplate
  Blueprint <- MCBlueprint
  MaxNovel = 1
  AbstentionAllowed = TRUE
  Unanimity = TRUE
  Deadline = 3
  MissingFact = {"fact"}
  Reply <- MCReply
  NoReply = NoReply
  Variant = {"a1", "a2", "b1", "unknown"}
  UnknownState = "unknown"
  None = "none"
  Shared = {"tense", "calm"}
  Support <- MCSupport
  Schedule <- MCSchedule
  Weight <- MCWeight
  Horizon = 4
  MaxNodes = 3
INVARIANTS
  TypeOK
  MassIsKept
  OwnStates
  NodesDiffer
  UnknownStaysOpen
  WaitReopens
PROPERTIES
  ResolvedIsFinal
  ExactWorlds
  RunEnds
CHECK_DEADLOCK FALSE
