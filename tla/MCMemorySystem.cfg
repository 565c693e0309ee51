CONSTANTS
  N = 2
  AddrSpan = 16
  Addr = {0, 8}
  Data <- MCTwoBlocks
  Beat = {"b0", "b1", "b2"}
  ZeroBeat = "b0"
  WriteCycleDelay = 2
  AFull = 3
  Lag = 2
  Writer = {1}
SPECIFICATION Spec
INVARIANTS
  TypeOK
  AcceptsWhenIdle
  DirectionMatches
  AnswerHasOwner
  BeatsPaired
PROPERTIES
  PromiseKept
CHECK_DEADLOCK TRUE
