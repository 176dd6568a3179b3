SPECIFICATION FairSpec
CONSTANTS
  N = 3
  Modes = {"relay", "direct", "both", "other"}
  MayPanic = TRUE
INVARIANTS TypeOK ReturnsClean EveryTurn
PROPERTIES DirectReturns StopIsFinal Advertises
CHECK_DEADLOCK FALSE
