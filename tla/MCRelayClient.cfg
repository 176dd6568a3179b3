SPECIFICATION FairSpec
CONSTANTS
  Ids = {i1, i2}
  Bodies = {" ", ""}
  Empty = ""
  Trim <- MCTrim
  Absent = Absent
  NoItems = NoItems
  Null = Null
  Error = Error
  Noise <- MCNoise
  InCap = 2
  OutCap = 2
  MaxAsked = 2
  MaxFaults = 2
  MayVanish = TRUE
  MayPanic = TRUE
INVARIANTS TypeOK InOrder LockScope
PROPERTIES SessionEndsForCause Implements Answered Reconnects
CHECK_DEADLOCK FALSE
