SPECIFICATION FairSpec
CONSTANTS
  Ids = {i1}
  Bodies = {" ", ""}
  Empty = ""
  Trim <- MCTrim
  Absent = Absent
  NoItems = NoItems
  Null = Null
  Error = Error
  Noise <- MCNoise
  InCap = 1
  OutCap = 1
  MaxAsked = 2
  MaxFaults = 1
  MayVanish = TRUE
  MayPanic = FALSE
PROPERTIES AlwaysReconnects
CHECK_DEADLOCK FALSE
