SPECIFICATION FairSpec
CONSTANTS
  Ids = {i1}
  Bodies = {"q"}
  Empty = "q"
  Trim <- MCTrim
  Absent = Absent
  NoItems = NoItems
  Null = Null
  Error = Error
  Noise = {}
  InCap = 1
  OutCap = 1
  MaxAsked = 2
  MaxFaults = 1
  MayVanish = FALSE
  Conn = {c1}
  MayPanic = TRUE
INVARIANTS OneAtATime Owners
PROPERTIES NoStarvation
CHECK_DEADLOCK FALSE
