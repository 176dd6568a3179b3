SPECIFICATION FairSpec
CONSTANTS
  Conn = {c1, c2}
  Bodies = {" q", "q"}
  Absent = Absent
  NoItems = NoItems
  Null = Null
  Error = Error
  MayPanic = TRUE
INVARIANTS TypeOK RepliesMatch EachOnce LockScope
PROPERTIES Implements Served
CHECK_DEADLOCK FALSE
