SPECIFICATION Spec
CONSTANTS
  Words <- MCWords
  PortOf <- MCPortOf
  Entries <- MCEntries
  MaxEntries = 2
  Hosts <- MCHosts
  Given <- MCGiven
  MaxLines = 3
  Known <- MCKnown
  Absent = Absent
INVARIANTS TypeOK AlwaysANode TlsOnlyRemote LastWins KeepsGoodEntries
CHECK_DEADLOCK FALSE
