SPECIFICATION Spec
CONSTANTS
  Words <- MCWords
  PortOf <- MCPortOf
  Entries <- MCEntries
  MaxEntries = 2
  Hosts <- MCHosts
  Given <- MCGiven
  MaxLines = 2
  Known <- MCKnown
  Absent = Absent
INVARIANT UrlNamesNode
CHECK_DEADLOCK FALSE
