SPECIFICATION Spec
CONSTANTS
  Starter = {s1, s2}
  Missing = Missing
  Short = Short
  MaxStarts = 2
INVARIANT PersistedOnFirstRun
CHECK_DEADLOCK FALSE
