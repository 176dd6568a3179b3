SPECIFICATION Spec
CONSTANTS
  Starter = {s1, s2, s3}
  Missing = Missing
  Short = Short
  MaxStarts = 5
SYMMETRY StarterSymmetry
INVARIANTS TypeOK OneIdentity Persisted
PROPERTY Untouched
CHECK_DEADLOCK FALSE
