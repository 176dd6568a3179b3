SPECIFICATION FairSpec
CONSTANT N = 2
PROPERTY Periodic
CHECK_DEADLOCK FALSE
