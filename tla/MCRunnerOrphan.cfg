SPECIFICATION FairSpec
CONSTANTS
  N = 2
  Modes = {"both"}
  MayPanic = TRUE
PROPERTY AdvertisesWhileUp
CHECK_DEADLOCK FALSE
