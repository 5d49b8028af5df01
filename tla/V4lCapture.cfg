CONSTANTS
  MaxBufs = 4
  MayRestart = FALSE
SPECIFICATION FairSpec
INVARIANTS
  HeldIsOurs
  NoBufferLost
  NeverStarved
  MappingsReleased
PROPERTIES
  ImageArrives
CHECK_DEADLOCK FALSE
