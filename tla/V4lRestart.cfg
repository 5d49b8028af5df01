CONSTANTS
  MaxBufs = 2
  MayRestart = TRUE
SPECIFICATION FairSpec
INVARIANTS
  PutOnlyIfNotQueued
CHECK_DEADLOCK FALSE
