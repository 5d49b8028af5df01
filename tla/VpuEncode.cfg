CONSTANTS
  Handles = {h1, h2}
  MaxGop = 2
  OneAtATime = TRUE
SPECIFICATION FairSpec
INVARIANTS
  HeadersInOrder
  GopInStep
  HeadersReady
  HeadersBeforeIntra
PROPERTIES
  HeaderLoopEnds
CHECK_DEADLOCK FALSE
