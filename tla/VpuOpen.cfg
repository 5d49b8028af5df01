CONSTANTS
  NumFrameBufs = 8
  MinFbCounts <- MCMinFbCounts
SPECIFICATION Spec
INVARIANTS
  InOnePlace
  DescriptorsKept
  FramesAccounted
  OpenHasAllFrames
  NothingLeft
CHECK_DEADLOCK FALSE
