CONSTANTS
  Handles = {h1}
  MaxGop = 2
  OneAtATime = TRUE
SPECIFICATION Spec
INVARIANTS
  ForcedIsIntra
CHECK_DEADLOCK FALSE
