CONSTANTS
  Handles = {h1, h2}
  MaxGop = 2
  OneAtATime = FALSE
SPECIFICATION Spec
INVARIANTS
  HeadersInOrder
CHECK_DEADLOCK FALSE
