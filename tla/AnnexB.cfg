CONSTANTS
  MaxNalus = 2
  MaxNaluBytes = 3
  MaxRawBytes = 5
SPECIFICATION Spec
INVARIANTS
  CutsAsWritten
  NaluHasHeader
  NaluInsideBuffer
CHECK_DEADLOCK FALSE
