CONSTANTS
  MaxNaluLen = 3
  MaxNalus = 1
  PktLens <- MCPktLens
  OutbufSize = 17
  SeqMod = 3
  TsMod = 256
  Millis <- MCMillis
  SSRC = 9
  ULongBytes = 8
SPECIFICATION Spec
INVARIANTS
  SsrcConstant
CHECK_DEADLOCK FALSE
