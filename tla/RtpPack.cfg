CONSTANTS
  MaxNaluLen = 7
  MaxNalus = 2
  PktLens <- MCPktLens
  OutbufSize = 17
  SeqMod = 3
  TsMod = 256
  Millis <- MCMillis
  SSRC = 9
  ULongBytes = 4
SPECIFICATION FairSpec
INVARIANTS
  TypeOK
  FragmentsAddUp
  CopiesInBounds
  AbortsOnlyIfTooLong
PROPERTIES
  FragmentsChain
  ImplementsStream
  NaluEventuallyCloses
CHECK_DEADLOCK FALSE
