CONSTANTS
  MaxBufs = 2
  MaxGop = 2
  PicLens <- MCPicLens
SPECIFICATION Spec
INVARIANTS
  ImageStays
  NoOverwrite
  StreamDecodable
  AllClosed
  NoneHalfOpen
PROPERTIES
  InterruptEnds
