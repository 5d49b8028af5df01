CONSTANTS
  None = None
  Loaded = loaded
  Idle = idle
  Executing = executing
  InOff = in_off
  OutOff = out_off
  InOn = in_on
  OutOn = out_on
  NumEvents = 11
  MaxWork = 2
  MaxGiven = 2
  StateCommands <- MCStateCommands
  DisableCommands <- MCDisableCommands
  EnableCommands <- MCEnableCommands
  OtherErrors <- MCOtherErrors
  Notices <- MCNotices
SPECIFICATION OmxSpec
INVARIANTS
  WholeFrames
CHECK_DEADLOCK FALSE
