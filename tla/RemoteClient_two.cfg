SPECIFICATION FairSpec
CONSTANTS
  Handles = {h1, h2}
  ErrorHandlers = {h1, h2}
  Records = {s1}
  None = None
  MaxFaults = 1
  MaxOpens = 2
CHECK_DEADLOCK FALSE
INVARIANT
  NoStalePointer
PROPERTIES
  Reconnects
  SilenceNoticed
  CallsReturn
