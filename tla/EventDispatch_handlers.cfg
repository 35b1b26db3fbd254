SPECIFICATION FairSpec
CONSTANTS
  Handles = {h1}
  Users = {u1}
  CallsIn <- handlerCalls
  MaxCalls = 3
  MaxPlugs = 2
  Slots = {1, 2}
  Nobody = Nobody
  Central = Central
CHECK_DEADLOCK FALSE
INVARIANTS
  QuietWhenClosed
  ManagerView
  ManagerQuiet
PROPERTIES
  ImplementsHandleLife
  CallsReturn
  UnplugDetaches
