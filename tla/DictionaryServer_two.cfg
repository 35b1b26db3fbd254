SPECIFICATION FairSpec
CONSTANTS
  Sessions = {"a", "b"}
  Devices = {"d"}
  Values = {"off", "on"}
  Scripts <- scripts
  Heard <- heard
  Removed <- removed
  MaxSets = 2
  MaxPlugs = 1
  Nobody = "nobody"
  None = None
CHECK_DEADLOCK FALSE
INVARIANTS
  ViewCurrent
  LinkedWhileOpen
  RemoveFinds
PROPERTIES
  SessionEnds
  NewsReported
