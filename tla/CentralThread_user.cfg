SPECIFICATION FairSpec
CONSTANTS
  Users = {u1}
  Handles = {h1, h2}
  Managers = {h2}
  Pluggable = {h1}
  MaxOpens = 3
  MaxThreads = 3
  NoThread = NoThread
  NoHandle = NoHandle
CHECK_DEADLOCK FALSE
INVARIANTS
  CentralRuns
  CentralGone
PROPERTIES
  AttachEventually
  HangsOnlyInAttach
