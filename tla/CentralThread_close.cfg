SPECIFICATION FairSpec
CONSTANTS
  Users = {u1}
  Handles = {h1}
  Managers = {}
  Pluggable = {h1}
  MaxOpens = 2
  MaxThreads = 2
  NoThread = NoThread
  NoHandle = NoHandle
CHECK_DEADLOCK FALSE
PROPERTY
  CallReturns
