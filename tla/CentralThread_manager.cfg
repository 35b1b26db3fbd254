SPECIFICATION Spec
CONSTANTS
  Users = {u1}
  Handles = {h1}
  Managers = {h1}
  Pluggable = {}
  MaxOpens = 3
  MaxThreads = 3
  NoThread = NoThread
  NoHandle = NoHandle
CHECK_DEADLOCK FALSE
INVARIANT
  LoopsWhileOpen
