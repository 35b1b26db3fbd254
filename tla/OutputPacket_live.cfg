SPECIFICATION FairSpec
CONSTANTS
  Setters = {s1, s2}
  MaxSets = 2
  MaxSessions = 2
  Awdc = FALSE
  SpuriousWakeups = FALSE
  NoThread = NoThread
  NoPacket = NoPacket
CHECK_DEADLOCK FALSE
INVARIANTS
  NoLostWakeup
  Converged
  WireInOrder
  NoTransferWhileClosing
PROPERTIES
  SetReturns
  CloseReturns
  ImplementsChannel
