SPECIFICATION FairSpec
CONSTANTS
  Handles = {"a", "b"}
  Devices = {"d1", "d2"}
  Labels = {"l1", "l2"}
  LabelOf <- labelOf
  Requests <- distinct
  MaxAddress = 2
  SlowReplug = TRUE
  NoDevice = NoDevice
  NoLabel = NoLabel
CHECK_DEADLOCK FALSE
INVARIANT
  RegisteredWhileOpened
PROPERTIES
  WantedServed
  SerialErrorCycled
