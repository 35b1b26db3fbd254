SPECIFICATION Spec
CONSTANTS
  Handles = {"a", "b"}
  Devices = {"d1", "d2"}
  Labels = {"l1", "l2"}
  LabelOf <- labelOf
  Requests <- mixed
  MaxAddress = 2
  SlowReplug = FALSE
  NoDevice = NoDevice
  NoLabel = NoLabel
CHECK_DEADLOCK FALSE
INVARIANTS
  RequestHonoured
PROPERTY
  SpecificFirst
