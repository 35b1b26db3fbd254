SPECIFICATION Spec
CONSTANTS
  Users = {"a", "b"}
  Sensors = {1, 2}
  Outputs = {1, 2}
  Triggers = {0, 5}
  Rates = {1, 2, 3, 4}
  InterruptRate = 2
  DataRateMax = 1
  DataRateMin = 4
  MaxDataPerPacket = 3
  Scripts <- scripts
  MaxCount = 3
  Patient = TRUE
  Nobody = Nobody
  Unknown = Unknown
CHECK_DEADLOCK FALSE
INVARIANTS
  DeviceConfigured
  ShownAsMeasured
  ToldWithinTrigger
  EchoTold
