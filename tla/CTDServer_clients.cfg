SPECIFICATION Spec
CONSTANTS
  Sockets = {"s1", "s2"}
  Sensors = {4, 7}
  MaxReadings = 2
  MaxTicks = 1
CHECK_DEADLOCK FALSE
INVARIANTS
  OneMessagePerEvent
