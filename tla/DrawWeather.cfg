\* The gate goes out during an in-between paint.
SPECIFICATION Spec
CONSTANTS
  Places = {0, 4}
  Settings <- GateSwitched
  Switches = {"logic"}
  MaxTicks = 4
  MaxSwitches = 1
CHECK_DEADLOCK FALSE
INVARIANT WeatherReadsItsOwn
