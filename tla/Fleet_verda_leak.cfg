SPECIFICATION FleetSpec
CONSTANTS
  Ids <- MCIds
  i1 = i1
  i2 = i2
  Setups <- MCVerda
  MinWorkers = 1
  MaxWorkers = 2
  LaunchPerTick = 2
  NoId = NoId
CHECK_DEADLOCK FALSE
INVARIANT NothingLeftRunning
