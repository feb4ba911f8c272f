SPECIFICATION EitherSpec
CONSTANTS
  NumRequests = 2
  ShardSize = 2
  Workers = {w1, w2}
  NoWorker = NoWorker
  Chunk = 1
  Verdicts = {"accepted"}
  MayGiveUp = FALSE
  MaxFaults = 1
  Ids <- MCIds
  i1 = i1
  i2 = i2
  i3 = i3
  Setups <- MCSetups
  MinWorkers = 1
  MaxWorkers = 2
  LaunchPerTick = 2
  NoId = NoId
CHECK_DEADLOCK FALSE
INVARIANTS
  EveryMachineHasALiveRow
  NeverMoreThanMaxWorkers
PROPERTIES
  EveryRequestAnswered
  RunEnds
