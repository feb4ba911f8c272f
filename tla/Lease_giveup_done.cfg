CONSTANTS
  NumRequests = 2
  ShardSize = 2
  Workers = {w1, w2}
  NoWorker = NoWorker
  Chunk = 1
  Verdicts = {"accepted"}
  MayGiveUp = TRUE
  MaxFaults = 1
SPECIFICATION Spec
SYMMETRY Symmetry
INVARIANT ClosedMeansAnswered
