SPECIFICATION LinkSpec
CONSTANTS
  Blocks = 3
  DataLen = 2
  BuffSize = 12
  MaxSockPbuf = 4
  Breaker = 20
  MaxLoss = 0
  MaxPause = 0
  MaxSlow = 1
  MaxSlowLoss = 1
INVARIANT SuccessMeansWritten
CHECK_DEADLOCK FALSE
