SPECIFICATION FairLinkSpec
CONSTANTS
  Blocks = 3
  DataLen = 2
  BuffSize = 12
  MaxSockPbuf = 4
  Breaker = 10
  MaxLoss = 3
  MaxPause = 1
  MaxSlow = 3
  MaxSlowLoss = 0
INVARIANTS
  LinkTypeOK
PROPERTIES
  RefinesBlockTransfer
  LoadCompletes
  LoadHonest
CHECK_DEADLOCK FALSE
