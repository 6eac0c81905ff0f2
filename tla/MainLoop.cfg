SPECIFICATION FairMainSpec
CONSTANTS
  Modulus = 16
  Width = 8
  SysPeriod = 3
  Timer <- MCTimer
  Period <- MCPeriod
  Adapter = "adapter"
  Statistic = "statistic"
  CanTimer <- MCCanTimer
  MAX_ASYNC_TIME_NUM = 32
  NTask = 2
  CanTask = 2
  Dog = 2
  StartUp = 1
  MaxGap = 1
INVARIANTS
  MainTypeOK
  NothingDueForgotten
  LateAtMost
  AccountTrue
PROPERTIES
  NeverEarly
  KeepsFiring
