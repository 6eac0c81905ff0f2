SPECIFICATION FairLineSpec
CONSTANTS
  FrameLen = 5
  BufLen <- MCBufLen
  Header <- MCHeader
  Fill <- MCFill
  Expected <- MCExpected
  MaxEarly = 1
  MaxLate = 3
INVARIANTS
  LineTypeOK
  NotCutOff
  MissedOnlyIfEarly
PROPERTIES
  VerdictIsFresh
  TestEnds
