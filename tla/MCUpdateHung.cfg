SPECIFICATION FairUpdateSpec
CONSTANTS
  Bit <- MCBit
  Addr <- MCAddr
  Sector <- MCSector
  SectorOf <- MCSectorOf
  MaxLen = 4
  VarNum = 3
  MAX_VAR_NUM_FUTURE = 4
  VarAddr <- MCVarAddr
  NumOf <- MCNumOf
  NumWord <- MCNumWord
  BOOT_PARAM_APP <- APP
  BOOT_PARAM_BL <- BL
  BOOT_PARAM_LOADING <- LOADING
  DEFAULT_POWERUP_VAL <- MCDefault
  Block <- MCBlock
  BlockAddr <- MCBlockAddr
  Version <- MCVersion
  ImgWord <- MCImgWord
  StackMask <- MCStackMask
  Refused = {}
  Setting <- MCSetting
  Budget <- HungBudget
PROPERTY FailedLoadGoesOn
CHECK_DEADLOCK FALSE
