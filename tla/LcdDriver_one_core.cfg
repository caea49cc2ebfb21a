SPECIFICATION FairLcdSpec
CONSTANTS
  NoReq = NoReq
  I2cDepth = 2
  Rows = 2
  Chunks = 1
  Pause = TRUE
  InitSteps = 2
  RgbWrites = 1
  EvDepth = 8
  Schedule = "one_core"
  MaxDraws = 1
  MaxFails = 1
INVARIANTS TextAfterInit
PROPERTY GreetingComes
