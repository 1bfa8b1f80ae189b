SPECIFICATION Spec
CONSTANTS
  Asked <- MCAll
  Dids <- MCTwo
  S3 = 4
  Dly = 1
  After = 1
  GoReset = 1
  Warm = 3
  Per10 = 2
  Lag = 1
  EarlyWrites = TRUE
PROPERTIES WritesStored
