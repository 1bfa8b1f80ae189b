SPECIFICATION Spec
CONSTANTS
  Asked <- MCAll
  Dids <- MCDid
  S3 = 4
  Dly = 1
  After = 1
  GoReset = 1
  Warm = 1
  Per10 = 2
  Lag = 1
  EarlyWrites = FALSE
PROPERTIES ResetKeepsWrites
