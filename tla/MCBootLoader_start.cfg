SPECIFICATION Spec
CONSTANTS
  AppFiles <- MCFiles
  Image <- MCImagePlain
  Rows = 2
  MarkRow = 2
  S3 = 3
  Dw = 1
  Rst = 1
  SecurityNum = 2
  Delay = 1
  MaxCuts = 1
  MixFiles = FALSE
INVARIANTS StartsVerified
CHECK_DEADLOCK FALSE
