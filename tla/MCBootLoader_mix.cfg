SPECIFICATION Spec
CONSTANTS
  AppFiles <- MCFiles
  Image <- MCImage
  Rows = 2
  MarkRow = 2
  S3 = 3
  Dw = 1
  Rst = 1
  SecurityNum = 2
  Delay = 1
  MaxCuts = 1
  MixFiles = TRUE
INVARIANTS InstalledIsSent
CHECK_DEADLOCK FALSE
