SPECIFICATION Spec
CONSTANTS
  AppFiles <- MCFile
  Image <- MCImageOne
  Rows = 2
  MarkRow = 2
  S3 = 3
  Dw = 1
  Rst = 1
  SecurityNum = 1
  Delay = 1
  MaxCuts = 1
  MixFiles = FALSE
PROPERTIES PendingAnswered ComesBack
CHECK_DEADLOCK FALSE
