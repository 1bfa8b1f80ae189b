SPECIFICATION Spec
CONSTANTS
  Words = 8
  MainWords = 4
  RowWords = 2
  SectorWords = 2
  WordBytes = 2
  Data <- MCData
  Erased = Erased
  Junk = Junk
  Depth = 2
  BufWords = 3
  Timeout = 2
  Requests <- MCRequests
  Faults = FALSE
  Late = TRUE
PROPERTY LateResponseIgnored
CHECK_DEADLOCK FALSE
