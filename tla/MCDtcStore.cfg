SPECIFICATION Spec
CONSTANTS
  Items <- MCItems
  FirstItem = "status"
  ItemAddr <- MCAddr
  ItemLen <- MCLen
  ItemArea <- MCArea
  Cells = 12
  SectorCells = 6
  PageCells = 2
  BufCells = 6
  TempCells = 8
  WrCntNum = 2
  Data <- Contents
  Zero <- ZeroCell
  Erased <- ErasedCell
  Junk <- JunkCell
  MaxFails = 1
  Dtcs <- MCDtcs
  Active <- MCActive
  Failing <- MCFailing
  Earlier <- MCEarlier
  WrWait = 12
  ClrWait = 1
  MaxCuts = 1
  MaxEvents = 2
INVARIANTS StaysInArea FramesWhole SuccessIsStored Remembered
PROPERTY StatusStored
CHECK_DEADLOCK FALSE
