SPECIFICATION Spec
CONSTANTS
  SnMod = 2
  NBr = 2
  NCr = 2
  NBs = 2
  NCs = 2
  Dly = 1
  EndWait = 1
  RxBuf = 3
  TxBuf = 2
  MaxReq = 3
  MaxRes = 2
  Grants <- MCGrants
  FuncAnswered = FALSE
  LateWait = FALSE
  HastyRestart = TRUE
INVARIANTS RequestIntact
