SPECIFICATION Spec
CONSTANTS
  SnMod = 2
  NBr = 2
  NCr = 2
  NBs = 2
  NCs = 2
  Dly = 1
  EndWait = 1
  RxBuf = 2
  TxBuf = 4
  MaxReq = 1
  MaxRes = 3
  Grants <- MCGrants
  FuncAnswered = TRUE
  LateWait = FALSE
  HastyRestart = FALSE
INVARIANTS ResponseIntact
