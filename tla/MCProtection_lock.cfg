\* Demonstration: a fault cleared while the drive is locked after over-power lets it run
\* without any supervision of its power until the lock's time has passed standing.
CONSTANTS
  Period = 1
  Tout = 3
  Cfm = 2
  Rec = 3
  TempLimit = 2
  DryLimit = 2
  VCfm = 2
  VRec = 3
  ICfm = 1
  PCfm = 2
  PLimit = 2
  RstrtDelay = 1
  RstDelay = 2
  ClearsAnyTime = TRUE
  Families <- MCPower
SPECIFICATION Spec
INVARIANT DriveStops
