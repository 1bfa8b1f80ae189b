\* Demonstration: the clear bit of the last frame is applied by every pass, so that an
\* over-current confirmed between two sendings of the fault word never reaches the drive.
CONSTANTS
  Period = 1
  Tout = 3
  Cfm = 2
  Rec = 3
  TempLimit = 2
  DryLimit = 2
  VCfm = 2
  VRec = 3
  ICfm = 1
  PCfm = 2
  PLimit = 2
  RstrtDelay = 1
  RstDelay = 2
  ClearsAnyTime = TRUE
  Families <- MCCurrent
SPECIFICATION Spec
INVARIANT DriveStops
