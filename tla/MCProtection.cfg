\* Each kind of disturbed reading with every order of frames, commands and silence.
CONSTANTS
  Period = 2
  Tout = 4
  Cfm = 3
  Rec = 3
  TempLimit = 2
  DryLimit = 2
  VCfm = 2
  VRec = 3
  ICfm = 1
  PCfm = 2
  PLimit = 2
  RstrtDelay = 1
  RstDelay = 2
  ClearsAnyTime = FALSE
  Families <- MCFamilies
SPECIFICATION Spec
INVARIANTS HeaterStops DriveStops
PROPERTIES HeaterLocked Resumes
