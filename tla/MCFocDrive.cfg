SPECIFICATION Spec
CONSTANTS
  Duration = 1
  CalCycles = 2
  MaxSpeed = 2
  TransitionUp = 1
INVARIANT MeasuredWhilePwm
PROPERTIES FaultStopsDrive FaultOutlasted FreshStart StopEnds Starts
