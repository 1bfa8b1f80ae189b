SPECIFICATION Spec
CONSTANTS
  Duration = 1
  CalCycles = 2
  MaxSpeed = 2
  TransitionUp = 1
PROPERTIES DisableStopsPwm
