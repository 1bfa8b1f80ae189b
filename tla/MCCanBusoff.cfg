SPECIFICATION Spec
CONSTANTS
  FastPeriod = 3
  SlowPeriod = 5
  FastTimes = 2
  SlowTimes = 1
INVARIANT StoppedWhileWaiting
PROPERTIES RestartBacksOff BusOffHandled Recovers
