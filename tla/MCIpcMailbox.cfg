SPECIFICATION Spec
CONSTANTS
  Speeds = {1}
  FaultWords = {0, 1}
  Mask = 2048
  FaultEvery = 1
  MaxChanges = 2
PROPERTIES CommandArrives FaultArrives
