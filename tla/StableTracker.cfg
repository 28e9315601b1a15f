SPECIFICATION Spec
CONSTANTS
  Weights = {0, 1, 2}
  Units = {"kg"}
  MaxTime = 3
  MaxReadings = 4
  hold_duration = 2
  tolerance = 1
  None = None
INVARIANTS
  ReadyMeansHeld
  HeldMeansReady
CHECK_DEADLOCK FALSE
