SPECIFICATION Spec
CONSTANTS
  None = None
  Cases <- FlipCase
  MaxSteps = 2
  MaxRegion = 2
  StaleFreeze = TRUE
  Loose = FALSE
INVARIANT SnapshotCurrent
CHECK_DEADLOCK FALSE
