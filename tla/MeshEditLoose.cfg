SPECIFICATION Spec
CONSTANTS
  None = None
  Cases <- LooseCases
  MaxSteps = 2
  MaxRegion = 2
  StaleFreeze = FALSE
  Loose = TRUE
INVARIANT MeshSound
CHECK_DEADLOCK FALSE
