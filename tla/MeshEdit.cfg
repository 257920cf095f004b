SPECIFICATION Spec
CONSTANTS
  None = None
  Cases <- MCCases
  MaxSteps = 2
  MaxRegion = 2
  StaleFreeze = FALSE
  Loose = FALSE
INVARIANT MeshSound
PROPERTIES SurfaceSpec ThawRestores
CHECK_DEADLOCK FALSE
