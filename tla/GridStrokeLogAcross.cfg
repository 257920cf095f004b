CONSTANTS
  Verts = {"a", "s"}
  Grids = {"g1", "g2"}
  Occ <- TwoOcc
  Owner <- TwoOwner
  Canon <- TwoOwner
  M = 2
  Depth = 3
  L = 2
  Layers <- Paint
  Kernels <- SomeKernels
  Removable = {"paint"}
  SeekAcross = TRUE
  MaxStrokes = 2
  MaxDabs = 2
  MaxCalls = 1
SPECIFICATION Spec
INVARIANT DebtHonest
CHECK_DEADLOCK FALSE
