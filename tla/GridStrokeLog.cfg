CONSTANTS
  Verts = {"a", "s"}
  Grids = {"g1", "g2"}
  Occ <- TwoOcc
  Owner <- TwoOwner
  Canon <- TwoOwner
  M = 2
  Depth = 3
  L = 2
  Layers <- Paint
  Kernels <- SomeKernels
  Removable = {"paint"}
  SeekAcross = FALSE
  MaxStrokes = 2
  MaxDabs = 2
  MaxCalls = 2
SPECIFICATION Spec
INVARIANTS StoreCoherent RestackIsIdentity DebtHonest
PROPERTY HistorySpec
CHECK_DEADLOCK FALSE
