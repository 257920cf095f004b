SPECIFICATION Spec
CONSTANTS
  Verts <- TwoVerts
  M = 2
  Cage <- TwoCage
  Stencil <- TwoStencil
  FullWeight <- TwoFullWeight
  LeastSquares <- TwoLeastSquares
  Layers = {"layer"}
  MaxLevels = 3
  Budget = 2
  Mirrors = {TRUE}
  Hosts <- AllHosts
  Imports = FALSE
  MaxEdits = 2
INVARIANTS TypeOK CacheCurrent BaselinesPinned SlotCurrent
PROPERTY StackSpec
CHECK_DEADLOCK FALSE
