\* For ImportLands: Hosts <- ImportHost, Imports = TRUE and PROPERTY ImportLands.
SPECIFICATION Spec
CONSTANTS
  Verts <- TwoVerts
  M = 2
  Cage <- TwoCage
  Stencil <- TwoStencil
  FullWeight <- TwoFullWeight
  LeastSquares <- TwoLeastSquares
  Layers = {}
  MaxLevels = 2
  Budget = 1
  Mirrors = {FALSE}
  Hosts <- GridHost
  Imports = FALSE
  MaxEdits = 2
INVARIANTS SlotCurrent
CHECK_DEADLOCK FALSE
