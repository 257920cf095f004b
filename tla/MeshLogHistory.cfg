CONSTANTS
  e1 = e1
  e2 = e2
  co = co
  color = color
  link = link
  Elems = {e1, e2}
  Cols = {co}
  TopoCols = {}
  Default = 0
  Vals = {0, 1}
  Kernels <- PositionKernel
  Modes = {"op", "select"}
  Styles <- Real
  NoElem = NoElem
  InitLive <- OneLive
  InitRow <- OneRow
  StrokeMod = 10
  MaxStrokes = 3
  MaxLog = 1
  MaxChunks = 2
  Limits = {1}
SPECIFICATION Spec
INVARIANT TypeOK
PROPERTY HistorySpec
SYMMETRY Symmetry
CHECK_DEADLOCK FALSE
