CONSTANTS
  e1 = e1
  e2 = e2
  co = co
  color = color
  link = link
  Elems = {e1, e2}
  Cols = {co}
  TopoCols = {}
  Default = 0
  Vals = {0, 1}
  Kernels <- PositionKernel
  Modes = {"dyntopo"}
  Styles <- Mixed
  NoElem = NoElem
  InitLive <- AllLive
  InitRow <- OneRow
  StrokeMod = 10
  MaxStrokes = 1
  MaxLog = 3
  MaxChunks = 4
  Limits <- NoLimit
SPECIFICATION Spec
PROPERTY UndoTargetFixed
CHECK_DEADLOCK FALSE
