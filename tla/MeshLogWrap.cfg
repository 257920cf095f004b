CONSTANTS
  e1 = e1
  e2 = e2
  co = co
  color = color
  link = link
  Elems = {e1, e2}
  Cols = {co}
  TopoCols = {}
  Default = 0
  Vals = {0, 1}
  Kernels <- PositionKernel
  Modes = {"brush"}
  Styles <- Real
  NoElem = NoElem
  InitLive <- OneLive
  InitRow <- OneRow
  StrokeMod = 2
  MaxStrokes = 4
  MaxLog = 4
  MaxChunks = 4
  Limits <- NoLimit
SPECIFICATION Spec
PROPERTY UndoTargetFixed
CHECK_DEADLOCK FALSE
