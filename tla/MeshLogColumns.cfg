CONSTANTS
  e1 = e1
  e2 = e2
  co = co
  color = color
  link = link
  Elems = {e1, e2}
  Cols = {co, color}
  TopoCols = {}
  Default = 0
  Vals = {0, 1}
  Kernels <- MixedKernels
  Modes = {"brush"}
  Styles <- Real
  NoElem = NoElem
  InitLive <- AllLive
  InitRow <- OneRow
  StrokeMod = 10
  MaxStrokes = 1
  MaxLog = 4
  MaxChunks = 4
  Limits <- NoLimit
SPECIFICATION Spec
PROPERTY UndoTargetFixed
CHECK_DEADLOCK FALSE
