CONSTANTS
  e1 = e1
  e2 = e2
  co = co
  color = color
  link = link
  Elems = {e1, e2}
  Cols = {co, link}
  TopoCols = {link}
  Default = 0
  Vals = {0, 1}
  Kernels <- PositionKernel
  Modes = {"brush", "dyntopo"}
  Styles <- RealOrPreview
  NoElem = NoElem
  InitLive <- OneLive
  InitRow <- OneRow
  StrokeMod = 10
  MaxStrokes = 1
  MaxLog = 2
  MaxChunks = 4
  Limits <- NoLimit
SPECIFICATION Spec
INVARIANTS GateHonest StampsSound TopoOwnedStayGated
PROPERTIES HistorySpec PreviewVanishes
SYMMETRY Symmetry
CHECK_DEADLOCK FALSE
