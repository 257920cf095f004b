SPECIFICATION Spec
CONSTANTS
  Verts = {1, 2, 3, 4, 5, 6, 7, 8}
  Faces = {1, 2, 3, 4, 5, 6}
  LeafLimit = 4
  DepthLimit = 3
  Touches <- StripTouches
  Share = 1
  Waits = {"replay", "dab"}
  RowsCount = FALSE
  Scenarios <- AllScenes
INVARIANT NormalsHalfRefreshes
CHECK_DEADLOCK FALSE
