---------------------------- MODULE MCSpatialTree ----------------------------
(* A strip of four triangles over six vertices, in two leaves, with room   *)
(* for two more vertices and two more faces; and one of three triangles    *)
(* over five vertices, whose leaves may shrink until they fold.            *)
EXTENDS SpatialTree

Strip == <<{1, 2, 3}, {2, 3, 4}, {3, 4, 5}, {4, 5, 6}>>
ShortStrip == SubSeq(Strip, 1, 3)
StripTriples ==
    Range(Strip) \cup {{1, 2, 4}, {1, 3, 4}, {1, 2, 7}, {5, 6, 7}, {6, 7, 8}}
StripTouches == {{2}, {4}, {5}, {3, 4}}

Scene(start, e, k, d, r, s) ==
    [start |-> start, may |-> StripTriples,
     edits |-> e, kills |-> k, dabs |-> d, replays |-> r, steps |-> s]
Making(may, scene) == [scene EXCEPT !.may = may]
AllScenes == {
    Scene(Strip, 2, 0, 0, 0, 0),       \* two leaves grow and split together
    \* edits and dabs, undone and redone
    Making({{1, 2, 7}, {1, 3, 4}, {6, 7, 8}}, Scene(Strip, 1, 0, 1, 1, 0)),
    Scene(Strip, 0, 1, 1, 1, 0),       \* kills too
    Scene(Strip, 0, 0, 2, 1, 0),       \* dabs, frames, rollbacks
    Scene(Strip, 0, 0, 1, 1, 1),       \* reorders, rebuilds, new steps
    Scene(Strip, 1, 1, 0, 0, 0),       \* a split finds vertices without a face
    \* a vertex is made, loses the face its leaf took it for, and is undone
    Making({{1, 2, 7}, {5, 6, 7}}, Scene(Strip, 2, 1, 0, 1, 0)),
    \* a face apart from the others
    Making({{6, 7, 8}, {1, 2, 7}}, Scene(ShortStrip, 1, 0, 0, 0, 1)),
    Scene(ShortStrip, 0, 3, 1, 0, 0)}  \* leaves shrink and fold
DabScene == {Scene(Strip, 0, 0, 2, 1, 0)}
MixedScene == {Scene(Strip, 1, 0, 1, 1, 0)}
=============================================================================
