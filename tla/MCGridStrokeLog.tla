--------------------------- MODULE MCGridStrokeLog ---------------------------
(* Two grids that share the seam vertex "s"; "a" lies in the first only.    *)
EXTENDS GridStrokeLog

TwoOcc == [v \in Verts |-> IF v = "s" THEN Grids ELSE {"g1"}]
TwoOwner == [v \in Verts |-> IF v = "s" THEN "g2" ELSE "g1"]
Paint == [paint |-> [type |-> "float", persist |-> TRUE, seed |-> 1]]
SomeKernels == {{"mask"}, {"paint"}, {"co", "paint"}}
=============================================================================
