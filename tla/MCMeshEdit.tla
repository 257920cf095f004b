----------------------------- MODULE MCMeshEdit -----------------------------
(***************************************************************************)
(* Small surfaces to edit, each with the operators that have something to  *)
(* do on it.                                                               *)
(***************************************************************************)
EXTENDS MeshEdit

\* Two triangles on an edge; four closed; three on one edge; a quad and a
\* triangle; two cones on a ring of three edges that is no face.
Pair == <<<<1, 2, 3>>, <<2, 1, 4>>>>
Tetrahedron == <<<<1, 2, 3>>, <<2, 1, 4>>, <<3, 2, 4>>, <<1, 3, 4>>>>
Book == <<<<1, 2, 3>>, <<2, 1, 4>>, <<1, 2, 5>>>>
Tent == <<<<1, 2, 3, 4>>, <<2, 1, 5>>>>
Bipyramid == <<<<1, 2, 4>>, <<2, 3, 4>>, <<3, 1, 4>>, <<2, 1, 5>>, <<3, 2, 5>>, <<1, 3, 5>>>>

Session(seed, n, used) == [seed |-> seed, edits |-> n, ops |-> used]

MCCases ==
  {Session(Pair, 2, {"split", "flip", "collapse"}),
   Session(Tent, 2, {"fan", "collapse", "detach"}),
   Session(Bipyramid, 2, {"flip", "pinch"}),
   Session(Tetrahedron, 1, {"split", "collapse", "detach"}),
   Session(Book, 1, {"split", "flip", "collapse", "detach", "extrude"}),
   Session(Tent, 1, {"extrude", "stick"}),
   Session(Bipyramid, 1, {"split", "collapse", "extrude"})}

\* A step on two triangles, which is undone, between strokes.
FlipCase == {Session(Pair, 3, {"flip"})}

\* Cutting corners off a quad and a triangle.
LooseCases == {Session(Tent, 2, {"fan", "collapse", "detach", "stick"})}
=============================================================================
