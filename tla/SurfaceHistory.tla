--------------------------- MODULE SurfaceHistory ---------------------------
(***************************************************************************)
(* What editing a mesh and its undo history promise: the document is a     *)
(* surface (vertices, edges as pairs of them, faces as the arcs of their   *)
(* loops), each operator replaces it as written here, and undo and redo    *)
(* (Timeline) give back exactly the surfaces there were.  An operator is a *)
(* relation of the surface d before and the surface e after.               *)
(***************************************************************************)
EXTENDS Timeline, FiniteSetsExt, Functions

Triangle(a, b, c) == {<<a, b>>, <<b, c>>, <<c, a>>}
EndsOf(arc) == {arc[1], arc[2]}
Sides(face) == {EndsOf(arc) : arc \in face}
SidesOf(faces) == UNION {Sides(f) : f \in faces}
Points(face) == {arc[1] : arc \in face}
Reversed(face) == {<<arc[2], arc[1]>> : arc \in face}
Carried(face, g) == {<<g[arc[1]], g[arc[2]]>> : arc \in face}
Linked(d) == [d EXCEPT !.edges = @ \cup SidesOf(d.faces)]
-----------------------------------------------------------------------------
(* Around an edge                                                          *)

Apex(face, side) == CHOOSE v \in Points(face) : v \notin side
Along(face, side) == CHOOSE arc \in face : EndsOf(arc) = side

\* The edge gets a vertex in the middle, which the triangles on it are cut from.
Pieces(arc, x, apex) == {Triangle(arc[1], x, apex), Triangle(x, arc[2], apex)}
Splits(d, side, x, on) ==
  Linked([verts |-> d.verts \cup {x},
          edges |-> (d.edges \ {side}) \cup {{v, x} : v \in side},
          faces |-> (d.faces \ on) \cup
                      UNION {Pieces(Along(f, side), x, Apex(f, side)) : f \in on}])
Split(d, e) ==
  \E side \in d.edges \ e.edges, x \in e.verts \ d.verts :
    e = Splits(d, side, x, {f \in d.faces : side \in Sides(f)})

\* Two triangles exchange their common edge for the other diagonal.
Flips(d, f, g, arc, c, apex) ==
  [d EXCEPT !.edges = (@ \ {EndsOf(arc)}) \cup {{c, apex}},
            !.faces = (@ \ {f, g}) \cup {Triangle(c, arc[1], apex), Triangle(apex, arc[2], c)}]
Flip(d, e) ==
  \E f \in d.faces \ e.faces, g \in d.faces \ e.faces : \E arc \in f :
    /\ <<arc[2], arc[1]>> \in g
    /\ e = Flips(d, f, g, arc, Apex(f, EndsOf(arc)), Apex(g, EndsOf(arc)))

(* A vertex moves onto a neighbour.  Faces that degenerate go; of two that *)
(* become the same but for their direction, one stays.                     *)
Onto(d, kill, keep) == [v \in d.verts |-> IF v = kill THEN keep ELSE v]
Proper(face) == Cardinality(face) >= 3 /\ Cardinality(Points(face)) = Cardinality(face)
Pressed(face, g) == {arc \in Carried(face, g) : arc[1] # arc[2]}
Images(d, kill, g) ==
  {f \in {Pressed(x, g) : x \in {y \in d.faces : kill \in Points(y)}} : Proper(f)}
Merges(d, e, kill, images, rest) ==
  /\ e.verts = d.verts \ {kill}
  /\ e.edges = {s \in d.edges : kill \notin s} \cup SidesOf(images)
  /\ rest \subseteq e.faces /\ e.faces \subseteq rest \cup images
  /\ \A f \in images : {f, Reversed(f)} \cap e.faces # {}
  /\ \A f \in images \ rest : ~{f, Reversed(f)} \subseteq e.faces
Collapse(d, e) ==
  \E kill \in d.verts \ e.verts : \E keep \in UNION {s \in d.edges : kill \in s} :
    Merges(d, e, kill, Images(d, kill, Onto(d, kill, keep)),
           {f \in d.faces : kill \notin Points(f)})

\* A polygon becomes the fan of one of its vertices.
FanFrom(face, v) ==
  {Triangle(v, arc[1], arc[2]) : arc \in {a \in face : v \notin EndsOf(a)}}
Triangulate(d, e) ==
  \E f \in d.faces \ e.faces : \E v \in Points(f) :
    e = Linked([d EXCEPT !.faces = (@ \ {f}) \cup FanFrom(f, v)])
-----------------------------------------------------------------------------
(* Regions: the faces that take copies of their vertices are those gone.   *)

Uses(side, faces) == Cardinality({f \in faces : side \in Sides(f)})
Rim(region) == {arc \in UNION region : Uses(EndsOf(arc), region) = 1}
Orphans(d, region) ==
  {s \in SidesOf(region) : Uses(s, region) # 1 /\ Uses(s, d.faces \ region) = 0}
Trimmed(d, points) ==
  [d EXCEPT !.verts = {v \in @ : v \notin points \/ v \in UNION d.edges}]
Moving(d, f) == [v \in d.verts |-> IF v \in DOMAIN f THEN f[v] ELSE v]
Moved(region, g) == {Carried(f, g) : f \in region}

\* The region is replaced by its copy and by what is put between them.
Replaces(d, region, g, copies, between) ==
  Linked(Trimmed([verts |-> d.verts \cup copies,
                  edges |-> (d.edges \ Orphans(d, region)) \cup SidesOf(between),
                  faces |-> (d.faces \ region) \cup between \cup Moved(region, g)],
                 UNION {Points(f) : f \in region}))
Walls(region, g) ==
  {{arc, <<arc[2], g[arc[2]]>>, <<g[arc[2]], g[arc[1]]>>, <<g[arc[1]], arc[1]>>} :
     arc \in Rim(region)}

Copying(d, e, region, copies, Between(_, _)) ==
  \E f \in Bijection(UNION {Points(x) : x \in region}, copies) : \E g \in {Moving(d, f)} :
    e = Replaces(d, region, g, copies, Between(region, g))
Detach(d, e) == Copying(d, e, d.faces \ e.faces, e.verts \ d.verts, LAMBDA r, g : {})
Extrude(d, e) == Copying(d, e, d.faces \ e.faces, e.verts \ d.verts, Walls)

\* A loose edge grows from a vertex.
Stick(d, e) ==
  \E v \in d.verts, x \in e.verts \ d.verts :
    e = [d EXCEPT !.verts = @ \cup {x}, !.edges = @ \cup {{v, x}}]

(* A ring of three edges is cut.  The faces on its right hold on to copies *)
(* of its vertices, and each side is closed with a triangle.               *)
Spokes(faces, ring) == {s \in SidesOf(faces) : Cardinality(s \cap ring) = 1}
Parts(d, region, cap) ==
  /\ cap \subseteq UNION region /\ Reversed(cap) \subseteq UNION (d.faces \ region)
  /\ \A f \in region : Points(f) \cap Points(cap) # {}
  /\ Spokes(region, Points(cap)) \cap Spokes(d.faces \ region, Points(cap)) = {}
Severed(d, region, g, copies, cap) ==
  Linked([verts |-> d.verts \cup copies,
          edges |-> d.edges \ Spokes(region, Points(cap)),
          faces |-> (d.faces \ region) \cup Moved(region, g)
                      \cup {cap, Carried(Reversed(cap), g)}])
Severs(d, e, region, copies, cap) ==
  /\ Parts(d, region, cap)
  /\ \E f \in Bijection(Points(cap), copies) : e = Severed(d, region, Moving(d, f), copies, cap)
Pinch(d, e) ==
  \E cap \in {f \in e.faces \ d.faces : Points(f) \subseteq d.verts} :
    Severs(d, e, d.faces \ e.faces, e.verts \ d.verts, cap)
-----------------------------------------------------------------------------
Operate ==
  /\ open /\ UNCHANGED <<open, past, future>>
  /\ \E d \in {doc}, e \in {doc'} :
       \/ Split(d, e) \/ Flip(d, e) \/ Collapse(d, e) \/ Triangulate(d, e)
       \/ Detach(d, e) \/ Extrude(d, e) \/ Stick(d, e) \/ Pinch(d, e)

\* A step that moves vertices and leaves the surface as it is.
Stroke ==
  /\ ~open /\ UNCHANGED <<open, doc>>
  /\ past' = Append(past, doc) /\ future' = <<>>

Close == open /\ open' = FALSE /\ UNCHANGED <<past, future, doc>>

SurfaceNext == Operate \/ Begin \/ Close \/ Stroke \/ Undo \/ Redo

SurfaceSpec == Init /\ [][SurfaceNext]_vars
=============================================================================
