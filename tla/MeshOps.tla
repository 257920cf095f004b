------------------------------- MODULE MeshOps -------------------------------
(***************************************************************************)
(* Operators of the mesh, compositions of the primitives of MeshTopo: edge *)
(* split, flip and collapse, the fan of a polygon, detaching and extruding *)
(* a region of faces, cutting along a ring of three edges that is no face. *)
(* Can... holds the refusals of an operator; attributes are left out.      *)
(***************************************************************************)
EXTENDS MeshTopo

Unique(seq) == Each(LAMBDA q, x : IF x \in ToSet(q) THEN q ELSE Append(q, x), <<>>, seq)
Gathered(F(_), seq) == Unique(Each(LAMBDA q, x : q \o F(x), <<>>, seq))

FacesAt(m, v) == Gathered(LAMBDA e : FacesOf(m, Radial(m, e)), Disk(m, v))
Neighbours(m, v) == {Other(m, e, v) : e \in ToSet(Disk(m, v))}
EdgesAt(m, cs) == [i \in DOMAIN cs |-> m.corner[cs[i]].e]
EdgesOf(m, f) == EdgesAt(m, Corners(m, f))
IsTriangle(m, f) == Len(Corners(m, f)) = 3
MakeFaces(w, seqs) == Each(MakeFace, w, seqs)
-----------------------------------------------------------------------------
(* Split                                                                   *)

\* The triangle of a corner on the edge: a -> b along it, opp across.
Wing(m, cA, cB, cOpp) ==
    [f |-> FaceOf(m, cA), a |-> m.corner[cA].v, b |-> m.corner[cB].v,
     opp |-> m.corner[cOpp].v, toOpp |-> m.corner[cB].e, fromOpp |-> m.corner[cOpp].e]
WingAt(m, c) == Wing(m, c, m.corner[c].next, m.corner[m.corner[c].next].next)
Wings(m, e) == LET cs == Radial(m, e) IN [i \in DOMAIN cs |-> WingAt(m, cs[i])]

CanSplit(m, e) == \A c \in ToSet(Radial(m, e)) : IsTriangle(m, FaceOf(m, c))

\* The first half takes the face over, the second is new.
Halves(w, g, vm, spoke, e1, e2) ==
    MakeFaceOn(ReinitFace(w, g.f, <<g.a, vm, g.opp>>, <<e1, spoke, g.fromOpp>>),
               <<vm, g.b, g.opp>>, <<e2, g.toOpp, spoke>>)
Halved(w, g, vm, v0, e, eNew) ==
    Halves(MakeEdge(w, vm, g.opp), g, vm, Fresh(w, "edge"),
           IF g.a = v0 THEN e ELSE eNew, IF g.b = v0 THEN e ELSE eNew)

\* The edge becomes v0 - vm, a new one is vm - v1.
Parted(w, e, v0, vm, v1) == MakeEdge(RelinkEdge(w, e, v0, vm), vm, v1)
SplitAt(w, wings, e, vs, vm, eNew) ==
    Each(LAMBDA x, g : Halved(x, g, vm, vs[1], e, eNew),
             Parted(ClearFaces(MakeVertex(w), [i \in DOMAIN wings |-> wings[i].f]),
                    e, vs[1], vm, vs[2]),
             wings)
SplitEdge(w, e) ==
    SplitAt(w, Wings(w.m, e), e, w.m.edge[e].vs, Fresh(w, "vert"), Fresh(w, "edge"))
-----------------------------------------------------------------------------
(* Flip                                                                    *)

CornersFrom(m, c) == <<c, m.corner[c].next, m.corner[m.corner[c].next].next>>
ApexOf(m, c) == m.corner[CornersFrom(m, c)[3]].v

\* The corner of the face that runs along the edge from a.
CornerFrom(m, e, a) == SelectSeq(Radial(m, e), LAMBDA c : m.corner[c].v = a)[1]

CanFlip(m, e) ==
    LET cs == Radial(m, e) IN
      /\ Len(cs) = 2 /\ \A c \in ToSet(cs) : IsTriangle(m, FaceOf(m, c))
      /\ ToSet(VertsAt(m, cs)) = ToSet(m.edge[e].vs)
      /\ ApexOf(m, cs[1]) # ApexOf(m, cs[2])
      /\ FindEdge(m, ApexOf(m, cs[1]), ApexOf(m, cs[2])) = None

Looped(m, p) ==
    [m EXCEPT !.corner = [c \in DOMAIN @ |->
        IF c \notin ToSet(p) THEN @[c]
        ELSE LET i == CHOOSE i \in 1 .. 3 : p[i] = c IN
               [@[c] EXCEPT !.next = Cyclic(p, i + 1), !.prev = Cyclic(p, i - 1)]]]

\* Mutant: the lists keep the corners they began with.
RewiredHeadless(m, p, q, c, d) ==
    Looped(Looped([m EXCEPT !.corner[p[1]].v = d, !.corner[q[1]].v = c,
                            !.corner[q[2]].l = m.corner[p[1]].l,
                            !.corner[p[2]].l = m.corner[q[1]].l],
                  <<p[3], q[2], p[1]>>), <<q[3], p[2], q[1]>>)

\* p[2] and q[2] change sides, p[1] and q[1] move to the new ends.
Rewired(m, p, q, c, d) ==
    Looped(Looped([m EXCEPT !.corner[p[1]].v = d, !.corner[q[1]].v = c,
                            !.corner[q[2]].l = m.corner[p[1]].l,
                            !.corner[p[2]].l = m.corner[q[1]].l,
                            !.list[m.corner[p[1]].l].c = p[3],
                            !.list[m.corner[q[1]].l].c = q[3]],
                  <<p[3], q[2], p[1]>>), <<q[3], p[2], q[1]>>)

Flipped(w, e, p, q, c, d) ==
    OnChanges([RelinkEdge(OnChanges(OnChanges(w, "corner", p \o q), "list",
                                    <<w.m.corner[p[1]].l, w.m.corner[q[1]].l>>), e, c, d)
                 EXCEPT !.m = Rewired(@, p, q, c, d)],
              "face", <<FaceOf(w.m, p[1]), FaceOf(w.m, q[1])>>)
FlippedOn(w, e, p, q) == Flipped(w, e, p, q, w.m.corner[p[3]].v, w.m.corner[q[3]].v)
FlipEdge(w, e) ==
    FlippedOn(w, e, CornersFrom(w.m, CornerFrom(w.m, e, w.m.edge[e].vs[1])),
              CornersFrom(w.m, CornerFrom(w.m, e, w.m.edge[e].vs[2])))
-----------------------------------------------------------------------------
(* Collapse: vs[1] is kept, vs[2] goes.                                    *)

Common(m, keep, kill) == (Neighbours(m, keep) \intersect Neighbours(m, kill)) \ {keep}

TetOnEdge(m, a, b, c, d) ==
    LET e == FindEdge(m, c, d) IN
      e # None /\ {a, b} \subseteq {ApexOf(m, x) : x \in {y \in ToSet(Radial(m, e)) :
                                                          IsTriangle(m, FaceOf(m, y))}}
IsTet(m, keep, kill, cs) ==
    /\ Len(cs) = 2 /\ \A c \in ToSet(cs) : IsTriangle(m, FaceOf(m, c))
    /\ Len(Disk(m, kill)) = 3 /\ Cardinality(Neighbours(m, keep)) = 3
    /\ TetOnEdge(m, keep, kill, ApexOf(m, cs[1]), ApexOf(m, cs[2]))

CanCollapse(m, e) ==
    LET keep == m.edge[e].vs[1]   kill == m.edge[e].vs[2] IN
      /\ Cardinality(Common(m, keep, kill)) <= Len(Radial(m, e))
      /\ ~IsTet(m, keep, kill, Radial(m, e))

Replaced(seq, kill, keep) == [i \in DOMAIN seq |-> IF seq[i] = kill THEN keep ELSE seq[i]]
Unrepeated(seq) ==
    Each(LAMBDA q, v : IF q # <<>> /\ Last(q) = v THEN q ELSE Append(q, v), <<>>, seq)
Unwrapped(seq) == IF Len(seq) >= 2 /\ Head(seq) = Last(seq) THEN Front(seq) ELSE seq
IsPolygon(seq) == Len(seq) >= 3 /\ Cardinality(ToSet(seq)) = Len(seq)

\* The same for every rotation and both directions of a loop (faceKey).
FaceKey(seq) == {{seq[i], Cyclic(seq, i + 1)} : i \in DOMAIN seq}
Distinct(seqs) ==
    Each(LAMBDA q, s : IF \E t \in ToSet(q) : FaceKey(t) = FaceKey(s) THEN q
                           ELSE Append(q, s), <<>>, seqs)
Remapped(seqs, kill, keep) ==
    Distinct(SelectSeq([i \in DOMAIN seqs |-> Unwrapped(Unrepeated(Replaced(seqs[i], kill, keep)))],
                       IsPolygon))

Isolated(w, v) == KillVertex(KillEdges(w, Disk(w.m, v)), v)
Merged(w, keep, kill, fs) ==
    MakeFaces(Isolated(KillFaces(w, fs), kill),
              Remapped([i \in DOMAIN fs |-> VertsOf(w.m, fs[i])], kill, keep))
CollapseOnto(w, keep, kill) == Merged(w, keep, kill, FacesAt(w.m, kill))
CollapseEdge(w, e) == CollapseOnto(w, w.m.edge[e].vs[1], w.m.edge[e].vs[2])
-----------------------------------------------------------------------------
(* Fan                                                                     *)

FanOf(vs) == [i \in 1 .. Len(vs) - 2 |-> <<vs[1], vs[i + 1], vs[i + 2]>>]
TriangulateFan(w, f) == MakeFaces(KillFace(w, f), FanOf(VertsOf(w.m, f)))
-----------------------------------------------------------------------------
(* Regions: faces fs in mesh order.                                        *)

RegionVerts(m, fs) == Gathered(LAMBDA f : VertsOf(m, f), fs)
RegionEdges(m, fs) == Gathered(LAMBDA f : EdgesOf(m, f), fs)
OnBoundary(m, fs, e) ==
    Len(SelectSeq(FacesOf(m, Radial(m, e)), LAMBDA f : f \in ToSet(fs))) = 1
Boundary(m, fs) == {e \in ToSet(RegionEdges(m, fs)) : OnBoundary(m, fs, e)}

\* as[i] is the copy of vs[i].
Copied(w, vs) ==
    Each(LAMBDA x, v : [w |-> MakeVertex(x.w), as |-> Append(x.as, Fresh(x.w, "vert"))],
             [w |-> w, as |-> <<>>], vs)
CopyOf(vs, as, v) ==
    IF v \in ToSet(vs) THEN as[CHOOSE i \in DOMAIN vs : vs[i] = v] ELSE v
CopiesOf(vs, as, seq) == [i \in DOMAIN seq |-> CopyOf(vs, as, seq[i])]

\* A quad between each boundary edge of the loop and its copy.
SideQuad(w, vs, as, a, b, edges) ==
    IF FindEdge(w.m, a, b) \in edges
    THEN MakeFace(w, <<a, b, CopyOf(vs, as, b), CopyOf(vs, as, a)>>) ELSE w
SideQuads(w, vs, as, seq, edges) ==
    Each(LAMBDA x, i : SideQuad(x, vs, as, seq[i], Cyclic(seq, i + 1), edges),
             w, Upto(Len(seq)))
Capped(w, vs, as, seqs, edges) ==
    Each(LAMBDA x, seq : SideQuads(MakeFace(x, CopiesOf(vs, as, seq)), vs, as, seq, edges),
             w, seqs)

KillBare(w, e) == IF w.m.edge[e].c = None THEN KillEdge(w, e) ELSE w
KillLone(w, v) == IF w.m.vert[v] = None THEN KillVertex(w, v) ELSE w
Deselected(w, vs) == OnChanges(w, "vert", SelectSeq(vs, LAMBDA v : v \in DOMAIN w.m.vert))
TornDown(w, fs, vs, es) ==
    Deselected(Each(KillLone, Each(KillBare, KillFaces(w, fs), es), vs), vs)

Duplicated(x, m, fs, edges) ==
    TornDown(Capped(x.w, RegionVerts(m, fs), x.as, [i \in DOMAIN fs |-> VertsOf(m, fs[i])], edges),
             fs, RegionVerts(m, fs),
             SelectSeq(RegionEdges(m, fs), LAMBDA e : ~OnBoundary(m, fs, e)))

SplitFacesOff(w, fs) == Duplicated(Copied(w, RegionVerts(w.m, fs)), w.m, fs, {})
ExtrudeRegion(w, fs) == Duplicated(Copied(w, RegionVerts(w.m, fs)), w.m, fs, Boundary(w.m, fs))

Stuck(w, v, v2) == OnChange(MakeEdge(MakeVertex(w), v, v2), "vert", v)
ExtrudeWireVert(w, v) == Stuck(w, v, Fresh(w, "vert"))
-----------------------------------------------------------------------------
(* Pinch: the ring a -> b -> c -> a is cut; the faces on its right are     *)
(* moved to copies of a, b, c and both sides are closed with a triangle.   *)

RingEdges(m, ring) == [i \in 1 .. 3 |-> FindEdge(m, ring[i], Cyclic(ring, i + 1))]
Fan(m, ring) == Gathered(LAMBDA v : FacesAt(m, v), ring)
IsSpoke(m, ring, e) == Cardinality(ToSet(m.edge[e].vs) \intersect ToSet(ring)) = 1

\* The face whose loop runs along the edge from v.
FacesFrom(m, e, v) ==
    {FaceOf(m, c) : c \in {x \in ToSet(Radial(m, e)) : m.corner[x].v = v}}
Grown(m, ring, fan, side) ==
    side \union {f \in fan : \E g \in side, e \in ToSet(EdgesOf(m, f)) :
                                IsSpoke(m, ring, e) /\ e \in ToSet(EdgesOf(m, g))}
Flood(m, ring, fan, seeds) ==
    Each(LAMBDA side, i : Grown(m, ring, fan, side), seeds, Upto(Cardinality(fan)))
LeftSide(m, ring, es) ==
    Flood(m, ring, ToSet(Fan(m, ring)), UNION {FacesFrom(m, es[i], ring[i]) : i \in 1 .. 3})
RightSide(m, ring, es) ==
    Flood(m, ring, ToSet(Fan(m, ring)),
          UNION {FacesFrom(m, es[i], Cyclic(ring, i + 1)) : i \in 1 .. 3})

\* A closed, consistently oriented neighbourhood that the ring parts in two.
CanPinch(m, ring) ==
    /\ None \notin ToSet(RingEdges(m, ring))
    /\ \A v \in ToSet(ring), e \in DOMAIN m.edge :
         v \in ToSet(m.edge[e].vs) => Len(Radial(m, e)) = 2
    /\ \A f \in ToSet(Fan(m, ring)) : IsTriangle(m, f) /\ ToSet(VertsOf(m, f)) # ToSet(ring)
    /\ \A i \in 1 .. 3 : \A v \in {ring[i], Cyclic(ring, i + 1)} :
         FacesFrom(m, RingEdges(m, ring)[i], v) # {}
    /\ \E l \in {LeftSide(m, ring, RingEdges(m, ring))},
          r \in {RightSide(m, ring, RingEdges(m, ring))} :
         l \intersect r = {} /\ l \union r = ToSet(Fan(m, ring))

Relinked(w, vs, as, e) ==
    RelinkEdge(w, e, CopyOf(vs, as, w.m.edge[e].vs[1]), CopyOf(vs, as, w.m.edge[e].vs[2]))
Twinned(w, as) ==
    Each(LAMBDA x, i : [w |-> MakeEdge(x.w, as[i], Cyclic(as, i + 1)),
                            es |-> Append(x.es, Fresh(x.w, "edge"))],
             [w |-> w, es |-> <<>>], Upto(3))

\* m is the mesh before the cut, fs the faces on the right.
Sewn(x, m, ring, as, es, fs) ==
    Each(LAMBDA y, f : ReinitFace(y, f, CopiesOf(ring, as, VertsOf(m, f)),
                                      CopiesOf(es, x.es, EdgesOf(m, f))), x.w, fs)
Caps(w, ring, es, as, twins) ==
    MakeFaceOn(MakeFaceOn(w, <<ring[1], ring[3], ring[2]>>, <<es[3], es[2], es[1]>>), as, twins)
Shut(x, m, ring, as, es, fs) == Caps(Sewn(x, m, ring, as, es, fs), ring, es, as, x.es)

Spokes(m, ring, fs) ==
    SelectSeq(Gathered(LAMBDA f : EdgesOf(m, f), fs), LAMBDA e : IsSpoke(m, ring, e))
CutOff(x, m, ring, es, fs) ==
    Shut(Twinned(Each(LAMBDA y, e : Relinked(y, ring, x.as, e),
                          ClearFaces(x.w, fs), Spokes(m, ring, fs)), x.as),
         m, ring, x.as, es, fs)
PinchAlong(w, ring, es) ==
    CutOff(Copied(w, ring), w.m, ring, es,
           SelectSeq(Fan(w.m, ring), LAMBDA f : f \in RightSide(w.m, ring, es)))
PinchRing(w, ring) == PinchAlong(w, ring, RingEdges(w.m, ring))
=============================================================================
