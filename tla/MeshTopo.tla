------------------------------ MODULE MeshTopo ------------------------------
(***************************************************************************)
(* The linked topology of a mesh and the primitives that edit it: disk     *)
(* cycles of edges around vertices, radial cycles of corners around edges, *)
(* loops of corners around faces.  A workspace w holds the mesh m, the     *)
(* records of the undo log's open topology chunk and the edit counter; a   *)
(* primitive takes a workspace to the next.  The rows of a mesh are        *)
(*   vert   the head of its disk cycle                                     *)
(*   edge   vs, disk[side].prev/next (links <<edge, side>>), c             *)
(*   corner v, e, l, next, prev, rnext, rprev                              *)
(*   list   c, f (its length is that of the loop)                          *)
(*   face   its list; a face has one                                       *)
(***************************************************************************)
EXTENDS Integers, SequencesExt

CONSTANT None  \* ELEM_NONE

Kinds == {"vert", "edge", "corner", "list", "face"}
Upto(n) == [i \in 1 .. n |-> i]

\* Op for each member of seq, on a value that TLC has worked out before the next.
Each(Op(_, _), base, seq) ==
    LET acc[i \in 0 .. Len(seq)] ==
          IF i = 0 THEN base ELSE CHOOSE r \in {Op(x, seq[i]) : x \in {acc[i - 1]}} : TRUE
    IN acc[Len(seq)]

(* Which free slot an allocation takes is the allocator's business; here it *)
(* is the lowest, so that dead slots are taken again at once.               *)

Fresh(w, k) == Min((1 .. Cardinality(DOMAIN w.m[k]) + 1) \ DOMAIN w.m[k])
Alloc(w, k, i, row) ==
    [w EXCEPT !.m[k] = [x \in DOMAIN @ \union {i} |-> IF x = i THEN row ELSE @[x]]]
Release(w, k, i) == [w EXCEPT !.m[k] = [x \in DOMAIN @ \ {i} |-> @[x]]]
Edited(w) == [w EXCEPT !.stamp = @ + 1]
-----------------------------------------------------------------------------
(* What the open topology chunk records of the events primitives announce. *)

Mapped(w, k, i) ==
    {n \in DOMAIN w.log : w.log[n].kind = k /\ w.log[n].id = i /\ w.log[n].fate = "live"}
Recorded(w, k, i, origin, fate, body) ==
    [w EXCEPT !.log = Append(@, [kind |-> k, id |-> i, origin |-> origin,
                                 fate |-> fate, body |-> body])]

OnChange(w, k, i) ==
    IF Mapped(w, k, i) # {} THEN w
    ELSE Recorded(w, k, i, "existed", "live", w.m[k][i])

OnCreate(w, k, i) == Recorded(w, k, i, "created", "live", None)

\* What was made since leaves no trace; what was there is dead from now on.
Buried(w, n) ==
    IF w.log[n].origin = "created" THEN [w EXCEPT !.log = RemoveAt(@, n)]
    ELSE [w EXCEPT !.log[n].fate = "dead"]

OnKill(w, k, i) ==
    IF Mapped(w, k, i) = {} THEN Recorded(w, k, i, "existed", "dead", w.m[k][i])
    ELSE Buried(w, CHOOSE n \in Mapped(w, k, i) : TRUE)

OnChanges(w, k, ids) == Each(LAMBDA x, i : OnChange(x, k, i), w, ids)
-----------------------------------------------------------------------------
(* Walks                                                                   *)

RECURSIVE Trace(_, _, _)

\* A path followed along succ until it comes back to where it started.
Trace(succ, path, bound) ==
    IF \/ succ[Last(path)] \in {path[1], None} \/ Len(path) >= bound
       \/ succ[Last(path)] \notin DOMAIN succ
    THEN path
    ELSE Trace(succ, Append(path, succ[Last(path)]), bound)

Side(m, e, v) == IF m.edge[e].vs[1] = v THEN 1 ELSE 2
Other(m, e, v) == IF m.edge[e].vs[1] = v THEN m.edge[e].vs[2] ELSE m.edge[e].vs[1]
At(m, e, v) == <<e, Side(m, e, v)>>
LinkRow(m, l) == m.edge[l[1]].disk[l[2]]

\* The edges at v in disk order (EdgeOfVertIter).
DiskLinks(m, v) ==
    Trace([l \in (DOMAIN m.edge) \X {1, 2} |-> LinkRow(m, l).next],
          <<At(m, m.vert[v], v)>>, 2 * Cardinality(DOMAIN m.edge))
Firsts(links) == [i \in DOMAIN links |-> links[i][1]]
Disk(m, v) == IF m.vert[v] = None THEN <<>> ELSE Firsts(DiskLinks(m, v))

Radial(m, e) ==
    IF m.edge[e].c = None THEN <<>>
    ELSE Trace([c \in DOMAIN m.corner |-> m.corner[c].rnext], <<m.edge[e].c>>,
               Cardinality(DOMAIN m.corner))

Loop(m, l) ==
    Trace([c \in DOMAIN m.corner |-> m.corner[c].next], <<m.list[l].c>>,
          Cardinality(DOMAIN m.corner))
Corners(m, f) == Loop(m, m.face[f])
VertsAt(m, cs) == [i \in DOMAIN cs |-> m.corner[cs[i]].v]
VertsOf(m, f) == VertsAt(m, Corners(m, f))
FaceOf(m, c) == m.list[m.corner[c].l].f
FacesOf(m, cs) == [i \in DOMAIN cs |-> FaceOf(m, cs[i])]

FirstOf(seq) == IF seq = <<>> THEN None ELSE Head(seq)
FindEdge(m, a, b) == FirstOf(SelectSeq(Disk(m, a), LAMBDA e : b \in ToSet(m.edge[e].vs)))
-----------------------------------------------------------------------------
(* Splices                                                                 *)

Link(w, l, dir, x) == [w EXCEPT !.m.edge[l[1]].disk[l[2]][dir] = x]

Between(w, prev, self, next) ==
    Link(Link(Link(Link(w, self, "prev", prev), self, "next", next),
              prev, "next", self), next, "prev", self)

\* At the tail of the cycle: before the head.
DiskInsert(w, e, v) ==
    IF w.m.vert[v] = None
    THEN Between([w EXCEPT !.m.vert[v] = e], At(w.m, e, v), At(w.m, e, v), At(w.m, e, v))
    ELSE Between(w, LinkRow(w.m, At(w.m, w.m.vert[v], v)).prev, At(w.m, e, v),
                 At(w.m, w.m.vert[v], v))

Headed(w, v, e, next) ==
    IF w.m.vert[v] # e THEN w
    ELSE [w EXCEPT !.m.vert[v] = IF next = e THEN None ELSE next]
Unlinked(w, e, v, row) ==
    Headed(Link(Link(w, row.prev, "next", row.next), row.next, "prev", row.prev),
           v, e, row.next[1])
DiskRemove(w, e, v) == Unlinked(w, e, v, LinkRow(w.m, At(w.m, e, v)))

RadialInsert(w, e, c) ==
    LET head == w.m.edge[e].c IN
      IF head = None
      THEN [w EXCEPT !.m.edge[e].c = c, !.m.corner[c].rnext = c, !.m.corner[c].rprev = c]
      ELSE [w EXCEPT !.m.corner[c].rprev = w.m.corner[head].rprev,
                     !.m.corner[c].rnext = head,
                     !.m.corner[w.m.corner[head].rprev].rnext = c,
                     !.m.corner[head].rprev = c]

RadialRemove(w, e, c) ==
    LET row == w.m.corner[c] IN
      [w EXCEPT !.m.edge[e].c = IF @ # c THEN @
                                ELSE IF row.rnext = c THEN None ELSE row.rnext,
                !.m.corner[row.rprev].rnext = row.rnext,
                !.m.corner[row.rnext].rprev = row.rprev]
-----------------------------------------------------------------------------
(* Announcements: the rows a splice is about to rewrite, before it does.   *)

\* Before an insertion at v: the head and the tail of the cycle.
AnnounceEnds(w, v) ==
    IF w.m.vert[v] = None THEN w
    ELSE OnChanges(w, "edge",
                   <<w.m.vert[v], LinkRow(w.m, At(w.m, w.m.vert[v], v)).prev[1]>>)

\* Mutant: the edge after it is forgotten.
AnnounceOneNeighbour(w, e, v) ==
    LET row == w.m.edge[e].disk[IF w.m.edge[e].vs[1] = v THEN 1 ELSE 2] IN
      OnChanges(w, "edge", SelectSeq(<<row.prev[1]>>, LAMBDA x : x # e))

\* Before e leaves the cycle of v: its neighbours.
AnnounceNeighbours(w, e, v) ==
    LET row == LinkRow(w.m, At(w.m, e, v)) IN
      OnChanges(w, "edge", SelectSeq(<<row.prev[1], row.next[1]>>, LAMBDA x : x # e))

\* Before a corner joins the cycle of e: the head and the tail.
AnnounceRadial(w, e) ==
    IF w.m.edge[e].c = None THEN w
    ELSE OnChanges(w, "corner", <<w.m.edge[e].c, w.m.corner[w.m.edge[e].c].rprev>>)
-----------------------------------------------------------------------------
(* Making                                                                  *)

VertexMade(w, v) == OnCreate(Alloc(w, "vert", v, None), "vert", v)
MakeVertex(w) == VertexMade(Edited(w), Fresh(w, "vert"))

NoSide == [prev |-> None, next |-> None]
NewEdge(w, e, a, b) ==
    Alloc(w, "edge", e, [vs |-> <<a, b>>, disk |-> <<NoSide, NoSide>>, c |-> None])
Entered(w, e, a, b) ==
    DiskInsert(DiskInsert(AnnounceEnds(AnnounceEnds(w, a), b), e, a), e, b)
EdgeMade(w, e, a, b) ==
    OnChanges(OnCreate(Entered(NewEdge(w, e, a, b), e, a, b), "edge", e), "vert", <<a, b>>)
MakeEdge(w, a, b) == EdgeMade(Edited(w), Fresh(w, "edge"), a, b)

\* A corner of list l at v, on edge e.
NewCorner(w, c, l, v, e) ==
    Alloc(w, "corner", c, [v |-> v, e |-> e, l |-> l, next |-> None, prev |-> None,
                           rnext |-> None, rprev |-> None])
Cornered(x, c, l, v, e) ==
    [w |-> RadialInsert(AnnounceRadial(NewCorner(x.w, c, l, v, e), e), e, c),
     cs |-> Append(x.cs, c)]
AllCornered(w, l, vs, es) ==
    Each(LAMBDA x, i : Cornered(x, Fresh(x.w, "corner"), l, vs[i], es[i]),
             [w |-> w, cs |-> <<>>], Upto(Len(vs)))

Cyclic(seq, i) == seq[((i + Len(seq) - 1) % Len(seq)) + 1]
Closed(x, l) ==
    [x EXCEPT !.w = Each(LAMBDA y, i : [y EXCEPT !.m.corner[x.cs[i]].next = Cyclic(x.cs, i + 1),
                                                     !.m.corner[x.cs[i]].prev = Cyclic(x.cs, i - 1)],
                             [@ EXCEPT !.m.list[l].c = x.cs[1]], Upto(Len(x.cs)))]

\* A new list and its corners for face f, without the events of the face.
Listed(w, f, l, vs, es) ==
    Closed(AllCornered(Alloc([w EXCEPT !.m.face[f] = l], "list", l, [c |-> None, f |-> f]),
                       l, vs, es), l)
Wired(w, f, vs, es) == Listed(w, f, Fresh(w, "list"), vs, es)

\* The events of a face's new corners and of the edges they joined.
AnnounceCorners(w, cs, es) ==
    Each(LAMBDA x, i : OnChange(OnCreate(x, "corner", cs[i]), "edge", es[i]),
             w, Upto(Len(cs)))
AnnounceList(x, f, es) ==
    AnnounceCorners(OnCreate(x.w, "list", x.w.m.face[f]), x.cs, es)

FaceMade(x, f, es) == AnnounceList([x EXCEPT !.w = OnCreate(@, "face", f)], f, es)
NewFace(w, f, vs, es) == FaceMade(Wired(Alloc(w, "face", f, None), f, vs, es), f, es)
MakeFaceOn(w, vs, es) == NewFace(Edited(w), Fresh(w, "face"), vs, es)

\* On the edges there are, made where there are none.
Joined(x, a, b, e) ==
    IF e # None THEN [x EXCEPT !.es = Append(@, e)]
    ELSE [w |-> MakeEdge(x.w, a, b), es |-> Append(x.es, Fresh(x.w, "edge"))]
AllJoined(w, vs) ==
    Each(LAMBDA x, i : Joined(x, vs[i], Cyclic(vs, i + 1),
                                  FindEdge(x.w.m, vs[i], Cyclic(vs, i + 1))),
             [w |-> w, es |-> <<>>], Upto(Len(vs)))
FacedOn(x, vs) == MakeFaceOn(x.w, vs, x.es)
MakeFace(w, vs) == FacedOn(AllJoined(w, vs), vs)
-----------------------------------------------------------------------------
(* Removal                                                                 *)

AnnounceCorner(w, row, c) ==
    OnChange(OnChanges(w, "corner", SelectSeq(<<row.rnext, row.rprev>>, LAMBDA x : x # c)),
             "edge", row.e)
DropCorner(w, c) ==
    Release(OnKill(RadialRemove(AnnounceCorner(w, w.m.corner[c], c), w.m.corner[c].e, c),
                   "corner", c), "corner", c)

DropList(w, l) ==
    Release(OnKill(Each(DropCorner, w, Loop(w.m, l)), "list", l), "list", l)

KillFace(w, f) ==
    Release(OnKill(DropList(Edited(w), w.m.face[f]), "face", f), "face", f)
KillFaces(w, fs) == Each(KillFace, w, fs)

LeaveDisks(w, e, a, b) ==
    DiskRemove(DiskRemove(AnnounceNeighbours(AnnounceNeighbours(w, e, a), e, b), e, a), e, b)
Cut(w, e, a, b) ==
    Release(OnChanges(OnKill(LeaveDisks(w, e, a, b), "edge", e), "vert", <<a, b>>), "edge", e)
KillEdge(w, e) ==
    Cut(KillFaces(Edited(w), FacesOf(w.m, Radial(w.m, e))),
        e, w.m.edge[e].vs[1], w.m.edge[e].vs[2])
KillEdges(w, es) == Each(KillEdge, w, es)

KillVertex(w, v) ==
    Release(OnKill(KillEdges(Edited(w), Disk(w.m, v)), "vert", v), "vert", v)
-----------------------------------------------------------------------------
(* Rewiring in place                                                       *)

Moved(w, e, a0, b0, a, b) ==
    OnChanges(Entered([LeaveDisks(OnChange(Edited(w), "edge", e), e, a0, b0) EXCEPT
                          !.m.edge[e].vs = <<a, b>>, !.m.edge[e].disk = <<NoSide, NoSide>>],
                      e, a, b),
              "vert", <<a0, b0, a, b>>)
RelinkEdge(w, e, a, b) == Moved(w, e, w.m.edge[e].vs[1], w.m.edge[e].vs[2], a, b)

ClearFace(w, f) ==
    [DropList(OnChange(Edited(w), "face", f), w.m.face[f]) EXCEPT !.m.face[f] = None]
ClearFaces(w, fs) == Each(ClearFace, w, fs)

ReinitFace(w, f, vs, es) ==
    OnChange(AnnounceList(Wired(Edited(w), f, vs, es), f, es), "face", f)
=============================================================================
