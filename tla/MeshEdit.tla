------------------------------ MODULE MeshEdit ------------------------------
(***************************************************************************)
(* A mesh edited in undoable steps.  Operators (MeshOps) run in an open    *)
(* step, whose topology chunks record the rows they rewrite; undo and redo *)
(* exchange rows with the chunks.  A stroke that only moves vertices       *)
(* freezes the links: the pages are freed and a snapshot of the cycles     *)
(* stands for them until they are thawed.  While frozen, mesh is what the  *)
(* links were; nothing reads it but the properties.                        *)
(***************************************************************************)
EXTENDS MeshOps

CONSTANTS
  Cases,      \* sessions: [seed |-> loops of the faces, ops |-> operators used,
              \*   edits |-> how many, a bound]
  MaxSteps,   \* bound: steps of the history
  MaxRegion,  \* bound: faces of a region
  StaleFreeze, \* may a stroke start where the last snapshot is out of date
  Loose       \* may operators meet vertices of fewer than two edges

VARIABLES
  mesh,         \* the rows, as in MeshTopo
  topo_stamp,   \* counts topology edits
  topo_frozen,  \* are the links freed
  frozen,       \* MeshTopoCache::frozen, None before the first
  frozen_stamp, \* topo_stamp when it was built
  open,         \* is a step open
  log,          \* records of the topology chunk that is active
  chunks,       \* those the open step has finished
  entries,      \* the steps, each the sequence of its topology chunks
  cur,          \* steps before it are done, those after it undone
  past, future, \* surfaces of the done and the undone steps
  ops,          \* operators this session uses
  edits         \* how many it has left

surface == <<mesh, topo_stamp>>
steps == <<open, log, chunks, entries, cur>>
ghosts == <<past, future, ops>>
vars == <<surface, topo_frozen, frozen, frozen_stamp, steps, ghosts, edits>>

Work == [m |-> mesh, log |-> log, stamp |-> topo_stamp]
Bare == [k \in Kinds |-> <<>>]

Arcs(vs) == {<<vs[i], Cyclic(vs, i + 1)>> : i \in DOMAIN vs}
Surface(m) ==
  [verts |-> DOMAIN m.vert, edges |-> {ToSet(m.edge[e].vs) : e \in DOMAIN m.edge},
   faces |-> {Arcs(VertsOf(m, f)) : f \in DOMAIN m.face}]

Seeded(case) ==
  MakeFaces(Each(LAMBDA w, i : MakeVertex(w), [m |-> Bare, log |-> <<>>, stamp |-> 0],
                     Upto(Cardinality(UNION {ToSet(vs) : vs \in ToSet(case.seed)}))),
            case.seed)

Init ==
  /\ \E case \in Cases : ops = case.ops /\ edits = case.edits /\ \E w \in {Seeded(case)} :
       mesh = w.m /\ topo_stamp = w.stamp
  /\ topo_frozen = FALSE /\ frozen = None /\ frozen_stamp = None
  /\ open = FALSE /\ log = <<>> /\ chunks = <<>> /\ entries = <<>> /\ cur = 0
  /\ past = <<>> /\ future = <<>>
-----------------------------------------------------------------------------
(* Steps                                                                   *)

\* What the chunk made is kept as it is at its end, what it changed as it was.
Finalized(m, recs) ==
  [n \in DOMAIN recs |->
     IF recs[n].origin = "created" THEN [recs[n] EXCEPT !.body = m[recs[n].kind][recs[n].id]]
     ELSE recs[n]]

\* An operator starts on live links.
BeginStep ==
  /\ ~open /\ ~topo_frozen /\ edits > 0 /\ cur < MaxSteps
  /\ Loose \/ \A v \in DOMAIN mesh.vert : Len(Disk(mesh, v)) >= 2
  /\ open' = TRUE /\ log' = <<>> /\ chunks' = <<>>
  /\ entries' = SubSeq(entries, 1, cur)
  /\ past' = Append(past, Surface(mesh)) /\ future' = <<>>
  /\ UNCHANGED <<surface, topo_frozen, frozen, frozen_stamp, cur, ops, edits>>

\* The next dab records into a chunk of its own.
NextDab ==
  /\ open /\ log # <<>>
  /\ chunks' = Append(chunks, Finalized(mesh, log)) /\ log' = <<>>
  /\ UNCHANGED <<surface, topo_frozen, frozen, frozen_stamp, open, entries, cur, ghosts, edits>>

EndStep ==
  /\ open /\ open' = FALSE
  /\ entries' = Append(entries, Append(chunks, Finalized(mesh, log)))
  /\ cur' = cur + 1 /\ log' = <<>> /\ chunks' = <<>>
  /\ UNCHANGED <<surface, topo_frozen, frozen, frozen_stamp, ghosts, edits>>
-----------------------------------------------------------------------------
(* Operators                                                               *)

Ready(op) == open /\ ~topo_frozen /\ op \in ops /\ edits > 0
Becomes(w) ==
  /\ mesh' = w.m /\ log' = w.log /\ topo_stamp' = w.stamp /\ edits' = edits - 1
  /\ UNCHANGED <<topo_frozen, frozen, frozen_stamp, open, chunks, entries, cur, ghosts>>

SplitStep == Ready("split") /\ \E e \in DOMAIN mesh.edge :
  CanSplit(mesh, e) /\ Becomes(SplitEdge(Work, e))
FlipStep == Ready("flip") /\ \E e \in DOMAIN mesh.edge :
  CanFlip(mesh, e) /\ Becomes(FlipEdge(Work, e))
CollapseStep == Ready("collapse") /\ \E e \in DOMAIN mesh.edge :
  CanCollapse(mesh, e) /\ Becomes(CollapseEdge(Work, e))
FanStep == Ready("fan") /\ \E f \in DOMAIN mesh.face :
  ~IsTriangle(mesh, f) /\ Becomes(TriangulateFan(Work, f))

Regions ==
  {SetToSortSeq(r, <) : r \in {s \in SUBSET DOMAIN mesh.face : Cardinality(s) \in 1 .. MaxRegion}}
DetachStep == Ready("detach") /\ \E fs \in Regions : Becomes(SplitFacesOff(Work, fs))
ExtrudeStep == Ready("extrude") /\ \E fs \in Regions : Becomes(ExtrudeRegion(Work, fs))
StickStep == Ready("stick") /\ \E v \in DOMAIN mesh.vert : Becomes(ExtrudeWireVert(Work, v))

Rings == {r \in [1 .. 3 -> DOMAIN mesh.vert] : r[1] < r[2] /\ r[1] < r[3] /\ r[2] # r[3]}
PinchStep == Ready("pinch") /\ \E ring \in Rings :
  CanPinch(mesh, ring) /\ Becomes(PinchRing(Work, ring))
-----------------------------------------------------------------------------
(* Frozen links                                                            *)

Snapshot(m) ==
  [ends |-> [e \in DOMAIN m.edge |-> m.edge[e].vs],
   disks |-> [v \in DOMAIN m.vert |-> Disk(m, v)],
   radials |-> [e \in DOMAIN m.edge |-> Radial(m, e)],
   lists |-> m.face,
   loops |-> [l \in DOMAIN m.list |-> Loop(m, l)]]

Place(seq, x) == CHOOSE i \in DOMAIN seq : seq[i] = x
Before(seq, x) == Cyclic(seq, Place(seq, x) - 1)
After(seq, x) == Cyclic(seq, Place(seq, x) + 1)
Holder(seqs, x) == CHOOSE k \in DOMAIN seqs : x \in ToSet(seqs[k])
LinkTo(s, e, v) == <<e, IF s.ends[e][1] = v THEN 1 ELSE 2>>

SideRow(s, e, v) ==
  [prev |-> LinkTo(s, Before(s.disks[v], e), v), next |-> LinkTo(s, After(s.disks[v], e), v)]
EdgeRow(s, e) ==
  [vs |-> s.ends[e], disk |-> <<SideRow(s, e, s.ends[e][1]), SideRow(s, e, s.ends[e][2])>>,
   c |-> FirstOf(s.radials[e])]

\* Mutant: the first end of the edge, whichever way the loop runs.
FirstEnd(here, before) == here[1]

\* A corner is where its edge meets the one of the corner before it.
Meeting(here, before) == IF here[1] \in ToSet(before) THEN here[1] ELSE here[2]

CornerRow(s, c, l, e, before) ==
  [v |-> Meeting(s.ends[e], s.ends[Holder(s.radials, before)]), e |-> e, l |-> l,
   next |-> After(s.loops[l], c), prev |-> before,
   rnext |-> After(s.radials[e], c), rprev |-> Before(s.radials[e], c)]
CornerIn(s, c, l) == CornerRow(s, c, l, Holder(s.radials, c), Before(s.loops[l], c))

\* Only slots that are live get their links back.
Relinks(s, m) ==
  [vert |-> [v \in DOMAIN m.vert |-> FirstOf(s.disks[v])],
   edge |-> [e \in DOMAIN m.edge |-> EdgeRow(s, e)],
   corner |-> [c \in DOMAIN m.corner |-> CornerIn(s, c, Holder(s.loops, c))],
   list |-> [l \in DOMAIN m.list |-> [c |-> s.loops[l][1], f |-> CHOOSE f \in DOMAIN s.lists :
                                                                   s.lists[f] = l]],
   face |-> [f \in DOMAIN m.face |-> s.lists[f]]]

\* A stroke that moves vertices: a step without a topology chunk.
Draw ==
  /\ ~open /\ edits > 0 /\ edits' = edits - 1 /\ cur < MaxSteps
  /\ topo_frozen' = TRUE /\ frozen_stamp' = topo_stamp
  /\ IF topo_frozen \/ frozen_stamp = topo_stamp
     THEN /\ UNCHANGED frozen
          /\ StaleFreeze \/ topo_frozen \/ frozen = Snapshot(mesh)
     ELSE frozen' = Snapshot(mesh)
  /\ entries' = Append(SubSeq(entries, 1, cur), <<>>) /\ cur' = cur + 1
  /\ past' = Append(past, Surface(mesh)) /\ future' = <<>>
  /\ UNCHANGED <<surface, open, log, chunks, ops>>

Thaw ==
  /\ topo_frozen /\ topo_frozen' = FALSE
  /\ mesh' = Relinks(frozen, mesh)
  /\ UNCHANGED <<topo_stamp, frozen, frozen_stamp, steps, ghosts, edits>>
-----------------------------------------------------------------------------
(* Replay: x is the mesh m and the records log of a chunk.  A record of a  *)
(* change exchanges its row with the mesh.  The edit counter stays.        *)

Exchanged(x, n, r) ==
  [x EXCEPT !.m[r.kind][r.id] = r.body, !.log[n].body = x.m[r.kind][r.id]]

UndoRecord(x, n, r) ==
  CASE r.origin = "created" -> Release(x, r.kind, r.id)
    [] r.origin = "existed" /\ r.fate = "live" -> Exchanged(x, n, r)
    [] OTHER -> Alloc(x, r.kind, r.id, r.body)
RedoRecord(x, n, r) ==
  CASE r.origin = "created" -> Alloc(x, r.kind, r.id, r.body)
    [] r.origin = "existed" /\ r.fate = "live" -> Exchanged(x, n, r)
    [] OTHER -> Release(x, r.kind, r.id)

UndoChunk(m, recs) ==
  Each(LAMBDA x, n : UndoRecord(x, n, recs[n]), [m |-> m, log |-> recs],
           Reverse(Upto(Len(recs))))
RedoChunk(m, recs) ==
  Each(LAMBDA x, n : RedoRecord(x, n, recs[n]), [m |-> m, log |-> recs], Upto(Len(recs)))

\* The chunks replayed so far are in entry.
Replayed(x, after, front) ==
  [m |-> after.m, entry |-> IF front THEN <<after.log>> \o x.entry ELSE Append(x.entry, after.log)]
UndoEntry(m, entry) ==
  Each(LAMBDA x, recs : Replayed(x, UndoChunk(x.m, recs), TRUE),
           [m |-> m, entry |-> <<>>], Reverse(entry))
RedoEntry(m, entry) ==
  Each(LAMBDA x, recs : Replayed(x, RedoChunk(x.m, recs), FALSE),
           [m |-> m, entry |-> <<>>], entry)

\* The links come back before a topology chunk is replayed.
Thawed(entry) == IF topo_frozen /\ entry # <<>> THEN Relinks(frozen, mesh) ELSE mesh
Replays(x, n) ==
  /\ ~open
  /\ mesh' = x.m /\ entries' = [entries EXCEPT ![n] = x.entry]
  /\ topo_frozen' = (topo_frozen /\ entries[n] = <<>>)
  /\ UNCHANGED <<topo_stamp, frozen, frozen_stamp, open, log, chunks, ops, edits>>

Undo ==
  /\ cur > 0 /\ cur' = cur - 1 /\ Replays(UndoEntry(Thawed(entries[cur]), entries[cur]), cur)
  /\ past' = Front(past) /\ future' = <<Surface(mesh)>> \o future
Redo ==
  /\ cur < Len(entries) /\ cur' = cur + 1
  /\ Replays(RedoEntry(Thawed(entries[cur + 1]), entries[cur + 1]), cur + 1)
  /\ past' = Append(past, Surface(mesh)) /\ future' = Tail(future)
-----------------------------------------------------------------------------
Next ==
  \/ BeginStep \/ NextDab \/ EndStep \/ Draw \/ Thaw \/ Undo \/ Redo
  \/ SplitStep \/ FlipStep \/ CollapseStep \/ FanStep
  \/ DetachStep \/ ExtrudeStep \/ StickStep \/ PinchStep

Spec == Init /\ [][Next]_vars
-----------------------------------------------------------------------------
(* Properties                                                              *)

DisksSound(m) ==
  \A v \in DOMAIN m.vert :
    /\ ToSet(Disk(m, v)) = {e \in DOMAIN m.edge : v \in ToSet(m.edge[e].vs)}
    /\ IsInjective(Disk(m, v))
    /\ \A e \in ToSet(Disk(m, v)) :
         /\ LinkRow(m, LinkRow(m, At(m, e, v)).next).prev = At(m, e, v)
         /\ LinkRow(m, LinkRow(m, At(m, e, v)).prev).next = At(m, e, v)

RadialsSound(m) ==
  \A e \in DOMAIN m.edge :
    /\ m.edge[e].vs[1] # m.edge[e].vs[2] /\ ToSet(m.edge[e].vs) \subseteq DOMAIN m.vert
    /\ ToSet(Radial(m, e)) = {c \in DOMAIN m.corner : m.corner[c].e = e}
    /\ \A c \in ToSet(Radial(m, e)) :
         m.corner[m.corner[c].rnext].rprev = c /\ m.corner[m.corner[c].rprev].rnext = c

LoopsSound(m) ==
  /\ {m.face[f] : f \in DOMAIN m.face} = DOMAIN m.list /\ IsInjective(m.face)
  /\ \A f \in DOMAIN m.face : m.list[m.face[f]].f = f /\ IsPolygon(VertsOf(m, f))
  /\ \A l \in DOMAIN m.list :
       ToSet(Loop(m, l)) = {c \in DOMAIN m.corner : m.corner[c].l = l}
  /\ \A c \in DOMAIN m.corner :
       /\ m.corner[m.corner[c].next].prev = c /\ m.corner[m.corner[c].prev].next = c
       /\ {m.corner[c].v, m.corner[m.corner[c].next].v} = ToSet(m.edge[m.corner[c].e].vs)

EdgesDistinct(m) == Cardinality(Surface(m).edges) = Cardinality(DOMAIN m.edge)

\* The cycles of a mesh that is not frozen are whole and agree with one another
\* (what Mesh::validate looks for), after every operator, undo and redo.
MeshSound ==
  ~topo_frozen =>
    DisksSound(mesh) /\ RadialsSound(mesh) /\ LoopsSound(mesh) /\ EdgesDistinct(mesh)

\* Operators do to the surface what SurfaceHistory says, whatever they do to the
\* links, and undo and redo bring every surface back (MeshLog::undo, redo).
Docs == {Surface(Seeded(case).m) : case \in Cases}
Surfaces == INSTANCE SurfaceHistory WITH doc <- Surface(mesh)
SurfaceSpec == Surfaces!SurfaceSpec

\* Freed links come back as they were (Mesh::freezeTopo, Mesh::thawTopo).
ThawRestores == [][topo_frozen /\ ~topo_frozen' /\ cur' = cur => mesh' = mesh]_vars

\* The snapshot that stands for the links is theirs: "any topology edit forces
\* a rebuild" (MeshTopoCache).
SnapshotCurrent == topo_frozen => frozen = Snapshot(mesh)
=============================================================================
