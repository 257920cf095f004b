----------------------------- MODULE SpatialTree -----------------------------
(***************************************************************************)
(* The spatial tree beside the mesh it follows.  Mesh operators report     *)
(* each face and vertex they make, kill or rewire; dabs report the         *)
(* vertices they move; the log reports what it puts back.  Each report     *)
(* only flags leaves, and an update serves the flags: it splits the leaves *)
(* that grew (in parallel when there are several), folds those that        *)
(* shrank, and rebuilds the cached triangles, the skirts and the normals   *)
(* that the flags ask for.                                                 *)
(***************************************************************************)
EXTENDS TreeShape

CONSTANTS Touches,    \* the sets of vertices a dab may move
          Share,      \* moved * Share >= owned: the whole leaf is summed again
          Waits,      \* what waits for the frame that serves what was asked
                      \* before: "replay", and the "dab" after a replay
          RowsCount,  \* whether moves in rows of a topology chunk are counted
          Scenarios   \* a first mesh, as the sequence of its faces, the faces that
                      \* edits may make, as sets of vertices, and how many edits,
                      \* kills, dabs, replays and steps may follow

VARIABLES mesh,       \* [tri, live]
          tree,       \* see Built
          stale,      \* <<v, f>>: face f moved, or v was summed since without it
                      \* or over what f no longer is; edits by themselves owe no
                      \* normals, as what dyntopo edits the next kernel moves
          log,        \* the open step: what is put back, and whether it was
          pass,       \* the parallel split under way, with the serial outcome
          reordered,  \* slots were permuted since the tree was last built
          did,        \* "normals" after the normals half of an update
          left        \* the budget that is left

vars == <<mesh, tree, stale, log, pass, reordered, did, left>>

NoPass == [kind |-> "none", cands |-> <<>>, stage |-> <<>>, todo |-> <<>>,
           first |-> None, want |-> None]
Idle == pass = NoPass
NewStep(msh) == [tri |-> msh.tri, live |-> msh.live, undone |-> FALSE,
                 recs |-> <<>>,  \* the topology chunk's records, by log_id
                 moved |-> {},   \* vertices with a row in the element store
                 rowed |-> {}]   \* vertices that moved since a record took their row

Owners(t, S) == {t.vnode[v] : v \in S}
Differ(A, B) == (A \ B) \cup (B \ A)
\* Every vertex of the faces F lacks their present shape.
Owing(msh, F) == UNION {{<<v, f>> : v \in msh.tri[f]} : f \in F}

-----------------------------------------------------------------------------
\* What the reports do to the tree.

\* The leaf of a vertex the face has, or else the root, to descend from.
Anchors(msh, t, f) == {n \in Owners(t, msh.tri[f]) : IsNode(t, n) /\ Leaf(t, n)}
Homes(msh, t, f) == IF Anchors(msh, t, f) = {} THEN {Root} ELSE Anchors(msh, t, f)

\* A leaf that grows too large is noted, and its parent with it.
Noted(t, n) ==
    IF ~NeedsSplit(t, n) THEN t
    ELSE [t EXCEPT !.split = @ \cup {n},
                   !.merge = @ \cup ({t.node[n].up} \ {None})]

AddFace(msh, t, f, n) ==
    LET free == [t EXCEPT !.fnode[f] = None]
    IN  IF n \in Anchors(msh, t, f) THEN Noted(FileInLeaf(msh, free, n, f, None), n)
        ELSE Interned(msh, free, n, f, None)

RemoveFace(t, f) ==
    LET n == t.fnode[f]
    IN  IF n = None THEN t
        ELSE [t EXCEPT !.fnode[f] = None, !.node[n].uf = @ \ {f},
                       !.node[n].flag = @ \cup {"tris"}]

TouchFace(msh, t, f) ==
    IF t.fnode[f] = None THEN AddFace(msh, t, f, Min(Homes(msh, t, f)))
    ELSE FileInLeaf(msh, t, t.fnode[f], f, None)

RemoveVert(t, v) ==
    LET n == t.vnode[v]
    IN  IF n = None THEN t
        ELSE [t EXCEPT !.vnode[v] = None, !.node[n].uv = @ \ {v},
                       !.merge = @ \cup ({t.node[n].up} \ {None})]

\* A corner dies: the leaf that owns its vertex may have the face in its skirt.
CornersDie(msh, t, f) == Flagged(t, Owners(t, msh.tri[f]), {"skirt"})

-----------------------------------------------------------------------------
\* What the reports do to the log: the first about an element makes its record.

Record(of, at, origin, fate) == [of |-> of, at |-> at, origin |-> origin, fate |-> fate]
Report(what, of, S) == [i \in 1 .. Cardinality(S) |-> <<what, of, Ascending(S)[i]>>]

Recorded(recs, report) ==
    LET what == report[1]
        known == {i \in DOMAIN recs : /\ recs[i].of = report[2] /\ recs[i].at = report[3]
                                      /\ recs[i].fate = "Live"}
        New(origin, fate) == Append(recs, Record(report[2], report[3], origin, fate))
    IN  CASE what = "create" -> New("Created", "Live")
          [] what = "change" -> IF known = {} THEN New("Existed", "Live") ELSE recs
          [] what = "kill" /\ known = {} -> New("Existed", "Dead")
          [] OTHER -> LET i == Min(known)
                      IN  IF recs[i].origin = "Created" THEN RemoveAt(recs, i)
                          ELSE [recs EXCEPT ![i].fate = "Dead"]

RowOwned == {r.at : r \in {e \in Range(log.recs) : e.of = "vert"}}

-----------------------------------------------------------------------------
\* Mesh operators.  An edge lives as long as a face has it: the edges a kill
\* leaves bare die with it.

Edges(msh) == UNION {kSubset(2, msh.tri[f]) : f \in Faces}
NewVerts(msh) == Report("create", "vert", msh.live \ mesh.live)
\* The ends of the edges that come, go or turn.
Ends(msh) == Report("change", "vert", UNION Differ(Edges(mesh), Edges(msh)))

Edit(kind, msh, t, F, reports) ==
    /\ Idle /\ ~log.undone /\ left[kind] > 0
    /\ mesh' = msh /\ tree' = t
    /\ stale' = {p \in stale : p[2] \notin F /\ p[1] \in msh.live}
    /\ log' = [log EXCEPT !.recs = FoldLeft(Recorded, @, reports)]
    /\ left' = [left EXCEPT ![kind] = @ - 1] /\ did' = ""
    /\ UNCHANGED <<pass, reordered>>

Fresh(S) == \A f \in Faces : mesh.tri[f] # S
With(F) == [tri |-> [f \in Faces |-> IF f \in DOMAIN F THEN F[f] ELSE mesh.tri[f]],
            live |-> mesh.live \cup UNION Range(F)]

MakeFace(S) ==
    /\ LiveFaces(mesh) # Faces /\ Fresh(S)
    /\ LET f == Min(Faces \ LiveFaces(mesh))
           msh == With(f :> S)
       IN  \E n \in Homes(msh, tree, f) :
               Edit("edits", msh, AddFace(msh, tree, f, n), {f},
                    NewVerts(msh) \o Ends(msh) \o Report("create", "face", {f}))

KillFace(f) ==
    /\ mesh.tri[f] # {}
    /\ LET msh == With(f :> {})
       IN  Edit("kills", msh, RemoveFace(CornersDie(mesh, tree, f), f), {f},
                Report("kill", "face", {f}) \o Ends(msh))

KillVert(v) ==
    /\ v \in mesh.live /\ Fan(mesh, v) = {}
    /\ Edit("kills", [mesh EXCEPT !.live = @ \ {v}], RemoveVert(tree, v), {},
            Report("kill", "vert", {v}))

\* The edge that two faces share is turned: their corners stay.
Flip(f, g, S, R) ==
    /\ f # g /\ mesh.tri[f] # {} /\ mesh.tri[g] # {}
    /\ Cardinality(mesh.tri[f] \cap mesh.tri[g]) = 2
    /\ S \cup R = mesh.tri[f] \cup mesh.tri[g]
    /\ S \cap R = (mesh.tri[f] \ mesh.tri[g]) \cup (mesh.tri[g] \ mesh.tri[f])
    /\ S # R /\ Fresh(S) /\ Fresh(R)
    /\ LET msh == With(f :> S @@ g :> R)
       IN  Edit("edits", msh, TouchFace(msh, TouchFace(msh, tree, f), g), {f, g},
                Ends(msh) \o Report("change", "face", {f, g}))

\* A face keeps its id and is given other vertices: its corners die.
Rewire(f, S) ==
    /\ mesh.tri[f] # {} /\ Fresh(S) /\ Cardinality(mesh.tri[f] \cap S) = 2
    /\ LET msh == With(f :> S)
           cleared == CornersDie(mesh, TouchFace(mesh, tree, f), f)
       IN  Edit("edits", msh, TouchFace(msh, cleared, f), {f},
                NewVerts(msh) \o Report("change", "face", {f}) \o Ends(msh))

-----------------------------------------------------------------------------
\* Dabs.

Hinted(t, n, S) ==
    [t EXCEPT !.node[n].moved = @ \cup S, !.node[n].flag = @ \cup {"normals"}]

\* Each leaf is hinted at its own vertices that moved, then each leaf of the
\* dab whose triangles are current at its neighbours' vertices that moved.
Dabbed(t, S, seen) ==
    LET own == ForEach(LAMBDA s, n : Hinted(s, n, S \cap t.node[n].uv), t, Owners(t, S))
        Border(s, n) ==
            LET b == WithBorder(mesh, s, n)
                alien == b.node[n].foreign \cap S
            IN  IF "tris" \in s.node[n].flag THEN s
                ELSE IF alien = {} THEN b ELSE Hinted(b, n, alien)
    IN  IF Cardinality(seen) > 1 THEN ForEach(Border, own, seen) ELSE own

\* A leaf was asked for a whole rebuild, and only an empty hint list says so.
AskedWhole(t, n) ==
    /\ "normals" \in t.node[n].flag /\ t.node[n].moved = {}
    /\ t.node[n].flag \cap {"full", "tris"} = {}

Dab(S, wide) ==
    /\ Idle /\ ~log.undone /\ left.dabs > 0 /\ S \subseteq mesh.live
    /\ None \notin Owners(tree, S)
    /\ "dab" \in Waits => \A n \in Leaves(tree) : ~AskedWhole(tree, n)
    /\ tree' = Dabbed(tree, S, IF wide THEN Leaves(tree) ELSE Owners(tree, S))
    /\ stale' = stale \cup Owing(mesh, Ring(mesh, S))
    /\ log' = [log EXCEPT !.moved = @ \cup (S \ RowOwned),
                          !.rowed = @ \cup (S \cap (RowOwned \ log.moved))]
    /\ left' = [left EXCEPT !.dabs = @ - 1] /\ did' = ""
    /\ UNCHANGED <<mesh, pass, reordered>>

-----------------------------------------------------------------------------
\* The log puts back.

BeginStep ==
    /\ Idle /\ left.steps > 0
    /\ log' = NewStep(mesh) /\ log' # log
    /\ left' = [left EXCEPT !.steps = @ - 1] /\ did' = ""
    /\ UNCHANGED <<mesh, tree, stale, pass, reordered>>

\* The hints a leaf still holds name all its vertices that go back.
HintsCover(S) ==
    \A n \in Leaves(tree) :
        {"normals"} = tree.node[n].flag \cap {"normals", "full", "tris"}
            => \/ tree.node[n].moved = {}
               \/ tree.node[n].uv \cap S \subseteq tree.node[n].moved

\* Undo, or redo.  The records are walked in their order while the mesh is
\* still whole: a face that goes or changes leaves the tree, and the owners of
\* its vertices learn of it, but a vertex that went before it has no owner any
\* more.  Once the mesh is back, so are its faces.  (The skirts that the rows
\* of corners flag besides are left out.)
Replay ==
    LET msh == [tri |-> log.tri, live |-> log.live]
        changed == {f \in Faces : mesh.tri[f] # msh.tri[f]}
        back == log.moved \cap msh.live
        rowed == IF RowsCount THEN log.rowed \cap msh.live ELSE {}
        Now(e) == IF log.undone THEN e.origin = "Existed" ELSE e.fate = "Live"
        Then(e) == IF log.undone THEN e.fate = "Live" ELSE e.origin = "Existed"
        AskOwner(t, f) == Flagged(t, {t.fnode[f]}, {"normals"})
        Drop(t, f) ==
            IF t.fnode[f] = None THEN t
            ELSE RemoveFace(Flagged(AskOwner(t, f),
                                    Owners(t, mesh.tri[f]) \ {t.fnode[f]}, {"skirt"}), f)
        Leave(t, e) == CASE e.of = "face" /\ Now(e) -> Drop(t, e.at)
                         [] e.of = "vert" /\ Now(e) /\ ~Then(e) -> RemoveVert(t, e.at)
                         [] OTHER -> t
        Return(t, e) ==
            IF e.of = "vert" \/ ~Then(e) THEN t
            ELSE AskOwner(IF t.fnode[e.at] # None THEN t
                          ELSE AddFace(msh, t, e.at, Min(Homes(msh, t, e.at))), e.at)
        owned == FoldLeft(Return, FoldLeft(Leave, tree, log.recs), log.recs)
    IN  /\ Idle /\ left.replays > 0
        /\ log.recs # <<>> \/ log.moved # {}
        /\ "replay" \in Waits => HintsCover(back)
        /\ mesh' = msh
        /\ tree' = Flagged(owned, Owners(owned, back), {"normals"})
        /\ stale' = {p \in stale : p[2] \notin changed /\ p[1] \in msh.live}
                    \cup Owing(msh, Ring(msh, back \cup rowed) \ changed)
        /\ log' = [log EXCEPT !.tri = mesh.tri, !.live = mesh.live, !.undone = ~@]
        /\ left' = [left EXCEPT !.replays = @ - 1] /\ did' = ""
        /\ UNCHANGED <<pass, reordered>>

\* A preview dab is taken back: its vertices' rows, and the stamps they had.
Rollback ==
    /\ Idle /\ ~log.undone /\ left.replays > 0
    /\ log.tri = mesh.tri /\ log.moved # {}
    /\ "replay" \in Waits => HintsCover(log.moved)
    /\ tree' = Flagged(tree, Owners(tree, log.moved), {"normals"})
    /\ stale' = stale \cup Owing(mesh, Ring(mesh, log.moved))
    /\ log' = [log EXCEPT !.moved = {}]
    /\ left' = [left EXCEPT !.replays = @ - 1] /\ did' = ""
    /\ UNCHANGED <<mesh, pass, reordered>>

\* Two face slots change places.  What the leaves own and the triangles of it
\* are renamed, and pending hints dropped.
Reorder(f, g) ==
    LET Swap(x) == IF x = f THEN g ELSE IF x = g THEN f ELSE x
        slots == [x \in Faces |-> Swap(x)]
    IN  /\ Idle /\ left.steps > 0 /\ f < g /\ mesh.tri[f] # mesh.tri[g]
        /\ mesh' = [mesh EXCEPT !.tri = [x \in Faces |-> @[slots[x]]]]
        /\ tree' = [tree EXCEPT
                      !.fnode = [x \in Faces |-> @[slots[x]]],
                      !.node = [n \in DOMAIN @ |->
                          [@[n] EXCEPT !.uf = {slots[x] : x \in @}, !.moved = {},
                                       !.tris = {<<slots[e[1]], e[2]>> : e \in @}]]]
        /\ stale' = {<<p[1], slots[p[2]]>> : p \in stale}
        /\ log' = NewStep(mesh')
        /\ reordered' = TRUE /\ did' = ""
        /\ left' = [left EXCEPT !.steps = @ - 1]
        /\ UNCHANGED pass

Rebuild ==
    /\ Idle /\ left.steps > 0
    /\ tree' = Built(mesh, tree.split, tree.merge)
    /\ stale' = {} /\ reordered' = FALSE /\ did' = ""
    /\ left' = [left EXCEPT !.steps = @ - 1]
    /\ UNCHANGED <<mesh, log, pass>>

-----------------------------------------------------------------------------
\* Normals.

Cached(nd) == nd.tris \cup nd.skirt
Whole(nd) == \/ "full" \in nd.flag \/ nd.moved = {}
             \/ Cardinality(nd.moved) * Share >= Cardinality(nd.uv)
Near(nd, E) == {e \in E : Corners(mesh, e) \cap nd.moved # {}}

\* Mutant: by its own triangles only.
HintsOfTris(t, n) ==
    LET nd == t.node[n]
        border == {e \in nd.tris : Corners(mesh, e) \cap nd.foreign # {}}
        seen == IF Whole(nd) THEN border ELSE Near(nd, border)
    IN  {v \in UNION {Corners(mesh, e) : e \in seen} : t.vnode[v] \notin {None, n}}

\* The neighbours' vertices a leaf that is due hints at.
HintsOf(t, n) ==
    LET nd == t.node[n]
        border == {e \in nd.tris : Corners(mesh, e) \cap nd.foreign # {}} \cup nd.skirt
        seen == IF Whole(nd) THEN border ELSE Near(nd, border)
    IN  {v \in UNION {Corners(mesh, e) : e \in seen} : t.vnode[v] \notin {None, n}}

\* A leaf takes hints when it was not due, or due with hints of its own.
WithHalo(t) ==
    LET due == {n \in Leaves(t) : "normals" \in t.node[n].flag}
        known == ForEach(LAMBDA s, n : WithBorder(mesh, s, n), t, due)
        hints == UNION {HintsOf(known, n) : n \in due}
        Take(s, n) ==
            LET mine == {v \in hints : t.vnode[v] = n}
            IN  IF mine = {} \/ (n \in due /\ t.node[n].moved = {}) THEN s
                ELSE Hinted(s, n, mine)
    IN  ForEach(Take, known, Leaves(t))

\* The vertices a leaf sums again, and the faces it sums at one of them.
Summed(t, n) ==
    LET nd == t.node[n]
    IN  IF Whole(nd) THEN nd.uv
        ELSE {v \in UNION {Corners(mesh, e) : e \in Near(nd, Cached(nd))} : t.vnode[v] = n}
SumOver(t, n, v) == {e[1] : e \in {d \in Cached(t.node[n]) : v \in Corners(mesh, d)}}

WithNormals(t) ==
    [t EXCEPT !.node = [n \in DOMAIN @ |->
        IF "normals" \in @[n].flag /\ Leaf(t, n)
        THEN [@[n] EXCEPT !.moved = {}, !.flag = @ \ {"normals", "full"}] ELSE @[n]]]
StaleAfter(t) ==
    LET due == {n \in Leaves(t) : "normals" \in t.node[n].flag}
        summed == UNION {Summed(t, n) : n \in due}
    IN  {p \in stale : p[1] \notin summed}
        \cup UNION {UNION {{<<v, f>> : f \in Differ(SumOver(t, n, v), Fan(mesh, v))}
                           : v \in Summed(t, n)} : n \in due}

-----------------------------------------------------------------------------
\* An update: queries are served after each dab, the rest once per frame.

Oblong(t) == {n \in DOMAIN t.node : ~Leaf(t, n) /\ InBand(t, n)}
Pairs(t) == {n \in DOMAIN t.node : ~Leaf(t, n) /\ \A k \in Range(t.node[n].kids) : Leaf(t, k)}

Shrunk(t, oblique) ==
    Merged(mesh, [t EXCEPT !.merge = {}],
           Ascending(t.merge \cup {n \in Pairs(t) : Skewed(t, n, oblique)}), oblique)

\* Mutant: nobody is warned.
Unwarned(t) ==
    LET dirty == {n \in Leaves(t) : "tris" \in t.node[n].flag}
        retried == ForEach(LAMBDA s, n : WithTris(mesh, s, n), t, dirty)
    IN  ForEach(LAMBDA s, n : WithSkirt(mesh, s, n), retried,
                {n \in Leaves(t) : "skirt" \in retried.node[n].flag})

\* Leaves with new triangles warn the owners of the vertices they share.
Recached(t) ==
    LET dirty == {n \in Leaves(t) : "tris" \in t.node[n].flag}
        retried == ForEach(LAMBDA s, n : WithTris(mesh, s, n), t, dirty)
        warned == Flagged(retried,
                          UNION {Owners(t, Strangers(mesh, retried, n)) : n \in dirty},
                          {"skirt"})
    IN  ForEach(LAMBDA s, n : WithSkirt(mesh, s, n), warned,
                {n \in Leaves(t) : "skirt" \in warned.node[n].flag})

\* merging is TRUE when this frame's turn to fold leaves has come.
Serve(t, kind) ==
    \E merging \in IF kind = "frame" THEN BOOLEAN ELSE {FALSE} :
    \E oblique \in IF merging THEN SUBSET Oblong(t) ELSE {{}} :
        LET cached == Recached(IF merging THEN Shrunk(t, oblique) ELSE t)
            haloed == WithHalo(cached)
        IN  IF kind = "frame"
            THEN tree' = WithNormals(haloed) /\ stale' = StaleAfter(haloed)
            ELSE tree' = cached /\ UNCHANGED stale

Grown(t) == {n \in t.split : IsNode(t, n) /\ Leaf(t, n) /\ NeedsSplit(t, n)}

Update(kind) ==
    LET t == [tree EXCEPT !.split = {}]
    IN  /\ Idle /\ Cardinality(Grown(tree)) <= 1
        /\ Serve(ForEach(LAMBDA s, n : Split(mesh, s, n, None), t, Grown(tree)), kind)
        /\ did' = ""
        /\ UNCHANGED <<mesh, log, pass, reordered, left>>

\* Several leaves grew: a worker for each.
StartPass(kind) ==
    LET t == [tree EXCEPT !.split = {}]
        cands == Ascending(Grown(tree))
        serial == FoldLeft(LAMBDA s, n : Split(mesh, s, n, None), t, cands)
    IN  /\ Idle /\ Len(cands) > 1
        /\ pass' = [kind |-> kind, cands |-> cands, first |-> t.next,
                    stage |-> [i \in DOMAIN cands |-> "new"],
                    todo |-> [i \in DOMAIN cands |-> <<>>],
                    want |-> Renumbered(serial, cands, t.next)]
        /\ tree' = t /\ did' = ""
        /\ UNCHANGED <<mesh, stale, log, reordered, left>>

\* Mutant: all workers share one tag.
SharedTag(i) == None

\* What worker i unassigns carries its own tag.
Tag(i) == 0 - i

Worker(i, stage, newStage, t, todo) ==
    /\ pass.stage[i] = stage
    /\ tree' = t
    /\ pass' = [pass EXCEPT !.stage[i] = newStage, !.todo[i] = todo]
    /\ UNCHANGED <<mesh, stale, log, reordered, did, left>>

OpenNode(i) ==
    LET n == pass.cands[i]
    IN  Worker(i, "new", "filing", Opened(tree, n, Tag(i)),
               Ascending(tree.node[n].uf \cap LiveFaces(mesh)))
FileNext(i) ==
    /\ pass.todo[i] # <<>>
    /\ Worker(i, "filing", "filing",
              Refiled(mesh, tree, pass.cands[i], Head(pass.todo[i]), Tag(i)),
              Tail(pass.todo[i]))
CloseNode(i) ==
    /\ pass.todo[i] = <<>>
    /\ Worker(i, "filing", "done", Closed(mesh, tree, pass.cands[i], Tag(i)), <<>>)

PassDone == ~Idle /\ \A i \in DOMAIN pass.cands : pass.stage[i] = "done"
Outcome == Renumbered(tree, pass.cands, pass.first)
FinishPass ==
    /\ PassDone
    /\ Serve(Outcome, pass.kind)
    /\ pass' = NoPass /\ did' = ""
    /\ UNCHANGED <<mesh, log, reordered, left>>

\* The normals half alone: the phase it asks for lies within the other half.
UpdateNormals ==
    /\ Idle /\ left.steps > 0
    /\ left' = [left EXCEPT !.steps = @ - 1] /\ did' = "normals"
    /\ UNCHANGED <<mesh, tree, stale, log, pass, reordered>>

-----------------------------------------------------------------------------
Init ==
    /\ left \in Scenarios
    /\ mesh = [tri |-> [f \in Faces |-> IF f \in DOMAIN left.start THEN left.start[f] ELSE {}],
               live |-> UNION Range(left.start)]
    /\ tree = Built(mesh, {}, {})
    /\ stale = {} /\ log = NewStep(mesh) /\ pass = NoPass
    /\ reordered = FALSE /\ did = ""

Operate ==
    \/ \E S \in left.may : MakeFace(S) \/ \E f \in Faces : Rewire(f, S)
    \/ \E f \in Faces : KillFace(f)
    \/ \E v \in Verts : KillVert(v)
    \/ \E f, g \in Faces, S, R \in left.may : Flip(f, g, S, R)
Pass == \E i \in DOMAIN pass.cands : OpenNode(i) \/ FileNext(i) \/ CloseNode(i)
Next ==
    \/ Operate
    \/ \E S \in Touches, wide \in BOOLEAN : Dab(S, wide)
    \/ BeginStep \/ Replay \/ Rollback
    \/ \E f, g \in Faces : Reorder(f, g)
    \/ Rebuild
    \/ \E kind \in {"queries", "frame"} : Update(kind) \/ StartPass(kind)
    \/ Pass \/ FinishPass \/ UpdateNormals
Spec == Init /\ [][Next]_vars

-----------------------------------------------------------------------------
\* The leaves' lists and the stamps say the same, every live face is filed
\* once, so is every live vertex of a face, and nothing dead is: after any
\* order of mesh operators, replays, splits and merges, which each keep their
\* own part of it (tests/spatial_ownership.h).
OwnedOnce ==
    Idle =>
    /\ \A n \in DOMAIN tree.node :
          /\ tree.node[n].uv = IF Leaf(tree, n) THEN {v \in Verts : tree.vnode[v] = n} ELSE {}
          /\ tree.node[n].uf = IF Leaf(tree, n) THEN {f \in Faces : tree.fnode[f] = n} ELSE {}
    /\ \A f \in Faces : mesh.tri[f] # {} <=> tree.fnode[f] \in Leaves(tree)
    /\ \A v \in Verts : /\ Fan(mesh, v) # {} => tree.vnode[v] \in Leaves(tree)
                        /\ v \notin mesh.live => tree.vnode[v] = None

\* A leaf that no flag marks holds exactly the triangles of its faces; around
\* the vertices it owns, where alone the normals and the hints use it, its skirt
\* lacks or misstates a face only if the next update will find out, from the
\* leaf's own flag or from that of the leaf that owns the face; and its border
\* cache names exactly the vertices it shares.
TrisFollow(n) ==
    "tris" \in tree.node[n].flag
    \/ tree.node[n].tris = {Entry(mesh, f) : f \in tree.node[n].uf}
ExactSkirt(n) == {Entry(mesh, f) : f \in
                     {g \in Ring(mesh, tree.node[n].uv) : tree.fnode[g] # n}}
WillLearn(n, missing) ==
    \E k \in {n} \cup {tree.fnode[e[1]] : e \in missing} :
        IsNode(tree, k) /\ tree.node[k].flag \cap
            (IF k = n THEN {"tris", "skirt"} ELSE {"tris"}) # {}
SkirtFollows(n) ==
    LET held == {e \in tree.node[n].skirt :
                    (e[2] \cup Corners(mesh, e)) \cap tree.node[n].uv # {}}
    IN  held = ExactSkirt(n) \/ WillLearn(n, ExactSkirt(n) \ held)
BorderFollows(n) ==
    tree.node[n].flag \cap {"tris", "border"} # {}
    \/ tree.node[n].foreign = Strangers(mesh, tree, n)
CachesExact == Idle => \A n \in Leaves(tree) :
                          TrisFollow(n) /\ SkirtFollows(n) /\ BorderFollows(n)

\* So it is unless slots changed places since the tree was built: a reorder
\* renames the triangles a leaf caches and not its skirt (spatial.cc:2117).
CachesFollow == reordered \/ CachesExact

\* A leaf that no flag marks has no face in its skirt but those around its own
\* vertices (node.h:114).  Undo of a step that made a vertex may leave one: the
\* vertex is gone from the leaf before the faces around it are dropped.
SkirtsExact ==
    Idle => \A n \in Leaves(tree) :
        \/ reordered \/ tree.node[n].skirt = ExactSkirt(n)
        \/ WillLearn(n, ExactSkirt(n) \ tree.node[n].skirt)

\* Once no leaf is flagged for normals, as after each frame, every vertex has
\* taken in each move of a face around it, whoever owns it, and what was summed
\* again was summed over the faces there are: no dab, undo, redo or rollback
\* leaves a vertex behind (node.h:149, spatial.cc:3417).
NormalsSettle ==
    (Idle /\ \A n \in Leaves(tree) : "normals" \notin tree.node[n].flag)
        => reordered \/ stale = {}

\* Workers that split neighbouring leaves at the same time end with the tree
\* that splitting them one after the other gives, nodes numbered in the same
\* walk: undo parity relies on ids no schedule changes (spatial.cc:700).
SplitAsSerial == PassDone => Outcome = pass.want

\* The half that refreshes normals leaves none stale.
NormalsHalfRefreshes == did = "normals" => stale = {}
=============================================================================
