------------------------------ MODULE TreeShape ------------------------------
(***************************************************************************)
(* The spatial tree as data.  Every face and every vertex of the mesh is   *)
(* filed in one leaf, and stamped with that leaf's id; a leaf caches the   *)
(* triangles of its own faces (tris), those of its neighbours' faces that  *)
(* touch a vertex of its own (skirt), and the vertices its triangles share *)
(* with other leaves (foreign).                                            *)
(*                                                                         *)
(* Abstractions.  A face is a set of three vertices.  Space has one axis   *)
(* and a vertex's name is its place on it, so a leaf splits at the mean of *)
(* its vertices; a box's extent, and the clamp of the plane to it, are     *)
(* left out.  A leaf's ordered lists are sets, walked in ascending order.  *)
(***************************************************************************)
EXTENDS Integers, SequencesExt

CONSTANTS Verts,       \* vertex slots: positive numbers
          Faces,       \* face slots: positive numbers
          LeafLimit,   \* a leaf that owns this many vertices wants a split
          DepthLimit

None == 0              \* no leaf: the stamp of what no leaf owns
Root == 1

\* The mesh: the vertices of each face, none for a free slot, and the live vertices.
LiveFaces(mesh) == {f \in Faces : mesh.tri[f] # {}}
Fan(mesh, v) == {f \in Faces : v \in mesh.tri[f]}
Ring(mesh, S) == {f \in Faces : mesh.tri[f] \cap S # {}}
Entry(mesh, f) == <<f, mesh.tri[f]>>

Ascending(S) == SetToSortSeq(S, <)

\* A place is a fraction <<numerator, denominator>>.
Centroid(mesh, f) == <<SumSet(mesh.tri[f]), 3>>
Before(place, plane) == place[1] * plane[2] <= plane[1] * place[2]

Leaf(t, n) == t.node[n].kids = <<>>
Leaves(t) == {n \in DOMAIN t.node : Leaf(t, n)}
\* node_from_id: an id outside the map names no node.
IsNode(t, n) == n \in DOMAIN t.node
NeedsSplit(t, n) == /\ Cardinality(t.node[n].uv) >= LeafLimit
                    /\ t.node[n].depth < DepthLimit

FreshLeaf(up, depth) ==
    [kids |-> <<>>, up |-> up, depth |-> depth, plane |-> <<0, 1>>,
     uv |-> {}, uf |-> {}, tris |-> {}, skirt |-> {}, foreign |-> {},
     moved |-> {}, flag |-> {"tris", "normals", "border"}]

Flagged(t, N, what) ==
    [t EXCEPT !.node = [n \in DOMAIN @ |->
        IF n \in N /\ Leaf(t, n) THEN [@[n] EXCEPT !.flag = @ \cup what] ELSE @[n]]]

Stamped(stamp, S, n) == [x \in DOMAIN stamp |-> IF x \in S THEN n ELSE stamp[x]]

-----------------------------------------------------------------------------
\* Filing a face.

\* The leaf takes the face if nobody has it, and those of its vertices that
\* carry the tag.
FileInLeaf(mesh, t, n, f, tag) ==
    LET taken == {v \in mesh.tri[f] : t.vnode[v] = tag}
    IN  [t EXCEPT !.node[n].flag = @ \cup {"tris"},
                  !.node[n].uf = IF t.fnode[f] = None THEN @ \cup {f} ELSE @,
                  !.fnode[f] = IF @ = None THEN n ELSE @,
                  !.node[n].uv = @ \cup taken,
                  !.vnode = Stamped(@, taken, n)]

RECURSIVE Descent(_, _, _)
Descent(t, n, place) ==
    IF Leaf(t, n) THEN n
    ELSE Descent(t, t.node[n].kids[IF Before(place, t.node[n].plane) THEN 1 ELSE 2], place)

\* Two empty children on either side of the mean of the node's vertices,
\* which are left with the tag for an owner.
Opened(t, n, tag) ==
    LET a == t.next
        uv == t.node[n].uv
        kid == FreshLeaf(n, t.node[n].depth + 1)
    IN  [t EXCEPT !.next = @ + 2,
                  !.node = [@ EXCEPT ![n].kids = <<a, a + 1>>,
                                     ![n].plane = <<SumSet(uv), Cardinality(uv)>>]
                           @@ (a :> kid) @@ (a + 1 :> kid),
                  !.vnode = Stamped(@, uv, tag)]

\* Mutant: the vertices no face claimed are forgotten.
ClosedForgetful(mesh, t, n, tag) ==
    [t EXCEPT !.node[n].uv = {}, !.node[n].uf = {}, !.node[n].tris = {},
              !.node[n].skirt = {}, !.node[n].foreign = {}]

\* The vertices no face claimed go where their place leads; the node's own
\* lists and caches are dropped.
Closed(mesh, t, n, tag) ==
    LET orphans == {v \in t.node[n].uv : v \in mesh.live /\ t.vnode[v] = tag}
        home == [v \in orphans |-> Descent(t, n, <<v, 1>>)]
    IN  [t EXCEPT !.vnode = [v \in Verts |-> IF v \in orphans THEN home[v] ELSE @[v]],
                  !.node = [m \in DOMAIN @ |->
                      IF m = n THEN [@[m] EXCEPT !.uv = {}, !.uf = {}, !.tris = {},
                                                 !.skirt = {}, !.foreign = {}]
                      ELSE [@[m] EXCEPT !.uv = @ \cup {v \in orphans : home[v] = m}]]]

RECURSIVE Interned(_, _, _, _, _)

\* A face of node n is filed again, below n.
Refiled(mesh, t, n, f, tag) ==
    Interned(mesh, [t EXCEPT !.fnode[f] = None], n, f, tag)

Split(mesh, t, n, tag) ==
    Closed(mesh,
           FoldLeft(LAMBDA s, f : Refiled(mesh, s, n, f, tag), Opened(t, n, tag),
                    Ascending(t.node[n].uf \cap LiveFaces(mesh))),
           n, tag)

\* From node n down to a leaf, which splits first when it is full.
Interned(mesh, t, n, f, tag) ==
    IF Leaf(t, n) /\ NeedsSplit(t, n)
    THEN Interned(mesh, Split(mesh, t, n, tag), n, f, tag)
    ELSE IF Leaf(t, n) THEN FileInLeaf(mesh, t, n, f, tag)
    ELSE Interned(mesh, t,
                  t.node[n].kids[IF Before(Centroid(mesh, f), t.node[n].plane) THEN 1 ELSE 2],
                  f, tag)

-----------------------------------------------------------------------------
\* The pass over the leaves that grew too large.

RECURSIVE Preorder(_, _)
Preorder(t, n) ==
    IF Leaf(t, n) THEN <<n>>
    ELSE <<n>> \o Preorder(t, t.node[n].kids[1]) \o Preorder(t, t.node[n].kids[2])

\* The nodes made since id first, numbered again from first in the order in
\* which a walk below each candidate meets them, and their stamps with them.
Renumbered(t, cands, first) ==
    LET made == FoldLeft(LAMBDA s, n : s \o Tail(Preorder(t, n)), <<>>, cands)
        new == [n \in Range(made) |-> first + CHOOSE k \in 0 .. Len(made) - 1 : made[k + 1] = n]
        Id(n) == IF n \in Range(made) THEN new[n] ELSE n
        Old(id) == CHOOSE n \in DOMAIN t.node : Id(n) = id
        renamed == [id \in {Id(n) : n \in DOMAIN t.node} |->
                       [t.node[Old(id)] EXCEPT
                           !.kids = [i \in DOMAIN @ |-> Id(@[i])], !.up = Id(@)]]
        below == {n \in Range(made) : Leaf(t, n)}
        Restamp(stamp, owned(_)) ==
            [x \in DOMAIN stamp |->
                IF \E n \in below : x \in owned(t.node[n])
                THEN Id(CHOOSE n \in below : x \in owned(t.node[n])) ELSE stamp[x]]
    IN  [t EXCEPT !.node = renamed, !.next = first + Len(made),
                  !.vnode = Restamp(@, LAMBDA nd : nd.uv),
                  !.fnode = Restamp(@, LAMBDA nd : nd.uf)]

-----------------------------------------------------------------------------
\* Folding the leaves below node n back into it.

RECURSIVE Below(_, _)
Below(t, n) ==
    IF Leaf(t, n) THEN {}
    ELSE UNION {{k} \cup Below(t, k) : k \in Range(t.node[n].kids)}

Folded(mesh, t, n) ==
    LET gone == Below(t, n)
        verts == UNION {t.node[m].uv : m \in gone}
        faces == UNION {t.node[m].uf : m \in gone}
        bare == [t EXCEPT
                   !.vnode = Stamped(@, verts, None), !.fnode = Stamped(@, faces, None),
                   !.node = [m \in DOMAIN @ \ gone |->
                       IF m = n THEN [@[m] EXCEPT !.kids = <<>>, !.foreign = {},
                                          !.flag = @ \cup {"tris", "normals", "border"}]
                       ELSE @[m]]]
        filed == FoldLeft(LAMBDA s, f : Interned(mesh, s, n, f, None), bare,
                          Ascending(faces \cap LiveFaces(mesh)))
        orphans == {v \in verts : v \in mesh.live /\ filed.vnode[v] = None}
    IN  [filed EXCEPT !.vnode = Stamped(@, orphans, n),
                      !.node[n].uv = @ \cup orphans]

OwnedBelow(t, n) == UNION {t.node[m].uv : m \in {n} \cup Below(t, n)}

\* Both children are leaves and hold less than half a leaf.
Underfull(t, n) == /\ \A k \in Range(t.node[n].kids) : Leaf(t, k)
                   /\ Cardinality(OwnedBelow(t, n)) < LeafLimit \div 2

\* Together they fit in a leaf; oblique says that the split no longer serves.
\* A subtree that is deeper than one level also has to be lopsided.
Lopsided(t, n) ==
    LET count == [i \in 1 .. 2 |-> Cardinality(OwnedBelow(t, t.node[n].kids[i]))]
        low == IF count[1] < count[2] THEN count[1] ELSE count[2]
    IN  low <= LeafLimit \div 8 /\ low * 20 < (count[1] + count[2]) * 3
InBand(t, n) == Cardinality(OwnedBelow(t, n)) \in LeafLimit \div 2 .. LeafLimit - 1
Skewed(t, n, oblique) ==
    /\ n \in oblique /\ InBand(t, n)
    /\ (\A k \in Range(t.node[n].kids) : Leaf(t, k)) \/ Lopsided(t, n)

\* The worklist: what folds puts its parent on the list.
RECURSIVE Merged(_, _, _, _)
Merged(mesh, t, work, oblique) ==
    IF work = <<>> THEN t
    ELSE LET n == Head(work)
             rest == Tail(work)
         IN  IF IsNode(t, n) /\ ~Leaf(t, n) /\ (Underfull(t, n) \/ Skewed(t, n, oblique))
             THEN Merged(mesh, Folded(mesh, t, n),
                         IF t.node[n].up = None THEN rest
                         ELSE Append(rest, t.node[n].up), oblique)
             ELSE Merged(mesh, t, rest, oblique)

-----------------------------------------------------------------------------
\* What a leaf caches.

WithTris(mesh, t, n) ==
    [t EXCEPT !.node[n].flag = (@ \ {"tris"}) \cup {"full", "skirt", "border"},
              !.node[n].moved = {},
              !.node[n].tris = {Entry(mesh, f) : f \in t.node[n].uf},
              !.node[n].foreign = {}]

WithSkirt(mesh, t, n) ==
    [t EXCEPT !.node[n].flag = @ \ {"skirt"},
              !.node[n].skirt = {Entry(mesh, f) : f \in
                  {g \in Ring(mesh, t.node[n].uv) : t.fnode[g] # n}}]

\* The vertices an entry's corners have now, which a freed corner keeps until
\* its slot is used again, and those of them the leaf does not own.
Corners(mesh, e) == IF mesh.tri[e[1]] = {} THEN e[2] ELSE mesh.tri[e[1]]
Strangers(mesh, t, n) ==
    {v \in UNION {Corners(mesh, e) : e \in t.node[n].tris} : t.vnode[v] # n}

WithBorder(mesh, t, n) ==
    IF "border" \in t.node[n].flag
    THEN [t EXCEPT !.node[n].flag = @ \ {"border"},
                   !.node[n].foreign = Strangers(mesh, t, n)]
    ELSE t

ForEach(Op(_, _), t, N) == FoldLeft(Op, t, Ascending(N))

-----------------------------------------------------------------------------
\* The tree of a whole mesh: faces are halved at the mean of their centroids,
\* or by count, until a slice fits a leaf; the walk from the root numbers the
\* nodes; a vertex belongs to the leaf of its lowest face, or to the leaf its
\* place leads to.

FaceLimit(mesh) ==
    Max({1, (LeafLimit * Cardinality(LiveFaces(mesh))) \div Max({1, Cardinality(mesh.live)})})

CentroidSum(mesh, F) == FoldSet(LAMBDA f, acc : Centroid(mesh, f)[1] + acc, 0, F)

RECURSIVE Planted(_, _, _, _, _)
Planted(mesh, t, up, depth, F) ==
    LET id == t.next
        mean == <<CentroidSum(mesh, F), 3 * Cardinality(F)>>
        low == {f \in F : Before(Centroid(mesh, f), mean)}
        ranked == SetToSortSeq(F, LAMBDA f, g :
                      \/ Centroid(mesh, f)[1] < Centroid(mesh, g)[1]
                      \/ Centroid(mesh, f)[1] = Centroid(mesh, g)[1] /\ f < g)
        half == Cardinality(F) \div 2
        even == low \in {{}, F}
        first == IF even THEN {ranked[i] : i \in 1 .. half} ELSE low
        plane == IF even THEN Centroid(mesh, ranked[half + 1]) ELSE mean
        leaf == FreshLeaf(up, depth)
        terminal == Cardinality(F) <= FaceLimit(mesh) \/ depth >= DepthLimit
        here == [t EXCEPT !.next = @ + 1, !.node = @ @@ (id :> leaf)]
        left == Planted(mesh, here, id, depth + 1, first)
        both == Planted(mesh, left, id, depth + 1, F \ first)
    IN  IF terminal
        THEN [here EXCEPT !.node[id].uf = F, !.fnode = Stamped(@, F, id)]
        ELSE [both EXCEPT !.node[id].kids = <<id + 1, left.next>>,
                          !.node[id].plane = plane]

\* split and merge are the leaves and the parents noted for the two passes.
Built(mesh, split, merge) ==
    LET bare == [node |-> <<>>, next |-> Root, split |-> split, merge |-> merge,
                 vnode |-> [v \in Verts |-> None], fnode |-> [f \in Faces |-> None]]
        t == Planted(mesh, bare, None, 0, LiveFaces(mesh))
        verts == IF LiveFaces(mesh) = {} THEN {} ELSE mesh.live
        home == [v \in verts |->
                    IF Fan(mesh, v) = {} THEN Descent(t, Root, <<v, 1>>)
                    ELSE t.fnode[Min(Fan(mesh, v))]]
        owned == [t EXCEPT
                    !.vnode = [v \in Verts |-> IF v \in verts THEN home[v] ELSE None],
                    !.node = [n \in DOMAIN @ |->
                        [@[n] EXCEPT !.uv = {v \in verts : home[v] = n}]]]
    IN  ForEach(LAMBDA s, n : WithTris(mesh, s, n), owned, Leaves(owned))
=============================================================================
