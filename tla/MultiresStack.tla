--------------------------- MODULE MultiresStack ---------------------------
(***************************************************************************)
(* subdiv::Multires with the grid-stroke session of its host.  The grids   *)
(* store is the document; positions of a level (the chain), meshes of a    *)
(* few levels (slots, least recently used first) and grid domains (which   *)
(* alias the chain) are derived and dropped at will.  A level is edited    *)
(* either through its slot, folded by writeback, or in place through its   *)
(* domain, folded at the end of a stroke.  Operations are functions from   *)
(* the state of the object to its state, composed as the methods call each *)
(* other; an action is one call of the host.  The host is one thread, asks *)
(* for nothing else while a stroke is open, and does not begin a stroke    *)
(* over mesh edits it has not folded.                                      *)
(***************************************************************************)
EXTENDS LevelSurface, SequencesExt

CONSTANTS MaxLevels,  \* kMaxMultiresLevels
          Budget,     \* lruBudget: resident slots
          Mirrors,    \* what the host may set the session's mirror to
          Hosts,      \* [start, calls]: the levels a host creates the stack
                      \* with and the groups of calls it makes
          Imports,    \* may the host import positions over a stale slot
          MaxEdits    \* bound: edits of positions in a behaviour

ASSUME StackAssumption == /\ MaxLevels \in Nat
                          /\ \A h \in Hosts : h.start \in 1 .. MaxLevels
                          /\ Budget \in Nat /\ Mirrors \subseteq BOOLEAN
                          /\ Imports \in BOOLEAN /\ MaxEdits \in Nat

VARIABLES mr,      \* the Multires object
          sess,    \* the host's GridStrokeSession
          past,    \* applied steps of its log, oldest first
          future,  \* undone steps, next to redo first
          saved,   \* a blob of Multires_serializeStore
          edited,  \* ghost: the active slot holds an edit not folded yet
          edits,   \* bound on edits
          host     \* the host this is

vars == <<mr, sess, past, future, saved, edited, edits, host>>

NoBase == [v \in {} |-> 0]
Dropped == [valid |-> FALSE, pos |-> Flat, base |-> NoBase, posIsBase |-> FALSE]
NoSession == [level |-> 0, open |-> FALSE, touched |-> {}, mirror |-> FALSE]

Depth(s) == Len(s.disp)
Resident(s, l) == \E i \in DOMAIN s.slots : s.slots[i].level = l
SlotMesh(s, l) == (CHOOSE x \in ToSet(s.slots) : x.level = l).mesh
SetMesh(s, l, p) ==
    [s EXCEPT !.slots = [i \in DOMAIN @ |-> IF @[i].level = l
                                            THEN [@[i] EXCEPT !.mesh = p] ELSE @[i]]]

\* The items of the list q at the places K, in order.
Kept(q, K) ==
    [n \in 1 .. Cardinality(K) |->
        q[CHOOSE k \in K : Cardinality({j \in K : j <= k}) = n]]
Evicted(s, gone) ==
    [s EXCEPT !.slots = Kept(@, {i \in DOMAIN @ : @[i].level \notin gone})]

Resize(seq, n, x) == [i \in 1 .. n |-> IF i \in DOMAIN seq THEN seq[i] ELSE x]
Below(s, l) == IF l = 1 THEN Cage ELSE s.cache[l - 1].pos
Levels(s) == 1 .. Depth(s)

Init == /\ host \in Hosts
        /\ mr = [disp |-> [l \in 1 .. host.start |-> Plain],
                 on |-> [c \in Layers |-> TRUE], target |-> Base,
                 cache |-> [l \in 1 .. host.start |-> Dropped],
                 slots |-> <<>>, domains |-> [l \in 1 .. host.start |-> "none"],
                 fresh |-> FALSE, debt |-> {}, stale |-> {}, active |-> 0]
        /\ sess = NoSession /\ past = <<>> /\ future = <<>>
        /\ saved = [detail |-> <<>>, owes |-> {}]
        /\ edited = FALSE /\ edits = 0
-----------------------------------------------------------------------------
(* Caches.  A domain is "bound" while the session's log and executor point  *)
(* to it; fresh says domainGen_ has not moved since the session bound.      *)

DropDomains(s, above) ==
    [s EXCEPT !.domains = [l \in DOMAIN @ |-> IF l > above THEN "none" ELSE @[l]],
              !.fresh = @ /\ \A l \in Levels(s) : l > above => s.domains[l] = "none"]

InvalidateAbove(s, l) ==
    Evicted([DropDomains(s, l) EXCEPT
                !.cache = [k \in DOMAIN @ |-> IF k > l THEN Dropped ELSE @[k]]],
            l + 1 .. MaxLevels)

DispNonZero(s, l) == \E c \in Mixed(s.on) : s.disp[l][c] # Flat

Derived(s, l, base) ==
    IF DispNonZero(s, l)
    THEN [valid |-> TRUE, pos |-> Plus(base, Total(s.disp[l], Mixed(s.on))),
          base |-> base, posIsBase |-> FALSE]
    ELSE [valid |-> TRUE, pos |-> base, base |-> NoBase, posIsBase |-> TRUE]

FirstInvalid(s, l) ==
    CHOOSE k \in 1 .. l + 1 : /\ \A j \in 1 .. k - 1 : s.cache[j].valid
                              /\ k <= l => ~s.cache[k].valid

Reevaluated(s, l) == [s EXCEPT !.cache[l] = Derived(s, l, Stencil[Below(s, l)])]

\* From the first level that is not valid on, every entry is evaluated anew.
EnsureChain(s, l) ==
    LET f[k \in 0 .. l] ==
          IF k < FirstInvalid(s, l) THEN s ELSE Reevaluated(f[k - 1], k)
    IN  f[l]

\* Mutant: positions that were once the base are taken for it again.
EnsureBaseOfPos(s, l) ==
    [s EXCEPT !.cache[l] =
        IF @.base # NoBase THEN @
        ELSE [@ EXCEPT !.base = s.cache[l].pos, !.posIsBase = FALSE]]

EnsureBase(s, l) ==
    [s EXCEPT !.cache[l] =
        IF @.base # NoBase THEN @
        ELSE [@ EXCEPT !.base = IF s.cache[l].posIsBase THEN s.cache[l].pos
                                ELSE Stencil[Below(s, l)],
                       !.posIsBase = FALSE]]

Expressed(s, l, pos, vs, c) ==
    [s EXCEPT !.disp[l] = Express(@, s.on, c, s.cache[l].base, pos, vs)]
StoreDisp(s, l, pos, vs, c) == Expressed(EnsureBase(s, l), l, pos, vs, c)

\* Mutant: a new domain leaves the base of a flat level for later.
GridDomainLazy(s, l) ==
    IF s.domains[l] # "none" THEN s
    ELSE [EnsureChain(s, l) EXCEPT !.domains[l] = "new", !.fresh = FALSE]

GridDomain(s, l) ==
    IF s.domains[l] # "none" THEN s
    ELSE [EnsureBase(EnsureChain(s, l), l) EXCEPT !.domains[l] = "new", !.fresh = FALSE]

ShowsDomain(s, l) == [SetMesh(s, l, s.cache[l].pos) EXCEPT !.stale = @ \ {l}]
SyncSlot(s, l) == IF Resident(s, l) THEN ShowsDomain(GridDomain(s, l), l) ELSE s

\* Mutant: the budget is compared one off.
EvictPastBudget(s) ==
    LET idle == {i \in DOMAIN s.slots : s.slots[i].level # s.active}
    IN  IF Len(s.slots) <= Max({1, Budget}) + 1 \/ idle = {} THEN s
        ELSE Evicted(s, {s.slots[Min(idle)].level})

\* Evict the least recently used slot that is not the active level's.
EvictOverBudget(s) ==
    LET idle == {i \in DOMAIN s.slots : s.slots[i].level # s.active}
    IN  IF Len(s.slots) <= Max({1, Budget}) \/ idle = {} THEN s
        ELSE Evicted(s, {s.slots[Min(idle)].level})

Loaded(s, l) ==
    EvictOverBudget([s EXCEPT !.slots = Append(@, [level |-> l, mesh |-> s.cache[l].pos]),
                              !.stale = @ \ {l}])
Pinned(s, l) == IF s.cache[l].posIsBase THEN EnsureBase(s, l) ELSE s

Materialize(s, l) ==
    IF Resident(s, l)
    THEN [Evicted(s, {l}) EXCEPT
            !.slots = Append(@, [level |-> l, mesh |-> SlotMesh(s, l)])]
    ELSE Loaded(Pinned(EnsureChain(s, l), l), l)
-----------------------------------------------------------------------------
(* Folding edits and moving detail between levels                          *)

Owing(s, l) == IF l >= 2 THEN [s EXCEPT !.debt = @ \union {l}] ELSE s

Differing(s, l, p) == {v \in Verts : p[v] # s.cache[l].pos[v]}
Folded(s, l, p, changed) ==
    IF changed = {} THEN s
    ELSE Owing(InvalidateAbove(
                 [DropDomains(StoreDisp(s, l, p, changed, s.target), l - 1)
                    EXCEPT !.cache[l].pos = p], l), l)

Writeback(s, l) ==
    IF ~Resident(s, l) THEN s
    ELSE IF l \in s.stale THEN SyncSlot(s, l)
    ELSE Folded(s, l, SlotMesh(s, l), Differing(s, l, SlotMesh(s, l)))

\* The coarse level takes its new positions; the base of the fine one is out.
Lowered(s, l, coarse) ==
    [StoreDisp(DropDomains(s, l - 2), l - 1, coarse, Differing(s, l - 1, coarse), Base)
       EXCEPT !.cache[l - 1].pos = coarse,
              !.cache[l].base = NoBase, !.cache[l].posIsBase = FALSE]
\* The fine level is stored again, on top of the new coarse one.
Restored(s, l, fine) == [StoreDisp(s, l, fine, Verts, Base) EXCEPT !.cache[l].pos = fine]
Shown(s, l) == IF s.active = l THEN Materialize(s, l) ELSE s

CommitFit(s, l, fine, coarse) ==
    Shown(Evicted(InvalidateAbove(Restored(Lowered(s, l, coarse), l, fine), l), {l - 1}),
          l - 1)

Paid(s, l) == [s EXCEPT !.debt = @ \ {l}]
Fitted(s, l, coarse) == Owing(Paid(CommitFit(s, l, s.cache[l].pos, coarse), l), l - 1)
Current(s, l) == EnsureChain(Writeback(s, l), l)

PushedDown(s, l, coarse) ==
    IF coarse = s.cache[l - 1].pos THEN Paid(s, l) ELSE Fitted(s, l, coarse)
Weighted(s, l) == PushedDown(s, l, FullWeight[s.cache[l].pos])
PropagateDown(s, l) == Weighted(Current(s, l), l)

LeastSquared(s, l, coarse) ==
    IF coarse = s.cache[l - 1].pos THEN s ELSE Fitted(s, l, coarse)
Solved(s, l) == LeastSquared(s, l, LeastSquares[s.cache[l].pos])
Refitted(s, l) == Solved(Current(s, l), l)

\* Levels from .. to + 1, finest first; only those that owe, if lazily.
Cascade(s, from, to, lazily) ==
    LET step(t, l) == IF lazily /\ l \notin t.debt THEN t ELSE PropagateDown(t, l)
        n == Max({from - Max({to, 1}), 0})
        f[k \in 0 .. n] == IF k = 0 THEN s ELSE step(f[k - 1], from + 1 - k)
    IN  f[n]

Entered(s, to, materialize) ==
    IF materialize THEN Materialize([s EXCEPT !.active = to], to)
    ELSE [s EXCEPT !.active = to]

\* Mutant: the level switched away from is not folded when history replays.
SetActiveUnfolded(s, to, propagate, materialize) ==
    Entered(IF s.active \notin {0, to} /\ propagate
            THEN Cascade(Writeback(s, s.active), s.active, to, TRUE) ELSE s,
            to, materialize)

SetActive(s, to, propagate, materialize) ==
    Entered(IF s.active \in {0, to} THEN s
            ELSE IF propagate THEN Cascade(Writeback(s, s.active), s.active, to, TRUE)
            ELSE Writeback(s, s.active),
            to, materialize)

RefreshAfterLayerChange(s) ==
    IF s.active >= 1 THEN Materialize(InvalidateAbove(s, 0), s.active)
    ELSE InvalidateAbove(s, 0)

Targeting(s, c) ==
    IF c # Base /\ ~s.on[c]
    THEN RefreshAfterLayerChange([s EXCEPT !.target = c, !.on[c] = TRUE])
    ELSE [s EXCEPT !.target = c]
SetEditTarget(s, c) == IF c = s.target THEN s ELSE Targeting(Writeback(s, s.active), c)
-----------------------------------------------------------------------------
(* Calls of the host                                                       *)

Idle == ~sess.open

\* The call leaves the object as s; an edit of the slot is pending as long
\* as it is there and differs from its baseline.
Becomes(s) ==
    /\ mr' = s
    /\ edited' = (/\ edited /\ s.active = mr.active /\ Resident(s, s.active)
                  /\ SlotMesh(s, s.active) # s.cache[s.active].pos)

Call(s) == Becomes(s) /\ UNCHANGED <<sess, past, future, saved, edits>>
Spend == edits < MaxEdits /\ edits' = edits + 1

\* The host's own brushes move vertices of the active level's mesh.
MeshEdit ==
    /\ Idle /\ Spend /\ ~edited
    /\ mr.active >= 1 /\ Resident(mr, mr.active) /\ mr.active \notin mr.stale
    /\ \E p \in Pos \ {SlotMesh(mr, mr.active)} : mr' = SetMesh(mr, mr.active, p)
    /\ edited' = TRUE
    /\ UNCHANGED <<sess, past, future, saved>>

SwitchLevel == /\ Idle
               /\ \E l \in Levels(mr), propagate, materialize \in BOOLEAN :
                     Call(SetActive(mr, l, propagate, materialize))

MaterializeLevel == Idle /\ \E l \in Levels(mr) : Call(Materialize(mr, l))
WritebackLevel == Idle /\ \E l \in Levels(mr) : Call(Writeback(mr, l))
FetchDomain == Idle /\ \E l \in Levels(mr) : Call(GridDomain(mr, l))

\* A host refits the level it shows.
DownRefit == /\ Idle /\ mr.active >= 2 /\ Call(Refitted(mr, mr.active))

Seeded(s, l, p) ==
    Evicted(InvalidateAbove(Owing(
        StoreDisp([DropDomains(s, l - 1) EXCEPT !.cache[l].pos = p], l, p, Verts, Base),
        l), l), {l})

SeedLevel ==
    /\ Idle /\ ~edited /\ Spend
    /\ \E l \in Levels(mr), p \in Pos :
         Becomes(Seeded(EnsureBase(EnsureChain(mr, l), l), l, p))
    /\ UNCHANGED <<sess, past, future, saved>>

\* The level reached, its slot given the positions and folded; if that
\* changed anything, every coarser level is brought along.
Summarized(s, l) ==
    SetActive(InvalidateAbove(Cascade(s, l, 1, FALSE), l - 1), l, TRUE, TRUE)
Imported(s, l, p) ==
    IF l \notin s.stale /\ p # s.cache[l].pos
    THEN Summarized(Writeback(SetMesh(s, l, p), l), l)
    ELSE Writeback(SetMesh(s, l, p), l)

\* Multires_fromLevelPositions
ImportTo(l, p) ==
    /\ Idle /\ ~edited /\ (l \in mr.stale => Imports) /\ Spend
    /\ Becomes(Imported(SetActive(mr, l, TRUE, TRUE), l, p))
    /\ UNCHANGED <<sess, past, future, saved>>

FromLevelPositions == \E l \in Levels(mr), p \in Pos : ImportTo(l, p)

\* captureDetailToVdm, refused while a layer is composited; the texels the
\* displacement goes to belong to the VDM store.
Captured(s, l, base) ==
    InvalidateAbove(SetMesh([DropDomains(s, l - 1) EXCEPT
                               !.disp[l][Base] = Flat, !.cache[l].pos = base,
                               !.cache[l].valid = TRUE], l, base), l)
CapturedOnto(s, l) == Captured(s, l, Stencil[Below(s, l)])

CaptureToVdm ==
    /\ Idle /\ ~edited /\ Mixed(mr.on) = {Base}
    /\ \E l \in Levels(mr) :
         Call(CapturedOnto(IF l = 1 THEN mr ELSE EnsureChain(mr, l - 1), l))

\* The object with n levels, of which to becomes the active one.
Resized(s, n, to) ==
    SetActive([s EXCEPT !.disp = Resize(@, n, Plain), !.cache = Resize(@, n, Dropped),
                        !.domains = Resize(@, n, "none"), !.debt = @ \cap 1 .. n,
                        !.active = 0],
              to, TRUE, TRUE)

AddLevel ==
    /\ Idle /\ Depth(mr) < MaxLevels
    /\ Call(Resized(DropDomains(Writeback(mr, mr.active), 0), Depth(mr) + 1, Depth(mr) + 1))

RemoveTopLevel ==
    /\ Idle /\ Depth(mr) > 1 /\ mr.active >= 1
    /\ Call(Resized(Evicted(DropDomains(Writeback(mr, mr.active), 0), {Depth(mr)}),
                    Depth(mr) - 1, Min({mr.active, Depth(mr) - 1})))

Toggled(s, c) == RefreshAfterLayerChange([s EXCEPT !.on[c] = ~@])

LayerSetEnabled ==
    /\ Idle
    /\ \E c \in Layers :
         Call(Toggled(IF mr.on[c] /\ c = mr.target THEN SetEditTarget(mr, Base)
                      ELSE Writeback(mr, mr.active), c))

EditTarget == Idle /\ \E c \in Channels : Call(SetEditTarget(mr, c))

\* Undo snapshots are taken after a fold.
SerializeStore ==
    /\ Idle /\ ~edited
    /\ saved' = [detail |-> mr.disp, owes |-> mr.debt]
    /\ UNCHANGED <<mr, sess, past, future, edited, edits>>

RestoreStore ==
    /\ Idle /\ Len(saved.detail) = Depth(mr)
    /\ Call([InvalidateAbove([mr EXCEPT !.disp = saved.detail], 0) EXCEPT
                !.active = 0, !.debt = saved.owes])
-----------------------------------------------------------------------------
(* Grid strokes                                                            *)

\* attach() the session to the domain of its level; its log starts over.
Attached(s, l) ==
    [s EXCEPT !.domains = [k \in DOMAIN @ |-> IF k = l THEN "bound"
                                              ELSE IF @[k] = "bound" THEN "new" ELSE @[k]],
              !.fresh = TRUE]

OpenSession ==
    /\ Idle
    /\ \E l \in Levels(mr), m \in Mirrors :
         /\ Becomes(Attached(GridDomain(mr, l), l))
         /\ sess' = [NoSession EXCEPT !.level = l, !.mirror = m]
    /\ past' = <<>> /\ future' = <<>>
    /\ UNCHANGED <<saved, edits>>

SetMirror == /\ \E m \in Mirrors : sess' = [sess EXCEPT !.mirror = m]
             /\ sess.level # 0
             /\ UNCHANGED <<mr, past, future, saved, edited, edits>>

\* GridStroke_sync, then beginStep: a rebuilt domain costs the history.
Same(s) == s.domains[sess.level] = "bound" /\ s.fresh

BeginStroke ==
    /\ Idle /\ ~edited /\ sess.level \in Levels(mr) /\ sess.level = mr.active
    /\ \E s \in {GridDomain(mr, sess.level)} :
         /\ Becomes(IF Same(s) THEN s ELSE Attached(s, sess.level))
         /\ past' = IF Same(s) THEN past ELSE <<>>
    /\ future' = <<>>
    /\ sess' = [sess EXCEPT !.open = TRUE, !.touched = {}]
    /\ UNCHANGED <<saved, edits>>

\* Mutant: the mirror copies but leaves what it has not been told to.
MirroredNot(s, l, vs) ==
    IF ~Resident(s, l) THEN s ELSE [s EXCEPT !.stale = @ \ {l}]

Mirrored(s, l, vs) ==
    IF ~Resident(s, l) THEN s
    ELSE [SetMesh(s, l, [v \in Verts |-> IF v \in vs THEN s.cache[l].pos[v]
                                         ELSE SlotMesh(s, l)[v]])
            EXCEPT !.stale = @ \ {l}]

IfMirrored(s, l, vs) == IF sess.mirror THEN Mirrored(s, l, vs) ELSE s

\* The kernel moves vertices of the chain in place; the first dab that
\* reaches a leaf saves its positions (here: the step saves them at once).
Dab ==
    /\ sess.open /\ Spend
    /\ \E p \in Pos :
         LET l == sess.level
             moved == Differing(mr, l, p)
         IN  /\ moved # {}
             /\ Becomes(IfMirrored([mr EXCEPT !.cache[l].pos = p], l, moved))
             /\ sess' = [sess EXCEPT !.touched = @ \union moved]
             /\ past' = IF sess.touched # {} THEN past
                        ELSE Append(past, [pos |-> mr.cache[l].pos, chan |-> Base,
                                           disp |-> Flat, pre |-> l \in mr.debt,
                                           post |-> FALSE])
    /\ UNCHANGED <<future, saved>>

FoldStroke(s, l, vs) ==
    Owing(InvalidateAbove([StoreDisp(s, l, s.cache[l].pos, vs, s.target)
                             EXCEPT !.stale = @ \union {l}], l), l)

\* gridsFoldStroke: the blocks are saved before the store is written.
EndStroke ==
    /\ sess.open
    /\ IF sess.touched = {} THEN Becomes(mr) /\ UNCHANGED past
       ELSE /\ Becomes(IfMirrored(FoldStroke(mr, sess.level, sess.touched),
                                  sess.level, sess.touched))
            /\ past' = [past EXCEPT ![Len(past)].chan = mr.target,
                                    ![Len(past)].disp = mr.disp[sess.level][mr.target],
                                    ![Len(past)].post = sess.level \in mr'.debt]
    /\ sess' = [sess EXCEPT !.open = FALSE]
    /\ UNCHANGED <<future, saved, edits>>

\* applySwap and the debt of that side; the host syncs before it seeks, so
\* the log's domain is alive.
Replaced(l, step) ==
    InvalidateAbove([mr EXCEPT !.cache[l].pos = step.pos, !.disp[l][step.chan] = step.disp], l)
Redebted(s, l, owing) ==
    [s EXCEPT !.debt = IF l >= 2 /\ owing THEN @ \union {l} ELSE @ \ {l}]
Swapped(step, owing) ==
    IfMirrored(Redebted(Replaced(sess.level, step), sess.level, owing), sess.level, Verts)

OtherSide(step) == [step EXCEPT !.pos = mr.cache[sess.level].pos,
                                !.disp = mr.disp[sess.level][step.chan]]

CanSeek == Idle /\ ~edited /\ sess.level \in Levels(mr)
           /\ mr.domains[sess.level] = "bound"

UndoStroke ==
    /\ CanSeek /\ past # <<>>
    /\ Becomes(Swapped(Last(past), Last(past).pre))
    /\ future' = <<OtherSide(Last(past))>> \o future
    /\ past' = Front(past)
    /\ UNCHANGED <<sess, saved, edits>>

RedoStroke ==
    /\ CanSeek /\ future # <<>>
    /\ Becomes(Swapped(Head(future), Head(future).post))
    /\ past' = Append(past, OtherSide(Head(future)))
    /\ future' = Tail(future)
    /\ UNCHANGED <<sess, saved, edits>>

DropOldest == /\ Idle /\ past # <<>>
              /\ past' = Tail(past)
              /\ UNCHANGED <<mr, sess, future, saved, edited, edits>>

Next == /\ UNCHANGED host
        /\ \/ SwitchLevel
           \/ "mesh" \in host.calls /\ (MeshEdit \/ WritebackLevel)
           \/ "lazy" \in host.calls /\ (MaterializeLevel \/ FetchDomain)
           \/ "refit" \in host.calls /\ DownRefit
           \/ "import" \in host.calls /\ (SeedLevel \/ FromLevelPositions \/ CaptureToVdm)
           \/ "levels" \in host.calls /\ (AddLevel \/ RemoveTopLevel)
           \/ "layers" \in host.calls /\ (LayerSetEnabled \/ EditTarget)
           \/ "snapshot" \in host.calls /\ (SerializeStore \/ RestoreStore)
           \/ /\ "grid" \in host.calls
              /\ \/ OpenSession \/ SetMirror \/ BeginStroke \/ Dab \/ EndStroke
                 \/ UndoStroke \/ RedoStroke \/ DropOldest

Spec == Init /\ [][Next]_vars
-----------------------------------------------------------------------------
(* Properties                                                              *)

Shows(l) == Surface(mr.disp, mr.on, l)
Sculpting(l) == sess.open /\ l = sess.level

PosCache == [valid : BOOLEAN, pos : Pos, base : Pos \union {NoBase}, posIsBase : BOOLEAN]

\* Types, and the sizes of what is kept per level: one entry per level of the
\* refiner, at most Budget slots, no slot twice.
TypeOK ==
    /\ Depth(mr) \in 1 .. MaxLevels
    /\ \A l \in Levels(mr) : /\ mr.disp[l] \in [Channels -> Pos]
                             /\ mr.cache[l] \in PosCache
                             /\ mr.domains[l] \in {"none", "new", "bound"}
    /\ DOMAIN mr.cache = Levels(mr) /\ DOMAIN mr.domains = Levels(mr)
    /\ mr.on \in [Layers -> BOOLEAN] /\ mr.target \in Channels
    /\ mr.active \in 0 .. Depth(mr) /\ mr.debt \subseteq 2 .. Depth(mr)
    /\ Len(mr.slots) <= Max({1, Budget})
    /\ Cardinality({x.level : x \in ToSet(mr.slots)}) = Len(mr.slots)

\* A valid cached position is the one the store describes, whatever was
\* edited, refitted, switched, undone or restored since (ensureChain trusts
\* it); only an open stroke runs ahead of the store, at its own level.
ChainCurrent ==
    \A l \in Levels(mr) : mr.cache[l].valid /\ ~Sculpting(l) => mr.cache[l].pos = Shows(l)

\* A cached base is the subdivided surface of the level below, also when it
\* is yet to be copied from the positions: the next fold subtracts it
\* (ensureBaseAndFrames, the posIsBase hazard of grid_domain.h).
BaseCurrent ==
    \A l \in Levels(mr) :
        LET lp == mr.cache[l]
            base == Stencil[Shows(l - 1)]
        IN  lp.valid => /\ lp.base # NoBase => lp.base = base
                        /\ lp.posIsBase /\ lp.base = NoBase => lp.pos = base

\* Whatever the cache says is valid can be trusted, positions and bases alike.
CacheCurrent == ChainCurrent /\ BaseCurrent

\* What writeback and gridsWriteback assert or take for granted: a slot has
\* a valid baseline, and a domain aliases a valid chain entry whose base is
\* already copied out.
BaselinesPinned ==
    \A l \in Levels(mr) :
        /\ Resident(mr, l) /\ l \notin mr.stale => mr.cache[l].valid
        /\ mr.domains[l] # "none" => mr.cache[l].valid /\ mr.cache[l].base # NoBase

\* A slot that is not marked stale shows the level's surface, so what
\* writeback reads as an edit is one (slotStale, clearSlotStale).
SlotCurrent ==
    \A l \in Levels(mr) :
        Resident(mr, l) /\ l \notin mr.stale /\ ~Sculpting(l)
            => SlotMesh(mr, l) = Shows(l) \/ (edited /\ l = mr.active)

\* After Multires_fromLevelPositions the level shows the given positions.
ImportLands ==
    [][\A l \in Levels(mr), p \in Pos :
          ImportTo(l, p) => Surface(mr'.disp, mr'.on, l) = p]_vars

\* The document the caches hide: an edit still in the slot belongs to it.
Pending(a) ==
    [mr.disp EXCEPT ![a] = Express(@, mr.on, mr.target, Stencil[Shows(a - 1)],
                                   SlotMesh(mr, a), Verts)]
Document ==
    [detail |-> IF edited THEN Pending(mr.active) ELSE mr.disp,
     on |-> mr.on, target |-> mr.target, level |-> mr.active,
     owes |-> IF edited /\ mr.active >= 2 THEN mr.debt \union {mr.active} ELSE mr.debt]

StepOf(s) == [level |-> sess.level, chan |-> s.chan, disp |-> s.disp,
              pre |-> s.pre, post |-> s.post]
Steps(log) == [i \in DOMAIN log |-> StepOf(log[i])]

Promise == INSTANCE LevelStack WITH
    doc <- Document,
    past <- Steps(IF sess.open /\ sess.touched # {} THEN Front(past) ELSE past),
    future <- Steps(future)

\* The object implements the plain stack of levels: no edit is lost or
\* applied twice, detail moves down once, undo restores the document.
StackSpec == Promise!Spec
=============================================================================
