--------------------------- MODULE GridStrokeLog ---------------------------
(***************************************************************************)
(* The undo log of grid strokes at one level of a multires stack: first-   *)
(* touch captures, the fold of a stroke into the store, and undo and redo  *)
(* as one swap of what was captured with what is live.  Channels may come  *)
(* and go, levels may be evicted, and debts may be settled in between.     *)
(***************************************************************************)
EXTENDS GridsStore

CONSTANTS Owner,      \* the leaf (here: the grid) that owns each vertex
          Canon,      \* the grid a vertex is read back from
          Depth,      \* levels of the stack
          L,          \* the level of the session
          Layers,     \* attribute layers the brushes paint, name -> [type, persist, seed]
          Kernels,    \* what a dab may write: sets of "co", "mask" and layers
          Removable,  \* channels the host may remove
          SeekAcross, \* does the host seek over a level switch?
          MaxStrokes, MaxDabs, MaxCalls   \* bounds

\* A layer is none of the built-in fields; vertices are read back from a grid they
\* are in.
ASSUME LogAssumption ==
    /\ Verts # {} /\ IsFiniteSet(Grids)
    /\ Canon \in [Verts -> Grids] /\ \A v \in Verts : Canon[v] \in Occ[v]
    /\ Depth \in Nat /\ L \in 1 .. Depth
    /\ IsFiniteSet(DOMAIN Layers) /\ {"co", "disp", "mask"} \cap DOMAIN Layers = {}
    /\ \A n \in DOMAIN Layers : Layers[n].persist \in BOOLEAN /\ Layers[n].seed \in 0 .. M - 1
    /\ Kernels \subseteq SUBSET ({"co", "mask"} \cup DOMAIN Layers)
    /\ Removable \subseteq DOMAIN Layers

VARIABLES
  live,     \* the store, the positions and mask mirrors of the domains, the debt of L
  steps, cursor,
  open,     \* is a step being captured
  stroke,   \* what the open stroke has touched and written, its attribute mirrors
  bound,    \* is the session bound to the current generation of domains
  floor,    \* steps the host no longer undoes: they are older than a level switch
  given,    \* what each level last gave to the level below, or took along with it
  past, future, \* the documents undo and redo should lead to
  used      \* strokes, dabs, calls and incarnations used up

vars == <<live, steps, cursor, open, stroke, bound, floor, given, past, future, used>>

Levels == 1 .. Depth
None == <<>>   \* no domain, no mirror
Names == {"disp", "mask"} \cup DOMAIN Layers
NoStroke == [touched |-> {}, wrote |-> {}, column |-> [n \in DOMAIN Layers |-> None]]

Owned(g) == {v \in Verts : Owner[v] = g}
GridsOf(vs) == UNION {Occ[v] : v \in vs}
InGrid(g) == {x \in Sites : x[1] = g}

Seed(n, l) == IF n \in DOMAIN Layers THEN [x \in Sites |-> [k \in 1 .. l |-> Layers[n].seed]]
              ELSE Blank(l)

\* What a level of a channel shows: the cage's value where it holds nothing.
ValueAt(s, n, l) ==
    LET c == FindChannel(s, n) IN
      IF c = 0 \/ ~Allocated(s, l, c) THEN Seed(n, l) ELSE s[c].levels[l].val

\* What a mask mirror reads: zero where the store holds nothing.
MaskOf(s, l) == [v \in Verts |-> ValueAt(s, "mask", l)[<<Canon[v], v>>]]

Owes(s, n, l) == LET c == FindChannel(s, n) IN c # 0 /\ s[c].levels[l].owes

(* A document: what a stroke may change, by channel.                       *)

Content(lv, n) ==
    LET debts == [l \in L .. Depth |-> Owes(lv.store, n, l)] IN
      CASE n = "co" -> <<lv.pos, ValueAt(lv.store, "disp", L), lv.owes>>
        [] n = "mask" -> <<lv.mask[L], debts,
                           [l \in L + 1 .. Depth |-> ValueAt(lv.store, n, l)]>>
        [] OTHER -> <<ValueAt(lv.store, n, L), debts>>

DocNames == {"co", "mask"} \cup DOMAIN Layers
Doc(lv) == [n \in DocNames |-> Content(lv, n)]

Init ==
    /\ \E alive \in SUBSET (Levels \ {L}) :
         live = [store |-> <<NewChannel("disp", "float", "delta", TRUE, Depth, 1)>>,
                 pos |-> [v \in Verts |-> Zero(L)], owes |-> FALSE,
                 mask |-> [l \in Levels |-> IF l \in alive \cup {L}
                                            THEN [v \in Verts |-> Zero(l)] ELSE None]]
    /\ steps = <<>> /\ cursor = 0 /\ open = FALSE /\ stroke = NoStroke
    /\ bound = TRUE /\ floor = 0 /\ past = <<>> /\ future = <<>>
    /\ given = [n \in Names |-> [l \in Levels |-> Seed(n, l)]]
    /\ used = [strokes |-> 0, dabs |-> 0, calls |-> 0, toks |-> Depth + 2]
-----------------------------------------------------------------------------
(* The history the log keeps                                               *)

Debts == [L .. Depth -> BOOLEAN]
Samples(ls) == UNION {[Sites -> Sample(l)] : l \in ls}
Contents ==
    ([Verts -> Sample(L)] \X [Sites -> Sample(L)] \X BOOLEAN)
      \cup ([Verts -> Sample(L)] \X Debts \X [L + 1 .. Depth -> Samples(L + 1 .. Depth)])
      \cup ([Sites -> Sample(L)] \X Debts)

BlankDoc ==
    Doc([store |-> <<NewChannel("disp", "float", "delta", TRUE, Depth, 1)>>,
         pos |-> [v \in Verts |-> Zero(L)], owes |-> FALSE,
         mask |-> [l \in Levels |-> [v \in Verts |-> Zero(l)]]])

History == INSTANCE GridHistory WITH
    Docs <- [DocNames -> Contents], Names <- DocNames, Unwritten <- BlankDoc,
    doc <- Doc(live), past <- past, future <- future

-----------------------------------------------------------------------------
(* Identities outlive neither their channel nor their level.               *)

Identity(s, c, l) ==
    [name |-> s[c].name, chan |-> s[c].tok, lev |-> s[c].levels[l].tok, level |-> l]

\* Mutant: a channel is known by its name.
ResolveByName(s, id) == FindChannel(s, id.name)

Resolve(s, id) ==
    LET c == FindChannel(s, id.name) IN
      IF /\ c # 0 /\ id.level \in DOMAIN s[c].levels
         /\ s[c].tok = id.chan /\ s[c].levels[id.level].tok = id.lev
      THEN c ELSE 0

DebtsAt(s) == {[id |-> Identity(s, c, L), owes |-> s[c].levels[L].owes] : c \in DOMAIN s}

Block(s, c, l, g) ==
    [id |-> Identity(s, c, l), grid |-> g,
     val |-> [x \in InGrid(g) |-> s[c].levels[l].val[x]]]

\* captureGrids() of the channels cs: one made in mid-step brings its debt, a
\* block is copied once a step.
CaptureGrids(step, s, cs, grids) ==
    LET made == {c \in cs : \A d \in step.preAttr : d.id.lev # Identity(s, c, L).lev}
        new(c) == {g \in grids : \A b \in step.blocks :
                                   ~(b.id.lev = Identity(s, c, L).lev /\ b.grid = g)}
    IN  [step EXCEPT !.preAttr = @ \cup {[id |-> Identity(s, c, L),
                                          owes |-> s[c].levels[L].owes] : c \in made},
                     !.blocks = @ \cup UNION {{Block(s, c, L, g) : g \in new(c)} : c \in cs}]

\* captureFinerMask(): a level that holds nothing is put aside as a whole.
FinerMask(s, c, l, grids) ==
    [id |-> Identity(s, c, l), owes |-> s[c].levels[l].owes,
     whole |-> ~Allocated(s, l, c), state |-> s[c].levels[l],
     blocks |-> IF Allocated(s, l, c) THEN {Block(s, c, l, g) : g \in grids} ELSE {}]

CaptureFinerMask(step, s, c, grids) ==
    [step EXCEPT !.finer = @ \cup {FinerMask(s, c, l, grids) : l \in L + 1 .. Depth}]

\* captureLeaf(): the first dab of the step to reach a leaf copies what it owns.
CaptureLeaf(step, s, pos, mask, g, fields) ==
    LET newPos == "co" \in fields /\ \A n \in step.pos : n.leaf # g
        newMask == "mask" \in fields /\ \A n \in step.mask : n.leaf # g
    IN  [step EXCEPT
          !.pos = IF newPos THEN @ \cup {[leaf |-> g, val |-> [v \in Owned(g) |-> pos[v]]]}
                  ELSE @,
          !.mask = IF newMask
                   THEN @ \cup {[leaf |-> g, val |-> [v \in Owned(g) |-> mask[v]],
                                 id |-> Identity(s, FindChannel(s, "mask"), L)]}
                   ELSE @]

Opened(s, owes) ==
    [pos |-> {}, mask |-> {}, blocks |-> {}, finer |-> {}, pre |-> owes, post |-> FALSE,
     preAttr |-> DebtsAt(s), postAttr |-> {}]

Empty(step) == step.pos = {} /\ step.mask = {} /\ step.blocks = {} /\ step.finer = {}
-----------------------------------------------------------------------------
(* applySwap()                                                             *)

\* Snapshots or blocks ns, disjoint, against the values d, and the other way.
Put(d, ns) ==
    [v \in DOMAIN d |-> IF \E n \in ns : v \in DOMAIN n.val
                        THEN (CHOOSE n \in ns : v \in DOMAIN n.val).val[v] ELSE d[v]]
Taken(d, ns) == {[n EXCEPT !.val = [v \in DOMAIN @ |-> d[v]]] : n \in ns}

\* What a step keeps of level l of channel c, if it is still the same.
Kept(s, bs, c, l) == {b \in bs : Resolve(s, b.id) = c /\ b.id.level = l}

PutBlock(lev, bs) ==
    IF bs = {} THEN lev ELSE [lev EXCEPT !.held = "chunks", !.val = Put(@, bs)]
PutBlocks(s, bs) ==
    LET put(c, l) == PutBlock(s[c].levels[l], Kept(s, bs, c, l)) IN EachLevel(s, put)
TakenBlocks(s, bs) ==
    {IF Resolve(s, b.id) = 0 THEN b
     ELSE [b EXCEPT !.val = [x \in DOMAIN @ |-> s[Resolve(s, b.id)].levels[b.id.level].val[x]]]
       : b \in bs}

PutFinerLevel(lev, fs) ==
    IF fs = {} THEN lev
    ELSE LET f == CHOOSE f \in fs : TRUE IN
           IF f.whole THEN f.state ELSE [PutBlock(lev, f.blocks) EXCEPT !.owes = f.owes]
PutFiner(s, fs) ==
    LET put(c, l) == PutFinerLevel(s[c].levels[l], Kept(s, fs, c, l)) IN EachLevel(s, put)
TakenFiner(s, fs) ==
    {LET c == Resolve(s, f.id) IN
       IF c = 0 THEN f
       ELSE IF f.whole THEN [f EXCEPT !.state = s[c].levels[f.id.level]]
       ELSE [f EXCEPT !.blocks = TakenBlocks(s, @), !.owes = s[c].levels[f.id.level].owes]
         : f \in fs}

\* Finer domains are dropped with the chain above L.
Dropped(mask) == [l \in Levels |-> IF l > L THEN None ELSE mask[l]]

ApplySwap(lv, step) ==
    LET known == {n \in step.mask : Resolve(lv.store, n.id) # 0}
        s == EnsureResident(lv.store, {L})
    IN  [live |-> [lv EXCEPT !.pos = Put(@, step.pos),
                             !.mask = Dropped([lv.mask EXCEPT ![L] = Put(@, known)]),
                             !.store = PutFiner(PutBlocks(s, step.blocks), step.finer)],
         step |-> [step EXCEPT !.pos = Taken(lv.pos, @),
                               !.mask = Taken(lv.mask[L], known) \cup (@ \ known),
                               !.blocks = TakenBlocks(s, @),
                               !.finer = TakenFiner(s, @)]]

\* Debts come back to the incarnations that had them.
ApplyDebts(lv, owes, attrs) ==
    LET s == lv.store
        lev(c, l) == IF Kept(s, attrs, c, l) = {} THEN s[c].levels[l]
                     ELSE [s[c].levels[l] EXCEPT
                             !.owes = (CHOOSE d \in Kept(s, attrs, c, l) : TRUE).owes]
    IN  [lv EXCEPT !.owes = owes, !.store = EachLevel(s, lev)]

Undone(lv, step) ==
    LET w == ApplySwap(lv, step) IN
      [live |-> ApplyDebts(w.live, step.pre, step.preAttr), step |-> w.step]

\* Mutant: redo leaves the debts of the channels as they are.
RedoneSilently(lv, step) ==
    LET w == ApplySwap(lv, step) IN
      [live |-> ApplyDebts(w.live, step.post, {}), step |-> w.step]

Redone(lv, step) ==
    LET w == ApplySwap(lv, step) IN
      [live |-> ApplyDebts(w.live, step.post, step.postAttr), step |-> w.step]
-----------------------------------------------------------------------------
(* The stroke                                                              *)

\* GridStroke_begin: the session syncs first, and a new generation of domains
\* costs it its history.
BeginStroke ==
    /\ ~open /\ used.strokes < MaxStrokes
    /\ LET kept == IF bound THEN SubSeq(steps, 1, cursor) ELSE <<>> IN
         /\ steps' = Append(kept, Opened(live.store, live.owes))
         /\ cursor' = Len(kept) /\ floor' = IF bound THEN floor ELSE 0
    /\ past' = Append(IF bound THEN past ELSE <<>>, Doc(live)) /\ future' = <<>>
    /\ open' = TRUE /\ bound' = TRUE /\ stroke' = NoStroke
    /\ used' = [used EXCEPT !.strokes = @ + 1]
    /\ UNCHANGED <<live, given>>

\* The channel a field is kept in, made on demand; a new layer channel shows
\* the cage's value once it is painted on.
FieldChannel(n, tok) ==
    IF n = "mask" THEN NewChannel(n, "float", "authored", TRUE, Depth, tok)
    ELSE NewChannel(n, Layers[n].type, "authored", Layers[n].persist, Depth, tok)

EnsureChannels(s, ns, tok) ==
    LET missing == SetToSeq({n \in ns : FindChannel(s, n) = 0})
    IN  s \o [k \in DOMAIN missing |-> FieldChannel(missing[k], tok + (k - 1) * (Depth + 1))]

Seeded(ch) ==
    IF ch.name = "mask" \/ ch.levels[L].held # "none" THEN ch
    ELSE [Touched(ch, L) EXCEPT !.levels[L].val = Seed(ch.name, L)]

Ensured(s, ns, tok) ==
    LET seeded(ch) == IF ch.name \in ns THEN Seeded(ch) ELSE ch
    IN  EachChannel(EnsureChannels(s, ns, tok), seeded)

Bumped(x) == [x EXCEPT ![1] = (@ + 1) % M]

\* A dab on the leaf of v: captures, then the kernel writes the dense values.
\* A layer's mirror is gathered by the first dab of the stroke that binds it.
Dab ==
    /\ open /\ used.dabs < MaxDabs
    /\ \E fields \in Kernels, v \in Verts :
         LET ns == fields \cap (DOMAIN Layers \cup {"mask"})
             s == Ensured(live.store, ns, used.toks)
             gathered == [n \in DOMAIN Layers |->
                            IF n \in fields /\ stroke.column[n] = None
                            THEN [w \in Verts |-> ValueAt(s, n, L)[<<Canon[w], w>>]]
                            ELSE stroke.column[n]]
         IN  /\ live' = [live EXCEPT
                   !.store = s,
                   !.pos = IF "co" \in fields THEN [live.pos EXCEPT ![v] = Bumped(@)] ELSE @,
                   !.mask = IF "mask" \in fields THEN [live.mask EXCEPT ![L][v] = Bumped(@)]
                            ELSE @]
             /\ stroke' = [touched |-> stroke.touched \cup {v}, wrote |-> stroke.wrote \cup fields,
                           column |-> [n \in DOMAIN Layers |->
                              IF n \in fields THEN [gathered[n] EXCEPT ![v] = Bumped(@)]
                              ELSE gathered[n]]]
             /\ steps' = [steps EXCEPT ![Len(steps)] =
                            CaptureLeaf(@, s, live.pos, live.mask[L], Owner[v], fields)]
             /\ used' = [used EXCEPT !.dabs = @ + 1,
                                     !.toks = @ + (Len(s) - Len(live.store)) * (Depth + 1)]
    /\ UNCHANGED <<cursor, open, bound, floor, given, past, future>>

\* Dense values of the vertices vs to all their samples.
Scattered(ch, l, d, vs) ==
    [Touched(ch, l) EXCEPT
       !.levels[l].val = [x \in Sites |-> IF x[2] \in vs THEN d[x[2]] ELSE @[x]]]

\* noteAttrEdit()
NoteEdit(ch, l) ==
    IF l < 2 \/ ch.rule # "authored" \/ ~ch.persist THEN ch
    ELSE [ch EXCEPT !.levels[l].owes = TRUE]

\* What flushMaskToStore(verts) makes of the mask channel: what changed goes to
\* the finer levels too.
Flushed(ch, l, d, vs) ==
    LET t == Scattered(ch, l, d, vs)
        delta == [x \in Sites |-> Less(t.levels[l].val[x], ch.levels[l].val[x])]
    IN  NoteEdit(ProlongateEditUp(t, l, delta), l)

\* Mutant: the domains of finer levels keep the mask they have.
FlushMaskAlone(lv, l, vs) ==
    [lv EXCEPT !.store[FindChannel(lv.store, "mask")] = Flushed(@, l, lv.mask[l], vs)]

\* The domains of finer levels read their mask again.
FlushMask(lv, l, vs) ==
    LET u == [lv.store EXCEPT ![FindChannel(lv.store, "mask")] =
                Flushed(@, l, lv.mask[l], vs)]
    IN  [lv EXCEPT !.store = u,
                   !.mask = [k \in Levels |-> IF k > l /\ @[k] # None THEN MaskOf(u, k) ELSE @[k]]]

\* What gridsFoldStroke does for one field, capture before write.  w holds the
\* live state and the step.
FoldCo(w) ==
    LET s == w.live.store IN
      [step |-> CaptureGrids(w.step, s, {1}, GridsOf(stroke.touched)),
       live |-> [w.live EXCEPT !.store = [s EXCEPT ![1] = Scattered(@, L, w.live.pos, stroke.touched)],
                               !.mask = Dropped(@), !.owes = L >= 2]]

FoldMask(w) ==
    LET s == w.live.store
        c == FindChannel(s, "mask")
        grids == GridsOf(stroke.touched)
    IN  [step |-> CaptureFinerMask(CaptureGrids(w.step, s, {c}, grids), s, c, grids),
         live |-> FlushMask(w.live, L, stroke.touched)]

FoldLayers(w, ns) ==
    LET s == w.live.store
        folded(ch) == IF ch.name \notin ns THEN ch
                      ELSE NoteEdit(Scattered(ch, L, stroke.column[ch.name], stroke.touched), L)
    IN  [step |-> CaptureGrids(w.step, s, {c \in DOMAIN s : s[c].name \in ns},
                               GridsOf(stroke.touched)),
         live |-> [w.live EXCEPT !.store = EachChannel(s, folded)]]

Fold(w) ==
    LET co == IF "co" \in stroke.wrote THEN FoldCo(w) ELSE w
        mask == IF "mask" \in stroke.wrote THEN FoldMask(co) ELSE co
    IN  FoldLayers(mask, stroke.wrote \cap DOMAIN Layers)

\* A finer level whose mask is the one last handed down stays so when an edit
\* of a coarser level, or its undo, moves it.
Carried(lv) ==
    [n \in Names |-> [l \in Levels |->
        IF l > L /\ ValueAt(live.store, n, l) = given[n][l]
        THEN ValueAt(lv.store, n, l) ELSE given[n][l]]]

\* The session is not told of the domains its own fold or swap drops.
StillBound(lv) == bound /\ \A l \in Levels : live.mask[l] # None => lv.mask[l] # None

EndStroke ==
    /\ open /\ open' = FALSE
    /\ LET w == Fold([live |-> live, step |-> Last(steps)])
           step == [w.step EXCEPT !.post = w.live.owes, !.postAttr = DebtsAt(w.live.store)]
       IN  /\ live' = w.live
           /\ given' = Carried(w.live)
           /\ bound' = StillBound(w.live)
           /\ IF Empty(step)
              THEN /\ steps' = Front(steps) /\ past' = Front(past) /\ UNCHANGED cursor
              ELSE /\ steps' = Append(Front(steps), step) /\ cursor' = Len(steps)
                   /\ UNCHANGED past
    /\ stroke' = NoStroke
    /\ UNCHANGED <<floor, future, used>>
-----------------------------------------------------------------------------
(* History                                                                 *)

Undo ==
    /\ ~open /\ cursor > 0 /\ (SeekAcross \/ cursor > floor)
    /\ LET w == Undone(live, steps[cursor]) IN
         /\ live' = w.live
         /\ steps' = [steps EXCEPT ![cursor] = w.step]
         /\ given' = Carried(w.live) /\ bound' = StillBound(w.live)
    /\ cursor' = cursor - 1
    /\ past' = IF past = <<>> THEN past ELSE Front(past)
    /\ future' = <<Doc(live)>> \o future
    /\ UNCHANGED <<open, stroke, floor, used>>

Redo ==
    /\ ~open /\ cursor < Len(steps)
    /\ LET w == Redone(live, steps[cursor + 1]) IN
         /\ live' = w.live
         /\ steps' = [steps EXCEPT ![cursor + 1] = w.step]
         /\ given' = Carried(w.live) /\ bound' = StillBound(w.live)
    /\ cursor' = cursor + 1
    /\ past' = Append(past, Doc(live)) /\ future' = Tail(future)
    /\ UNCHANGED <<open, stroke, floor, used>>

\* Mutant: the oldest step goes even if it is one to redo.
DropOldestAnyway ==
    /\ ~open /\ steps # <<>>
    /\ steps' = Tail(steps) /\ cursor' = cursor - 1
    /\ floor' = IF floor = 0 THEN 0 ELSE floor - 1
    /\ past' = IF floor = 0 /\ past # <<>> THEN Tail(past) ELSE past
    /\ UNCHANGED <<live, open, stroke, bound, given, future, used>>

DropOldest ==
    /\ ~open /\ cursor >= 1
    /\ steps' = Tail(steps) /\ cursor' = cursor - 1
    /\ floor' = IF floor = 0 THEN 0 ELSE floor - 1
    /\ past' = IF floor = 0 THEN Tail(past) ELSE past
    /\ UNCHANGED <<live, open, stroke, bound, given, future, used>>

\* GridStroke_sync after the generation has changed, also on behalf of a host
\* that rebuilt the stack: the history is cleared.
Sync ==
    /\ ~open /\ ~bound
    /\ steps' = <<>> /\ cursor' = 0 /\ floor' = 0 /\ bound' = TRUE
    /\ past' = <<>> /\ future' = <<>>
    /\ UNCHANGED <<live, open, stroke, given, used>>
-----------------------------------------------------------------------------
(* What the host does to the store between strokes                         *)

Called == /\ ~open /\ used.calls < MaxCalls
          /\ used' = [used EXCEPT !.calls = @ + 1]
          /\ UNCHANGED <<open, stroke>>

\* Multires_gridChannelRemove
RemoveLayer ==
    /\ Called
    /\ \E n \in Removable :
         LET c == FindChannel(live.store, n) IN
           /\ c # 0
           /\ live' = [live EXCEPT !.store = RemoveChannel(@, c)]
           /\ given' = [given EXCEPT ![n] = [l \in Levels |-> Seed(n, l)]]
           /\ past' = History!AllWithout(past, n) /\ future' = History!AllWithout(future, n)
    /\ UNCHANGED <<steps, cursor, bound, floor>>

\* Multires_editDomainMask, by a host that has no history at stake: the domain
\* of the level is made for it.
EditMask ==
    /\ ~open /\ used.calls < MaxCalls /\ steps = <<>>
    /\ \E l \in Levels, v \in Verts :
         LET s == EnsureChannels(live.store, {"mask"}, used.toks)
             m == IF live.mask[l] = None THEN MaskOf(s, l) ELSE live.mask[l]
             edited == [m EXCEPT ![v] = Bumped(@)]
             lv == FlushMask([live EXCEPT !.store = s, !.mask[l] = edited], l, {v})
         IN  /\ live' = lv
             /\ given' = [given EXCEPT !["mask"] = [k \in Levels |->
                   IF k > l /\ ValueAt(live.store, "mask", k) = @[k]
                   THEN ValueAt(lv.store, "mask", k) ELSE @[k]]]
             /\ bound' = (bound /\ live.mask[l] # None)
             /\ used' = [used EXCEPT !.calls = @ + 1,
                                     !.toks = @ + (Len(s) - Len(live.store)) * (Depth + 1)]
    /\ UNCHANGED <<open, stroke, steps, cursor, floor, past, future>>

\* propagateAttrsDown(l)
SettledDown(lv, l) ==
    LET settled(ch) ==
          IF ~ch.levels[l].owes THEN ch
          ELSE [RestrictChannelDown(ch, l) EXCEPT
                  !.levels[l].owes = FALSE,
                  !.levels[l - 1].owes = @ \/ (l > 2 /\ ch.levels[l].held # "none")]
        s == EachChannel(lv.store, settled)
    IN  [lv EXCEPT !.store = s,
                   !.mask[l - 1] = IF @ # None /\ Owes(lv.store, "mask", l)
                                   THEN MaskOf(s, l - 1) ELSE @]

EvictFrom(s, low, active) == EvictLevels(s, (low .. Depth) \ {active})

\* setActiveLevel() one level down and back up.  What is owed is settled on the
\* way, a debt of the positions by a refit that rebuilds the domain; the store's
\* budget evicts the finest levels that are not the active one.
Switch ==
    /\ Called /\ L >= 2
    /\ LET settled == IF \E n \in Names : Owes(live.store, n, L)
                      THEN SettledDown(live, L) ELSE live IN
         /\ \E low, high \in 1 .. Depth + 1 :
              live' = [settled EXCEPT !.owes = FALSE,
                         !.store = EvictFrom(EvictFrom(@, low, L - 1), high, L)]
         /\ given' = [n \in Names |-> [l \in Levels |->
                IF l = L /\ Owes(live.store, n, L) THEN ValueAt(live.store, n, L)
                ELSE given[n][l]]]
         /\ IF live.owes
            THEN /\ steps' = <<>> /\ cursor' = 0 /\ floor' = 0 /\ bound' = TRUE
            ELSE /\ (settled = live \/ cursor = Len(steps))
                 /\ floor' = IF settled = live THEN floor ELSE cursor
                 /\ UNCHANGED <<steps, cursor, bound>>
         /\ IF live.owes \/ settled # live THEN past' = <<>> /\ future' = <<>>
            ELSE UNCHANGED <<past, future>>

Next ==
    \/ BeginStroke
    \/ Dab
    \/ EndStroke
    \/ Undo
    \/ Redo
    \/ DropOldest
    \/ Sync
    \/ RemoveLayer
    \/ EditMask
    \/ Switch

Spec == Init /\ [][Next]_vars
-----------------------------------------------------------------------------
TypeOK ==
    /\ live.pos \in [Verts -> Sample(L)]
    /\ \A l \in Levels : live.mask[l] = None \/ live.mask[l] \in [Verts -> Sample(l)]
    /\ live.mask[L] # None
    /\ cursor \in 0 .. Len(steps) /\ floor \in Nat /\ (SeekAcross \/ floor <= cursor)
    /\ (open => cursor = Len(steps) - 1)
    /\ \A c \in DOMAIN live.store :
         /\ Len(live.store[c].levels) = Depth
         /\ \A l \in Levels : /\ live.store[c].levels[l].val \in [Sites -> Sample(l)]
                              /\ live.store[c].levels[l].tok < used.toks
         /\ \A d \in DOMAIN live.store \ {c} : live.store[c].name # live.store[d].name

(* Every alive mask mirror shows what the store holds at its level, and a  *)
(* vertex on a seam has one value in all its grids: whatever wrote last,   *)
(* kernels and drawing never see a mask that is not there (grid_domain.cc, *)
(* flushMaskToStore and refreshFinerMaskMirrors).                          *)
StoreCoherent ==
    /\ TypeOK
    /\ \A l \in Levels : live.mask[l] = None \/ (open /\ l = L)
                         \/ live.mask[l] = MaskOf(live.store, l)
    /\ \A c \in DOMAIN live.store : \A l \in Levels : \A x, y \in Sites :
         x[2] = y[2] => live.store[c].levels[l].val[x] = live.store[c].levels[l].val[y]

(* Adding a level to the stack and dropping it again leaves the store as it *)
(* was: what restriction takes is what prolongation put there (grids.cc,   *)
(* addLevel and dropTopLevel), evicted levels included.                    *)
RestackIsIdentity ==
    EnsureAll(DropTopLevel(AddLevel(live.store, Depth, used.toks), Depth + 1))
      = EnsureAll(live.store)

(* A persistent authored level that owes nothing to the one below it is as *)
(* it was when it was last handed down: no undo, redo or eviction leaves a *)
(* coarser level behind for good (multires_propagate.cc, noteAttrEdit).    *)
DebtHonest ==
    ~open => \A c \in DOMAIN live.store : \A l \in Levels :
        LET ch == live.store[c] IN
          l >= 2 /\ ch.rule = "authored" /\ ch.persist /\ ~ch.levels[l].owes
            => ValueAt(live.store, ch.name, l) = given[ch.name][l]
(* The stroke log is a history of documents: undo and redo bring back, to  *)
(* the bit, what was there before and after each stroke, positions, masks  *)
(* of this and finer levels, painted layers and debts, whatever was        *)
(* evicted, removed and made again in between (grid_stroke_log.h:3).       *)
HistorySpec == History!GridSpec
=============================================================================
