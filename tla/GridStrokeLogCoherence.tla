----------------------- MODULE GridStrokeLogCoherence -----------------------
(***************************************************************************)
(* What the store, the session's domain and the stroke log hold fits       *)
(* together, for any surface, depth, layers, kernels and host: a domain    *)
(* shows the mask the store holds and every channel agrees across seams    *)
(* (StoreCoherent), whatever calls, strokes, undos and redos came before.  *)
(*                                                                         *)
(* An invariant of one state is too weak: undo writes back what a step     *)
(* captured, long after.  Each point of the history between two steps has  *)
(* a reading of its own (Valued in GridStrokeLogProofs).  The readings     *)
(* keep every mask with its domain and every seam closed, and a step,      *)
(* captured before it wrote, holds just what its two readings do not       *)
(* share.  An undo so restores the reading before its step, and a new step *)
(* adds one more reading at the end (Storied).                             *)
(*                                                                         *)
(* With each reading goes what was owed there, which the steps link as     *)
(* well (Debted); reading and debts make the document of that point, and   *)
(* past and future are the documents below and above the cursor (Told).    *)
(* So the log implements GridHistory, as long as undo and redo stay clear  *)
(* of what was edited outside the log (~SeekAcross).  The documents claim  *)
(* of the level what the store does: it is as it was handed down unless it *)
(* owes (Trusted), hence undo brings back no level without its debt.       *)
(***************************************************************************)
EXTENDS GridStrokeLogProofs

-----------------------------------------------------------------------------
(* The fold of a stroke, level by level.                                   *)

LEMMA ScatteredOver ==
  ASSUME NEW D \in Nat, NEW n \in Nat, NEW ch \in Channel(D, n), L \in 1 .. D, NEW d, NEW vs,
         NEW r, r = Scattered(ch, L, d, vs)
  PROVE  Overwritten(ch, r, vs)
<1>1. Revalued(ch, r, L, Spread(d, vs, ch.levels[L].val))
  BY ScatteredHas
<1> QED BY <1>1 DEF Revalued, Overwritten

LEMMA NotedOver ==
  ASSUME NEW D \in Nat, NEW n \in Nat, NEW ch \in Channel(D, n), NEW t \in Channel(D, n), L \in 1 .. D, NEW vs,
         Overwritten(ch, t, vs), NEW r, r = NoteEdit(t, L)
  PROVE  Overwritten(ch, r, vs)
<1>1. DOMAIN ch.levels = 1 .. D
  BY ChannelLevels
<1>2. /\ r.name = t.name /\ r.tok = t.tok /\ DOMAIN r.levels = 1 .. D
      /\ r.levels[L].tok = t.levels[L].tok /\ r.levels[L].val = t.levels[L].val
      /\ r.levels[L].held = t.levels[L].held
      /\ \A k \in 1 .. D : k # L => r.levels[k] = t.levels[k]
  BY NoteEditHas
<1> QED BY <1>1, <1>2 DEF Overwritten

\* What a part of the fold does: w before it, r after it.
FoldedTo(nm, n, d, w, r, vs, us, cs) ==
  /\ r \in Folding(nm, n) /\ Folded(n, d, r.live, r.step, vs, cs)
  /\ Alike(w.live.store, r.live.store) /\ r.step.finer = us
  /\ r.step.pos = w.step.pos /\ r.step.mask = w.step.mask

LEMMA FoldCoTo ==
  ASSUME NEW nm, Named(nm), NEW n \in Nat, NEW d, Reading(d), NEW vs, NEW w \in Folding(nm, n), stroke \in Strokes,
         Folded(n, d, w.live, w.step, vs, {}), NEW r, r = FoldCo(w)
  PROVE  FoldedTo(nm, n, d, w, r, vs, w.step.finer, {1})
<1> DEFINE s == w.live.store
           ch == Scattered(s[1], L, w.live.pos, stroke.touched)
           u == [s EXCEPT ![1] = ch]
           m == Dropped(w.live.mask)
           b == L >= 2
           lv == w.live
           grids == GridsOf(stroke.touched)
           t == CaptureGrids(w.step, s, {1}, grids)
           ts == stroke.touched
<1>1. /\ lv \in Lives(nm, n) /\ s \in Store(nm, n) /\ w.step \in Step(n) /\ 1 \in DOMAIN nm
      /\ Depth \in Nat /\ L \in 1 .. Depth /\ ts \in SUBSET Verts
  BY LogAssumption, StrokeHas DEF Folding, Lives, Named
<1>2. r \in Folding(nm, n)
  BY FoldCoIs
<1>3. r.live = [lv EXCEPT !.store = u, !.mask = m, !.owes = b] /\ r.step = t
  BY DEF FoldCo, Folding, Lives
<1>4. r.live.store = u /\ r.live.pos = lv.pos /\ r.live.mask = m
  <2> HIDE DEF u, m, b, lv, t
  <2>1. lv = [store |-> lv.store, pos |-> lv.pos, mask |-> lv.mask, owes |-> lv.owes]
    BY <1>1 DEF Lives
  <2> QED BY <1>3, <2>1
<1>5. r.live \in Lives(nm, n)
  BY <1>2 DEF Folding
<1>6. Sound(s)
  BY DEF Folded, Coherent
<1>7. nm[1] # "mask"
  <2>1. s[1].name = nm[1]
    BY <1>1, StoreHas
  <2> QED BY <1>6, <2>1 DEF Sound
<1>8. Rewritten(s, u, {1}, ts)
  <2>1. s[1] \in Channel(Depth, n)
    BY <1>1, StoreHas
  <2>2. Overwritten(s[1], ch, ts)
    BY <1>1, <2>1, ScatteredOver
  <2> HIDE DEF ch, ts
  <2>3. \A c \in DOMAIN s : u[c] = IF c = 1 THEN ch ELSE s[c]
    OBVIOUS
  <2> HIDE DEF u
  <2> QED BY <2>2, <2>3 DEF Rewritten
<1> DEFINE lw == r.live
           z == r.step
<1>9. Folded(n, d, lv, w.step, vs, {}) /\ {1} \in SUBSET DOMAIN nm /\ {} \in SUBSET DOMAIN nm
  BY <1>1
<1>10. Writes(nm, n, d, vs, {}, lv, w.step, {1}, lw, z)
  BY <1>1, <1>3, <1>4, <1>5, <1>7, <1>8, <1>9 DEF Writes
<1> HIDE DEF lv, lw, z, grids, ts, s, u, t, m
<1>11. /\ Folded(n, d, lw, z, vs, {} \cup {1}) /\ Alike(lv.store, lw.store)
       /\ z.finer = w.step.finer /\ z.pos = w.step.pos /\ z.mask = w.step.mask
  BY <1>10, WritesFold
<1>12. {} \cup {1} = {1}
  OBVIOUS
<1> QED BY <1>2, <1>11, <1>12 DEF FoldedTo, lv, lw, z

\* Channels the layers come after.
FoldedFirst(nm, from) == from \subseteq DOMAIN nm /\ \A c \in from : nm[c] \in {"disp", "mask"}

LEMMA FoldLayersTo ==
  ASSUME NEW nm, Named(nm), NEW n \in Nat, NEW d, Reading(d), NEW vs, NEW w \in Folding(nm, n), stroke \in Strokes,
         NEW ns \in SUBSET (stroke.wrote \cap DOMAIN Layers), NEW from, FoldedFirst(nm, from),
         Folded(n, d, w.live, w.step, vs, from), NEW r, r = FoldLayers(w, ns)
  PROVE  \E cs : FoldedTo(nm, n, d, w, r, vs, w.step.finer, cs)
<1> DEFINE s == w.live.store
           cs == {c \in DOMAIN s : s[c].name \in ns}
           grids == GridsOf(stroke.touched)
           t == CaptureGrids(w.step, s, cs, grids)
           T(c) == Scattered(s[c], L, stroke.column[s[c].name], stroke.touched)
           g == [c \in DOMAIN nm |-> IF s[c].name \notin ns THEN s[c] ELSE NoteEdit(T(c), L)]
           u == [c \in DOMAIN s |-> g[c]]
           lv == w.live
           lw == r.live
           ts == stroke.touched
           z == r.step
<1>1. /\ lv \in Lives(nm, n) /\ s \in Store(nm, n) /\ w.step \in Step(n)
      /\ Depth \in Nat /\ L \in 1 .. Depth /\ ts \in SUBSET Verts
  BY LogAssumption, StrokeHas DEF Folding, Lives
<1>2. DOMAIN s = DOMAIN nm
  BY <1>1 DEF Store
<1>3. r \in Folding(nm, n)
  BY Zenon, FoldLayersIs
<1>4. r.live = [lv EXCEPT !.store = u] /\ r.step = t
  BY <1>2 DEF FoldLayers, EachChannel
<1>5. lw.store = u /\ lw.pos = lv.pos /\ lw.mask = lv.mask /\ lw \in Lives(nm, n)
  <2> HIDE DEF u, lv, t
  <2>1. lv = [store |-> lv.store, pos |-> lv.pos, mask |-> lv.mask, owes |-> lv.owes]
    BY <1>1 DEF Lives
  <2> QED BY <1>3, <1>4, <2>1 DEF Folding
<1>6. \A c \in DOMAIN nm : s[c].name = nm[c] /\ s[c] \in Channel(Depth, n)
  BY <1>1, StoreHas
<1>7. cs \in SUBSET DOMAIN nm /\ \A c \in cs : nm[c] \in ns
  BY Zenon, <1>2, <1>6
<1>8. Rewritten(s, u, cs, ts)
  <2> SUFFICES ASSUME NEW c \in DOMAIN s
               PROVE  IF c \in cs THEN Overwritten(s[c], u[c], ts) ELSE u[c] = s[c]
    BY Zenon DEF Rewritten
  <2>1. c \in DOMAIN nm /\ s[c] \in Channel(Depth, n)
    BY Zenon, <1>2, <1>6
  <2>2. c \notin cs => u[c] = s[c]
    BY <2>1
  <2>3. CASE c \in cs
    <3> DEFINE e == stroke.column[s[c].name]
               q == T(c)
    <3>1. e \in [Verts -> Sample(L)]
      BY Zenon, <2>3, StrokeHas DEF MaskAt
    <3>2. u[c] = NoteEdit(q, L)
      BY <2>1, <2>3
    <3>3. q = Scattered(s[c], L, e, ts)
      OBVIOUS
    <3> HIDE DEF e, s, ts, cs, u, q
    <3>4. q \in Channel(Depth, n)
      BY <1>1, <2>1, <3>1, <3>3, ScatteredIs
    <3>5. Overwritten(s[c], q, ts)
      BY <1>1, <2>1, <3>3, ScatteredOver
    <3> DEFINE ch == s[c]
               v == u[c]
    <3>6. ch \in Channel(Depth, n) /\ Overwritten(ch, q, ts) /\ v = NoteEdit(q, L)
      BY <2>1, <3>2, <3>5
    <3> HIDE DEF ch, v
    <3>7. Overwritten(ch, v, ts)
      BY <1>1, <3>4, <3>6, NotedOver
    <3> QED BY <2>3, <3>7 DEF ch, v
  <2> QED BY <2>2, <2>3
<1>9. /\ cs \cap from = {} /\ \A c \in cs : nm[c] # "mask"
  BY <1>7, LogAssumption DEF FoldedFirst
<1>10. Writes(nm, n, d, vs, from, lv, w.step, cs, lw, z)
  BY Zenon, <1>1, <1>4, <1>5, <1>7, <1>8, <1>9 DEF Writes, FoldedFirst
<1> HIDE DEF lv, lw, z, grids, ts, s, u, t, g, cs
<1>13. /\ Folded(n, d, lw, z, vs, from \cup cs) /\ Alike(lv.store, lw.store)
       /\ z.finer = w.step.finer /\ z.pos = w.step.pos /\ z.mask = w.step.mask
  BY <1>10, WritesFold
<1> QED BY <1>3, <1>13 DEF FoldedTo, lv, lw, z

\* The fold of the mask, of channel c.
MaskWrites(nm, n, d, vs, from, lv, step, c, lw, t) ==
  /\ lv \in Lives(nm, n) /\ step \in Step(n) /\ step.finer = {} /\ Folded(n, d, lv, step, vs, from)
  /\ from \subseteq DOMAIN nm /\ (\A e \in from : nm[e] = "disp") /\ c \in DOMAIN nm /\ nm[c] = "mask"
  /\ \E ts \in SUBSET Verts :
       /\ vs \subseteq ts /\ lw = FlushMask(lv, L, ts)
       /\ t = CaptureFinerMask(CaptureGrids(step, lv.store, {c}, GridsOf(ts)), lv.store, c, GridsOf(ts))

LEMMA MaskWritesFold ==
  ASSUME NEW nm, Named(nm), NEW n \in Nat, NEW d, Reading(d), NEW vs, NEW from, NEW lv, NEW step, NEW c,
         NEW lw, NEW t, MaskWrites(nm, n, d, vs, from, lv, step, c, lw, t)
  PROVE  /\ lw \in Lives(nm, n) /\ Folded(n, d, lw, t, {}, from \cup {c}) /\ Alike(lv.store, lw.store)
         /\ t.pos = step.pos /\ t.mask = step.mask
<1>1. PICK ts \in SUBSET Verts :
        /\ vs \subseteq ts /\ lw = FlushMask(lv, L, ts)
        /\ t = CaptureFinerMask(CaptureGrids(step, lv.store, {c}, GridsOf(ts)), lv.store, c, GridsOf(ts))
  BY DEF MaskWrites
<1>2. PICK grids : grids = GridsOf(ts)
  OBVIOUS
<1>a. PICK cs : cs = {c}
  OBVIOUS
<1>3. PICK first : first = CaptureGrids(step, lv.store, cs, grids)
  OBVIOUS
<1>4. t = CaptureFinerMask(first, lv.store, c, grids)
  BY <1>1, <1>2, <1>3, <1>a
<1>5. /\ lv \in Lives(nm, n) /\ step \in Step(n) /\ step.finer = {}
      /\ c \in DOMAIN nm /\ nm[c] = "mask" /\ cs \in SUBSET DOMAIN nm
  BY <1>a DEF MaskWrites
<1>6. /\ from \subseteq DOMAIN nm /\ (\A e \in from : nm[e] = "disp") /\ Folded(n, d, lv, step, vs, from)
  BY DEF MaskWrites
<1>7. lv.store \in Store(nm, n) /\ L \in Levels /\ lv.mask[L] \in MaskAt(L) /\ lv.mask \in Masks
  BY <1>5, MasksAre DEF Lives
<1>8. DOMAIN lv.store = DOMAIN nm /\ \A i \in DOMAIN nm : lv.store[i].name = nm[i] /\ DOMAIN lv.store[i].levels = Levels
  BY <1>7, StoreHas, StoreForm DEF Levels
<1>9. /\ SoundStep(step, n) /\ Coherent(lv) /\ Sound(lv.store) /\ Seamless(lv.store)
      /\ Leads(lv.store, step, d, Reads(lv))
  BY <1>6 DEF Folded, Coherent
<1>10. /\ \A w \in Verts : w \notin ts => lv.mask[L][w] = MaskOf(lv.store, L)[w]
       /\ \A k \in Levels : k # L => lv.mask[k] = None \/ lv.mask[k] = MaskOf(lv.store, k)
       /\ \A b \in step.blocks : \E e \in from : b.id.lev = lv.store[e].levels[L].tok
  BY <1>1, <1>6 DEF Folded, Coherent
<1>11. Misses(step, lv.store, cs)
  <2>1. ASSUME NEW b \in step.blocks, b.id.lev = lv.store[c].levels[L].tok PROVE FALSE
    <3>1. PICK e \in from : b.id.lev = lv.store[e].levels[L].tok
      BY <1>10
    <3>2. e \in DOMAIN lv.store /\ c \in DOMAIN lv.store /\ nm[e] = "disp"
      BY <1>5, <1>6, <1>8
    <3>3. e = c
      BY <1>9, <2>1, <3>1, <3>2 DEF Sound
    <3> QED BY <1>5, <3>2, <3>3
  <2> QED BY <1>a, <2>1 DEF Misses
<1>12. /\ first.pos = step.pos /\ first.mask = step.mask /\ first.finer = step.finer /\ SoundStep(first, n)
       /\ first.blocks = step.blocks \cup BlocksIn(lv.store, cs, grids)
  BY <1>3, <1>5, <1>7, <1>9, <1>11, CaptureGridsHas
<1>13. Leads(lv.store, first, d, Reads(lv)) /\ Covers(nm, lv.store, first, cs, grids)
  BY <1>3, <1>5, <1>9, <1>11, CaptureGridsLeads
<1>14. first \in Step(n) /\ first.finer = {}
  <2>1. grids \in SUBSET Grids
    BY <1>2, GridsOfIs
  <2>2. first \in Step(n)
    BY <1>3, <1>5, <1>7, <2>1, CaptureGridsIs
  <2> QED BY <1>5, <1>12, <2>2
<1>15. /\ t.pos = first.pos /\ t.mask = first.mask /\ t.blocks = first.blocks /\ SoundStep(t, n)
       /\ Leads(lv.store, t, d, Reads(lv))
       /\ CoversFiner(lv.store, first, t, c, grids)
  BY <1>4, <1>5, <1>9, <1>12, <1>13, <1>14, CaptureFinerLeads
<1>16. /\ lw \in Lives(nm, n) /\ lw.pos = lv.pos
       /\ \A i \in DOMAIN nm : i # c => lw.store[i] = lv.store[i]
       /\ Renewed(lv.store[c], lw.store[c], L, lv.mask[L], ts, Depth)
       /\ \A k \in Levels : lw.mask[k] = IF k > L /\ lv.mask[k] # None THEN MaskOf(lw.store, k) ELSE lv.mask[k]
  BY <1>1, <1>5, <1>7, <1>9, FlushMaskHas
<1>17. /\ Sound(lw.store) /\ Seamless(lw.store) /\ Alike(lv.store, lw.store)
       /\ \A k \in Levels : lw.mask[k] = None \/ lw.mask[k] = MaskOf(lw.store, k)
  BY <1>1, <1>5, <1>7, <1>9, <1>10, FlushMaskCoherent
<1>18. lw.mask[L] = lv.mask[L] /\ lw.mask[L] = MaskOf(lw.store, L)
  <2>1. ~(L > L)
    BY LogAssumption
  <2>2. DOMAIN lv.mask[L] = Verts
    BY <1>7 DEF MaskAt
  <2>3. lv.mask[L] # None
    BY <2>2, LogAssumption DEF None
  <2> QED BY <1>7, <1>16, <1>17, <2>1, <2>3
<1>19. Guarded(nm, lv.store, lw.store, t)
  <2> SUFFICES ASSUME NEW i \in DOMAIN nm, NEW l \in Levels, <<nm[i], l>> \in InStore, NEW x \in Sites
               PROVE  \/ lw.store[i].levels[l].val[x] = lv.store[i].levels[l].val[x]
                      \/ \E q \in Patches(lv.store, t, <<nm[i], l>>) : x \in DOMAIN q
    BY DEF Guarded
  <2>1. CASE i # c
    <3>1. lw.store[i] = lv.store[i]
      BY <1>16, <2>1
    <3> QED BY <3>1
  <2>2. CASE i = c /\ l = L
    <3>1. CASE x[2] \in ts
      <4>1. x[1] \in grids
        BY <1>2, <3>1 DEF Sites, GridsOf
      <4>2. \E q \in Patches(lv.store, first, <<nm[c], L>>) : x \in DOMAIN q
        BY <1>13, <1>a, <4>1 DEF Covers
      <4>3. Patches(lv.store, t, <<nm[c], L>>) = Patches(lv.store, first, <<nm[c], L>>)
        BY <1>15, <2>2 DEF CoversFiner
      <4> QED BY <2>2, <4>2, <4>3
    <3>2. CASE x[2] \notin ts
      <4>1. lw.store[c].levels[L].val = Spread(lv.mask[L], ts, lv.store[c].levels[L].val)
        BY <1>16 DEF Renewed
      <4>2. lw.store[c].levels[L].val[x] = lv.store[c].levels[L].val[x]
        BY <3>2, <4>1, SpreadIs
      <4> QED BY Zenon, <2>2, <4>2
    <3> QED BY <3>1, <3>2
  <2>3. CASE i = c /\ l # L
    <3>1. l \in L + 1 .. Depth
      <4>1. l >= L
        <5> DEFINE p == <<nm[i], l>>
        <5>1. p \in InStore /\ p[2] = l
          OBVIOUS
        <5> HIDE DEF p
        <5>2. p[2] >= L
          BY <5>1, SpotsAre
        <5> QED BY <5>1, <5>2
      <4> QED BY <2>3, <4>1, LogAssumption DEF Levels
    <3>2. nm[i] = "mask"
      BY <1>5, <2>3
    <3>3. CASE x[1] \in grids \/ lv.store[c].levels[l].held = "none"
      <4>1. \E q \in Patches(lv.store, t, <<"mask", l>>) : x \in DOMAIN q
        BY <1>15, <3>1, <3>3 DEF CoversFiner
      <4> QED BY <3>2, <4>1
    <3>4. CASE ~(x[1] \in grids \/ lv.store[c].levels[l].held = "none")
      <4>1. x[2] \notin ts
        BY <1>2, <3>4 DEF Sites, GridsOf
      <4>2. l \in 1 .. Depth /\ l > L
        BY <3>1, LogAssumption
      <4>3. lw.store[c].levels[l].val[x] = lv.store[c].levels[l].val[x]
        BY <1>16, <3>4, <4>1, <4>2 DEF Renewed
      <4> QED BY <2>3, <4>3
    <3> QED BY <3>3, <3>4
  <2> QED BY <2>1, <2>2, <2>3
<1>20. Leads(lw.store, t, d, Reads(lw))
  BY <1>5, <1>15, <1>16, <1>17, <1>18, <1>19, WriteLeads
<1>21. Coherent(lw)
  BY <1>17 DEF Coherent
<1>22. \A b \in t.blocks : \E e \in from \cup {c} : b.id.lev = lw.store[e].levels[L].tok
  <2>1. \A e \in DOMAIN nm : lw.store[e].levels[L].tok = lv.store[e].levels[L].tok
    BY <1>7, <1>8, <1>17 DEF Alike
  <2>2. \A b \in BlocksIn(lv.store, cs, grids) : b.id.lev = lv.store[c].levels[L].tok
    BY <1>5, <1>7, <1>a, BlockHas DEF BlocksIn
  <2>3. t.blocks = step.blocks \cup BlocksIn(lv.store, cs, grids)
    BY <1>12, <1>15
  <2> QED BY <1>5, <1>6, <1>10, <2>1, <2>2, <2>3
<1>23. Folded(n, d, lw, t, {}, from \cup {c})
  BY <1>15, <1>18, <1>20, <1>21, <1>22 DEF Folded
<1> QED BY <1>12, <1>15, <1>16, <1>17, <1>23

LEMMA FoldMaskTo ==
  ASSUME NEW nm, Named(nm), NEW n \in Nat, NEW d, Reading(d), NEW vs, NEW w \in Folding(nm, n), stroke \in Strokes,
         vs \subseteq stroke.touched, NEW from, from \subseteq DOMAIN nm, \A e \in from : nm[e] = "disp",
         Folded(n, d, w.live, w.step, vs, from), w.step.finer = {}, NEW c \in DOMAIN nm, nm[c] = "mask",
         NEW r, r = FoldMask(w)
  PROVE  FoldedTo(nm, n, d, w, r, {}, r.step.finer, from \cup {c})
<1> DEFINE lv == w.live
           lw == r.live
           z == r.step
           step == w.step
           ts == stroke.touched
<1>1. lv \in Lives(nm, n) /\ lv.store \in Store(nm, n) /\ step \in Step(n) /\ ts \in SUBSET Verts
  BY StrokeHas DEF Folding, Lives
<1>2. r \in Folding(nm, n)
  BY FoldMaskIs
<1>3. FindChannel(lv.store, "mask") = c
  BY <1>1, FindAt
<1>4. /\ z = CaptureFinerMask(CaptureGrids(step, lv.store, {c}, GridsOf(ts)), lv.store, c, GridsOf(ts))
      /\ lw = FlushMask(lv, L, ts)
  BY <1>3 DEF FoldMask
<1>5. MaskWrites(nm, n, d, vs, from, lv, step, c, lw, z)
  <2> HIDE DEF lv, lw, z, ts
  <2>1. /\ vs \subseteq ts /\ Folded(n, d, lv, step, vs, from)
    BY DEF lv, ts
  <2> HIDE DEF step
  <2>2. step.finer = {}
    BY DEF step
  <2> QED BY <1>1, <1>4, <2>1, <2>2 DEF MaskWrites
<1> HIDE DEF lv, lw, z, ts, step
<1>6. /\ Folded(n, d, lw, z, {}, from \cup {c}) /\ Alike(lv.store, lw.store)
      /\ z.pos = step.pos /\ z.mask = step.mask
  BY <1>5, MaskWritesFold
<1> QED BY <1>2, <1>6 DEF FoldedTo, lv, lw, z, step

\* What is left of w after a part of the fold, or all of it.
FoldedFrom(nm, n, d, w, r, vs, from) ==
  /\ r \in Folding(nm, n) /\ Folded(n, d, r.live, r.step, vs, from)
  /\ Alike(w.live.store, r.live.store)
  /\ r.step.pos = w.step.pos /\ r.step.mask = w.step.mask

LEMMA FoldTo ==
  ASSUME NEW nm, Named(nm), NEW n \in Nat, NEW d, Reading(d), NEW vs, NEW w \in Folding(nm, n), stroke \in Strokes,
         vs = IF "mask" \in stroke.wrote THEN stroke.touched ELSE {},
         "mask" \in stroke.wrote => \E c \in DOMAIN nm : nm[c] = "mask",
         Folded(n, d, w.live, w.step, vs, {}), w.step.finer = {},
         NEW r, r = Fold(w)
  PROVE  \E cs : FoldedFrom(nm, n, d, w, r, {}, cs)
<1> DEFINE co == IF "co" \in stroke.wrote THEN FoldCo(w) ELSE w
           mask == IF "mask" \in stroke.wrote THEN FoldMask(co) ELSE co
           ns == stroke.wrote \cap DOMAIN Layers
<1>1. r = FoldLayers(mask, ns)
  BY DEF Fold
<1>2. Sound(w.live.store) /\ w.live \in Lives(nm, n) /\ w.live.store \in Store(nm, n) /\ 1 \in DOMAIN nm
  BY DEF Folded, Coherent, Folding, Lives, Named
<1>3. nm[1] = "disp"
  <2>1. w.live.store[1].name = nm[1]
    BY <1>2, StoreHas
  <2> QED BY <1>2, <2>1 DEF Sound
<1>4. Alike(w.live.store, w.live.store)
  BY DEF Alike
<1>5. \E from : FoldedFrom(nm, n, d, w, co, vs, from) /\ from \subseteq {1} /\ co.step.finer = {}
  <2>1. CASE "co" \in stroke.wrote
    <3>1. co = FoldCo(w)
      BY <2>1
    <3> HIDE DEF co
    <3>2. FoldedTo(nm, n, d, w, co, vs, w.step.finer, {1})
      BY <3>1, FoldCoTo
    <3>3. FoldedFrom(nm, n, d, w, co, vs, {1}) /\ co.step.finer = {}
      BY <3>2 DEF FoldedTo, FoldedFrom
    <3> QED BY <3>3
  <2>2. CASE "co" \notin stroke.wrote
    <3>1. co = w
      BY <2>2
    <3> HIDE DEF co
    <3>2. FoldedFrom(nm, n, d, w, co, vs, {}) /\ co.step.finer = {}
      BY <1>4, <3>1 DEF FoldedFrom
    <3> QED BY <3>2
  <2> QED BY <2>1, <2>2
<1>6. PICK from : FoldedFrom(nm, n, d, w, co, vs, from) /\ from \subseteq {1} /\ co.step.finer = {}
  BY <1>5
<1> HIDE DEF co
<1>7. co \in Folding(nm, n) /\ Folded(n, d, co.live, co.step, vs, from) /\ Alike(w.live.store, co.live.store)
  BY <1>6 DEF FoldedFrom
<1>8. \E at : FoldedFrom(nm, n, d, w, mask, {}, at) /\ FoldedFirst(nm, at)
  <2>1. CASE "mask" \in stroke.wrote
    <3>1. PICK c \in DOMAIN nm : nm[c] = "mask"
      BY <2>1
    <3>2. mask = FoldMask(co) /\ vs \subseteq stroke.touched
      BY <2>1
    <3> HIDE DEF mask
    <3>3. from \subseteq DOMAIN nm /\ \A e \in from : nm[e] = "disp"
      BY <1>2, <1>3, <1>6
    <3>4. FoldedTo(nm, n, d, co, mask, {}, mask.step.finer, from \cup {c})
      BY <1>6, <1>7, <3>1, <3>2, <3>3, FoldMaskTo
    <3>5. Alike(w.live.store, mask.live.store)
      BY <1>7, <3>4, AlikeTrans DEF FoldedTo
    <3>6. FoldedFrom(nm, n, d, w, mask, {}, from \cup {c})
      BY <1>6, <3>4, <3>5 DEF FoldedTo, FoldedFrom
    <3>7. FoldedFirst(nm, from \cup {c})
      BY <3>1, <3>3 DEF FoldedFirst
    <3> QED BY <3>6, <3>7
  <2>2. CASE "mask" \notin stroke.wrote
    <3>1. mask = co /\ vs = {}
      BY <2>2
    <3> HIDE DEF mask
    <3>2. FoldedFrom(nm, n, d, w, mask, {}, from)
      BY <1>6, <3>1
    <3>3. FoldedFirst(nm, from)
      BY <1>2, <1>3, <1>6 DEF FoldedFirst
    <3> QED BY <3>2, <3>3
  <2> QED BY <2>1, <2>2
<1>9. PICK at : FoldedFrom(nm, n, d, w, mask, {}, at) /\ FoldedFirst(nm, at)
  BY <1>8
<1> HIDE DEF mask
<1>10. mask \in Folding(nm, n) /\ Folded(n, d, mask.live, mask.step, {}, at) /\ Alike(w.live.store, mask.live.store)
  BY <1>9 DEF FoldedFrom
<1>11. ns \in SUBSET (stroke.wrote \cap DOMAIN Layers)
  OBVIOUS
<1> HIDE DEF ns
<1>12. PICK cs : FoldedTo(nm, n, d, mask, r, {}, mask.step.finer, cs)
  BY <1>1, <1>9, <1>10, <1>11, FoldLayersTo
<1>13. Alike(w.live.store, r.live.store)
  BY <1>10, <1>12, AlikeTrans DEF FoldedTo
<1>14. FoldedFrom(nm, n, d, w, r, {}, cs)
  BY <1>9, <1>12, <1>13 DEF FoldedTo, FoldedFrom
<1> QED BY <1>14

\* The fold of a stroke starts where its dabs have left off.
LEMMA FoldStarts ==
  ASSUME NEW nm, Named(nm), NEW n \in Nat, NEW lv \in Lives(nm, n), Coherent(lv),
         NEW step, SoundStep(step, n), NEW k, NEW d, Reading(d), Calm(d), Capturing(d, lv, step, k),
         Leads(lv.store, step, d, Reads(lv)),
         NEW vs, vs = IF "mask" \in k.wrote THEN k.touched ELSE {}
  PROVE  Folded(n, d, lv, step, vs, {})
<1> DEFINE p == <<"mask", L>>
           s == lv.store
<1>1. /\ step.blocks = {} /\ step.finer = {}
      /\ \A v \in Verts : lv.mask[L][v] = d[Dense][v] \/ (v \in k.touched /\ "mask" \in k.wrote)
  BY DEF Capturing
<1>2. s \in Store(nm, n) /\ L \in Levels /\ Sound(s)
  BY LogAssumption DEF Lives, Levels, Coherent
<1>3. p \in InStore /\ p[1] = "mask" /\ p[2] = L
  BY LogAssumption, SpotsAre
<1>4. Patches(s, step, p) = {}
  <2>1. Here(s, step.blocks, p) = {}
    BY <1>1 DEF Here
  <2>2. Patches(s, step, p) = ValsOf(Here(s, step.blocks, p))
    BY <1>3, PatchesAre
  <2> QED BY <2>1, <2>2 DEF ValsOf
<1>5. Reads(lv)[p] = Raw(s, "mask", L)
  BY <1>3, ReadsAre
<1> HIDE DEF p
<1>6. d[p] = Reads(lv)[p]
  <2>1. p \in Spots /\ p \notin {Pos, Dense}
    BY <1>3, SpotsAre
  <2>2. Reading(Reads(lv))
    BY ReadsAre
  <2>3. d[p] \in [Sites -> Sample(L)] /\ Reads(lv)[p] \in [Sites -> Sample(L)]
    BY <1>3, <2>1, <2>2 DEF Reading, ReadingAt
  <2>4. Patched({}, d[p], Reads(lv)[p])
    BY <1>4, <2>1 DEF Leads
  <2> QED BY <2>3, <2>4, PatchedNone
<1>7. \A v \in Verts : d[Dense][v] = MaskOf(s, L)[v]
  <2>1. MaskOf(s, L) = MaskFrom(Raw(s, "mask", L))
    BY <1>2, MaskRaw
  <2>2. \A v \in Verts : d[Dense][v] = d[p][<<Canon[v], v>>]
    BY DEF Calm, p
  <2> QED BY <1>5, <1>6, <2>1, <2>2 DEF MaskFrom
<1>8. \A v \in Verts : v \in vs \/ lv.mask[L][v] = MaskOf(s, L)[v]
  BY <1>1, <1>7
<1>9. \A b \in step.blocks : \E c \in {} : b.id.lev = lv.store[c].levels[L].tok
  BY <1>1
<1> QED BY <1>8, <1>9 DEF Folded

\* What endStroke() adds to the step, the debts, leads nowhere.
Closed(step, b, s) == [step EXCEPT !.post = b, !.postAttr = DebtsAt(s)]

LEMMA ClosedStep ==
  ASSUME NEW nm, Named(nm), NEW n \in Nat, NEW s \in Store(nm, n), NEW step \in Step(n), SoundStep(step, n),
         NEW b, NEW t, t = Closed(step, b, s)
  PROVE  /\ SoundStep(t, n) /\ t.pos = step.pos /\ t.mask = step.mask /\ t.blocks = step.blocks
         /\ t.finer = step.finer /\ \A u, d, e : Leads(u, step, d, e) => Leads(u, t, d, e)
<1>1. DOMAIN s = DOMAIN nm
  BY StoreForm
<1>2. \A d \in DebtsAt(s) : d.id.level = L /\ d.id.chan < n
  <2>1. ASSUME NEW c \in DOMAIN s PROVE Identity(s, c, L).level = L /\ Identity(s, c, L).chan < n
    <3>1. s[c] \in Channel(Depth, n)
      BY <1>1, StoreHas
    <3>2. s[c].tok \in 0 .. n - 1
      BY <3>1 DEF Channel
    <3> QED BY <3>2 DEF Identity
  <2> QED BY <2>1 DEF DebtsAt
<1> DEFINE a == DebtsAt(s)
<1>3. t = [step EXCEPT !.post = b, !.postAttr = a]
  BY DEF Closed
<1>4. \A d \in a : d.id.level = L /\ d.id.chan < n
  BY <1>2
<1> HIDE DEF a
<1>5. /\ t.pos = step.pos /\ t.mask = step.mask /\ t.blocks = step.blocks /\ t.finer = step.finer
      /\ t.preAttr = step.preAttr /\ t.postAttr = a
  <2>1. step = [pos |-> step.pos, mask |-> step.mask, blocks |-> step.blocks, finer |-> step.finer,
                pre |-> step.pre, post |-> step.post, preAttr |-> step.preAttr,
                postAttr |-> step.postAttr]
    BY DEF Step
  <2> QED BY <1>3, <2>1
<1>6. SoundStep(t, n)
  <2>1. \A d \in t.preAttr \cup t.postAttr : d.id.level = L /\ d.id.chan < n
    BY <1>4, <1>5 DEF SoundStep
  <2> QED BY <1>5, <2>1 DEF SoundStep
<1>7. \A u, p : Patches(u, t, p) = Patches(u, step, p)
  BY <1>5 DEF Patches
<1>8. \A u, d, e : Leads(u, step, d, e) => Leads(u, t, d, e)
  BY <1>7 DEF Leads
<1> QED BY <1>5, <1>6, <1>8

\* An empty step leads from a reading to itself.
LEMMA EmptyLeads ==
  ASSUME NEW n, NEW s, NEW step, SoundStep(step, n), Empty(step), NEW d, Reading(d), NEW e, Reading(e),
         Leads(s, step, d, e)
  PROVE  d = e
<1>1. step.pos = {} /\ step.mask = {} /\ step.blocks = {} /\ step.finer = {}
  BY DEF Empty
<1>2. ASSUME NEW p \in Spots PROVE d[p] = e[p]
  <2>1. Patches(s, step, p) = {}
    BY <1>1 DEF Patches, ValsOf, Here
  <2>2. Patched({}, d[p], e[p])
    BY <2>1 DEF Leads
  <2>3. d[p] \in ReadingAt(p) /\ e[p] \in ReadingAt(p)
    BY DEF Reading
  <2>4. CASE p \in {Pos, Dense}
    <3>1. d[p] \in [Verts -> Sample(L)] /\ e[p] \in [Verts -> Sample(L)]
      BY <2>3, <2>4 DEF ReadingAt, MaskAt
    <3> QED BY <2>2, <3>1, PatchedNone
  <2>5. CASE p \notin {Pos, Dense}
    <3>1. d[p] \in [Sites -> Sample(p[2])] /\ e[p] \in [Sites -> Sample(p[2])]
      BY <2>3, <2>5 DEF ReadingAt
    <3> QED BY <2>2, <3>1, PatchedNone
  <2> QED BY <2>4, <2>5
<1> QED BY <1>2, ReadingsEqual

LEMMA EndStrokeValues ==
  ASSUME Inv, NEW ds, Valued(ds), EndStroke
  PROVE  \E es : Valued(es)' /\ \A k \in 1 .. Len(steps) : es[k] = ds[k]
<1> DEFINE N == Len(steps)
           n == used.toks
           w0 == [live |-> live, step |-> Last(steps)]
           w == Fold(w0)
           step == Closed(w.step, w.live.owes, w.live.store)
           vs == IF "mask" \in stroke.wrote THEN stroke.touched ELSE {}
           front == Front(steps)
<1>1. /\ open /\ open' = FALSE /\ live' = w.live /\ used' = used
      /\ IF Empty(step) THEN steps' = front /\ cursor' = cursor
         ELSE steps' = Append(front, step) /\ cursor' = Len(steps)
  BY DEF EndStroke, Closed
<1>2. PICK nm : /\ Named(nm) /\ live \in Lives(nm, n) /\ live.store \in Store(nm, n) /\ n \in Nat
                /\ (open /\ "mask" \in stroke.wrote => \E c \in DOMAIN nm : nm[c] = "mask")
  BY StoredAs
<1>3. /\ steps \in Seq(Step(n)) /\ cursor = N - 1 /\ N \in Nat \ {0} /\ stroke \in Strokes
  BY <1>1 DEF Inv, Logged
<1>4. /\ Chain(ds, live, steps, N, FALSE) /\ Coherent(live)
      /\ \A k \in 1 .. N : SoundStep(steps[k], n)
      /\ Capturing(ds[N], live, steps[N], stroke)
  BY <1>1, OpenHas
<1>5. /\ \A k \in 1 .. N + 1 : Reading(ds[k]) /\ (k # N + 1 => Calm(ds[k]))
      /\ DOMAIN ds = 1 .. N + 1 /\ ds[N + 1] = Reads(live)
      /\ \A k \in 1 .. N : Leads(live.store, steps[k], ds[k], ds[k + 1])
  <2>1. \A k \in 1 .. N : k <= N
    BY <1>3
  <2> QED BY <1>4, <2>1 DEF Chain
<1>6. N \in 1 .. N /\ N \in 1 .. N + 1 /\ N # N + 1 /\ Last(steps) = steps[N] /\ steps[N] \in Step(n)
  BY <1>3 DEF Last
<1>7. Reading(ds[N]) /\ Calm(ds[N])
  BY <1>5, <1>6
<1>8. Folded(n, ds[N], live, steps[N], vs, {}) /\ steps[N].finer = {}
  <2> DEFINE lv == live
             k == stroke
             st == steps[N]
             d == ds[N]
  <2>1. /\ lv \in Lives(nm, n) /\ Coherent(lv) /\ SoundStep(st, n) /\ Reading(d) /\ Calm(d)
        /\ Capturing(d, lv, st, k) /\ Leads(lv.store, st, d, Reads(lv))
        /\ vs = IF "mask" \in k.wrote THEN k.touched ELSE {}
    BY <1>2, <1>4, <1>5, <1>6, <1>7
  <2> HIDE DEF lv, k, st, d, vs, n
  <2>2. Folded(n, d, lv, st, vs, {})
    BY <1>2, <2>1, FoldStarts
  <2>3. st.finer = {}
    BY <2>1 DEF Capturing
  <2> QED BY <2>2, <2>3 DEF lv, st, d
<1>9. PICK cs : FoldedFrom(nm, n, ds[N], w0, w, {}, cs)
  <2> DEFINE d == ds[N]
  <2>1. w0 \in Folding(nm, n) /\ Folded(n, d, w0.live, w0.step, vs, {}) /\ w0.step.finer = {}
    BY <1>2, <1>6, <1>8 DEF Folding
  <2>2. w = Fold(w0) /\ vs = IF "mask" \in stroke.wrote THEN stroke.touched ELSE {}
    OBVIOUS
  <2>3. "mask" \in stroke.wrote => \E c \in DOMAIN nm : nm[c] = "mask"
    BY <1>1, <1>2
  <2>4. Reading(d)
    BY <1>7
  <2> HIDE DEF w0, w, vs, d, n
  <2> QED BY <1>2, <1>3, <2>1, <2>2, <2>3, <2>4, FoldTo DEF d
<1>10. w0.live = live
  OBVIOUS
<1> HIDE DEF w, w0, vs
<1>11. /\ w \in Folding(nm, n) /\ Folded(n, ds[N], w.live, w.step, {}, cs) /\ Alike(live.store, w.live.store)
  BY <1>9, <1>10 DEF FoldedFrom
<1>12. w.live \in Lives(nm, n) /\ w.live.store \in Store(nm, n) /\ w.step \in Step(n) /\ w.live.mask \in Masks
  BY <1>11 DEF Folding, Lives
<1>13. /\ SoundStep(w.step, n) /\ Coherent(w.live) /\ Leads(w.live.store, w.step, ds[N], Reads(w.live))
       /\ \A v \in Verts : w.live.mask[L][v] = MaskOf(w.live.store, L)[v]
  BY <1>11 DEF Folded
<1>14. Calm(Reads(w.live)) /\ Reading(Reads(w.live))
  <2>1. Sound(w.live.store) /\ Seamless(w.live.store)
    BY <1>13 DEF Coherent
  <2>2. L \in Levels /\ w.live.mask[L] \in MaskAt(L)
    BY <1>12, MasksAre
  <2>3. MaskOf(w.live.store, L) \in MaskAt(L)
    BY <1>2, <1>12, <2>2, MaskOfIs
  <2>4. w.live.mask[L] = MaskOf(w.live.store, L)
    BY <1>13, <2>2, <2>3 DEF MaskAt
  <2> DEFINE lv == w.live
  <2>5. lv \in Lives(nm, n) /\ Sound(lv.store) /\ Seamless(lv.store) /\ lv.mask[L] = MaskOf(lv.store, L)
    BY <1>12, <2>1, <2>4
  <2> HIDE DEF lv
  <2>6. Calm(Reads(lv)) /\ Reading(Reads(lv))
    BY <1>2, <2>5, CoherentCalm, ReadsAre
  <2> QED BY <2>6 DEF lv
<1>15. SoundStep(step, n) /\ Leads(w.live.store, step, ds[N], Reads(w.live))
  <2> DEFINE s == w.live.store
             st == w.step
             b == w.live.owes
             d == ds[N]
             e == Reads(w.live)
  <2>1. /\ s \in Store(nm, n) /\ st \in Step(n) /\ SoundStep(st, n) /\ step = Closed(st, b, s) /\ Leads(s, st, d, e)
    BY <1>12, <1>13
  <2> HIDE DEF s, st, b, d, e, step, n
  <2>2. SoundStep(step, n) /\ Leads(s, step, d, e)
    BY <1>2, <2>1, ClosedStep
  <2> QED BY <2>2 DEF s, d, e
<1> HIDE DEF step
<1>16. DOMAIN front = 1 .. N - 1 /\ Len(front) = N - 1 /\ \A k \in 1 .. N - 1 : front[k] = steps[k]
  <2>1. front = [k \in 1 .. N - 1 |-> steps[k]]
    BY <1>3 DEF Front
  <2> QED BY <1>3, <2>1
<1>17. front \in Seq(Step(n))
  <2>1. front = [k \in 1 .. N - 1 |-> steps[k]]
    BY <1>3 DEF Front
  <2>2. \A k \in 1 .. N - 1 : steps[k] \in Step(n)
    BY <1>3
  <2>3. front \in [1 .. N - 1 -> Step(n)]
    BY <2>1, <2>2
  <2> QED BY <1>3, <2>3
<1>18. \A st, d, e : Leads(live'.store, st, d, e) <=> Leads(live.store, st, d, e)
  BY <1>1, <1>2, <1>11, AlikeIn
<1> HIDE DEF front
<1>19. CASE Empty(step)
  <2>0. PICK es : es = [k \in 1 .. N |-> ds[k]]
    OBVIOUS
  <2>1. steps' = front /\ cursor' = N - 1
    BY <1>1, <1>3, <1>19
  <2>2. ds[N] = Reads(w.live)
    <3> DEFINE d == ds[N]
               e == Reads(w.live)
    <3>1. SoundStep(step, n) /\ Reading(d) /\ Reading(e) /\ Leads(w.live.store, step, d, e)
      BY <1>7, <1>14, <1>15
    <3> HIDE DEF d, e
    <3>2. d = e
      BY <1>19, <3>1, EmptyLeads
    <3> QED BY <3>2 DEF d, e
  <2>3. /\ DOMAIN es = 1 .. N /\ \A k \in 1 .. N : es[k] = ds[k] /\ Reading(es[k]) /\ Calm(es[k])
    BY <1>3, <1>5, <2>0
  <2>4. \A k \in 1 .. N - 1 : Leads(live'.store, steps'[k], es[k], es[k + 1])
    <3> TAKE k \in 1 .. N - 1
    <3>1. k \in 1 .. N /\ k + 1 \in 1 .. N
      BY <1>3
    <3>2. steps'[k] = steps[k] /\ es[k] = ds[k] /\ es[k + 1] = ds[k + 1]
      BY <1>16, <2>1, <2>3, <3>1
    <3> QED BY <1>5, <1>18, <3>1, <3>2
  <2>5. Chain(es, live', steps', cursor', TRUE)
    <3>1. N - 1 \in 0 .. N - 1 /\ N - 1 + 1 = N /\ \A k \in 1 .. N - 1 : k <= N - 1 /\ ~(k > N - 1)
      BY <1>3
    <3>2. es[N] = Reads(live')
      BY <1>1, <1>6, <2>2, <2>3
    <3> QED BY <1>16, <2>1, <2>3, <2>4, <3>1, <3>2 DEF Chain
  <2>6. \A k \in 1 .. Len(steps') : SoundStep(steps'[k], used'.toks)
    <3> TAKE k \in 1 .. Len(steps')
    <3>1. k \in 1 .. N - 1 /\ k \in 1 .. N
      BY <1>3, <1>16, <2>1
    <3> QED BY <1>1, <1>4, <1>16, <2>1, <3>1
  <2>7. Coherent(live') /\ open' = FALSE
    BY <1>1, <1>13
  <2>8. Valued(es)'
    BY <2>5, <2>6, <2>7, ClosedValues
  <2> QED BY <2>3, <2>8
<1>20. CASE ~Empty(step)
  <2>0. PICK es : es = [k \in 1 .. N + 1 |-> IF k = N + 1 THEN Reads(w.live) ELSE ds[k]]
    OBVIOUS
  <2>1. steps' = Append(front, step) /\ cursor' = N
    BY <1>1, <1>20
  <2>2. Len(steps') = N /\ steps'[N] = step /\ \A k \in 1 .. N - 1 : steps'[k] = steps[k]
    BY <1>3, <1>16, <1>17, <2>1
  <2>3. /\ DOMAIN es = 1 .. N + 1 /\ es[N + 1] = Reads(w.live)
        /\ \A k \in 1 .. N : es[k] = ds[k]
    BY <1>3, <2>0
  <2>4. \A k \in 1 .. N + 1 : Reading(es[k]) /\ Calm(es[k])
    <3> TAKE k \in 1 .. N + 1
    <3>1. CASE k = N + 1
      BY <1>14, <2>3, <3>1
    <3>2. CASE k # N + 1
      <4>1. k \in 1 .. N
        BY <1>3, <3>2
      <4> QED BY <1>5, <2>3, <3>2, <4>1
    <3> QED BY <3>1, <3>2
  <2>5. \A k \in 1 .. N : Leads(live'.store, steps'[k], es[k], es[k + 1])
    <3> TAKE k \in 1 .. N
    <3>1. CASE k = N
      BY <1>1, <1>15, <2>2, <2>3, <3>1
    <3>2. CASE k # N
      <4>1. k \in 1 .. N - 1 /\ k + 1 \in 1 .. N
        BY <1>3, <3>2
      <4> QED BY <1>5, <1>18, <2>2, <2>3, <4>1
    <3> QED BY <3>1, <3>2
  <2>6. Chain(es, live', steps', cursor', TRUE)
    <3>1. N \in 0 .. N /\ \A k \in 1 .. N : k <= N /\ ~(k > N)
      BY <1>3
    <3>2. es[N + 1] = Reads(live')
      BY <1>1, <2>3
    <3> QED BY <2>1, <2>2, <2>3, <2>4, <2>5, <3>1, <3>2 DEF Chain
  <2>7. \A k \in 1 .. Len(steps') : SoundStep(steps'[k], used'.toks)
    <3> TAKE k \in 1 .. Len(steps')
    <3>1. k \in 1 .. N /\ (k # N => k \in 1 .. N - 1)
      BY <1>3, <2>2
    <3> QED BY <1>1, <1>4, <1>15, <2>2, <3>1
  <2>8. Coherent(live') /\ open' = FALSE
    BY <1>1, <1>13
  <2>9. Valued(es)'
    BY <2>6, <2>7, <2>8, ClosedValues
  <2> QED BY <2>3, <2>9
<1> QED BY <1>19, <1>20

Storied == \E ds : Valued(ds)

LEMMA StutterValues ==
  ASSUME NEW ds, Valued(ds), UNCHANGED vars
  PROVE  Valued(ds)'
BY DEF Valued, Top, vars

LEMMA StepStoried ==
  ASSUME Inv, Storied, [Next]_vars
  PROVE  Storied'
<1>1. PICK ds : Valued(ds)
  BY DEF Storied
<1>2. CASE BeginStroke
  <2>1. PICK m : m = IF bound THEN cursor ELSE 0
    OBVIOUS
  <2>2. PICK es : es = [k \in 1 .. m + 2 |-> IF k <= m THEN ds[k] ELSE Reads(live)]
    OBVIOUS
  <2>3. Valued(es)'
    BY <1>1, <1>2, <2>1, <2>2, BeginStrokeValues
  <2> QED BY <2>3 DEF Storied
<1>3. CASE Dab
  <2>1. PICK es : es = [k \in 1 .. Len(steps) + 1 |-> IF k = Len(steps) + 1 THEN Reads(live') ELSE ds[k]]
    OBVIOUS
  <2>2. Valued(es)'
    BY <1>1, <1>3, <2>1, DabValues
  <2> QED BY <2>2 DEF Storied
<1>4. CASE EndStroke
  <2>1. PICK es : Valued(es)'
    BY <1>1, <1>4, EndStrokeValues
  <2> QED BY <2>1 DEF Storied
<1>5. CASE Undo
  BY <1>1, <1>5, UndoValues DEF Storied
<1>6. CASE Redo
  BY <1>1, <1>6, RedoValues DEF Storied
<1>7. CASE DropOldest
  <2>1. PICK es : es = [k \in 1 .. Len(steps) |-> ds[k + 1]]
    OBVIOUS
  <2>2. Valued(es)'
    BY <1>1, <1>7, <2>1, DropOldestValues
  <2> QED BY <2>2 DEF Storied
<1>8. CASE Sync
  <2>1. PICK es : es = Alone(live)
    OBVIOUS
  <2>2. Valued(es)'
    BY <1>1, <1>8, <2>1, SyncValues
  <2> QED BY <2>2 DEF Storied
<1>9. CASE RemoveLayer
  <2>1. PICK name \in Removable : Removes(name)
    BY <1>9 DEF RemoveLayer, Removes
  <2>2. PICK es : es = [k \in 1 .. Len(steps) + 1 |-> Without(ds[k], name)]
    OBVIOUS
  <2>3. Valued(es)'
    BY <1>1, <1>9, <2>1, <2>2, RemoveLayerValues
  <2> QED BY <2>3 DEF Storied
<1>10. CASE EditMask
  <2>1. PICK es : es = Alone(live')
    OBVIOUS
  <2>2. Valued(es)'
    BY <1>1, <1>10, <2>1, EditMaskValues
  <2> QED BY <2>2 DEF Storied
<1>11. CASE Switch
  <2>1. CASE steps' = steps /\ cursor' = cursor
    <3>1. Valued(ds)'
      BY <1>1, <1>11, <2>1, SwitchLeaves
    <3> QED BY <3>1 DEF Storied
  <2>2. CASE steps' = <<>> /\ cursor' = 0
    <3>1. PICK es : es = Alone(live)
      OBVIOUS
    <3>2. Valued(es)'
      BY <1>1, <1>11, <2>2, <3>1, SwitchStarts
    <3> QED BY <3>2 DEF Storied
  <2>3. \/ steps' = steps /\ cursor' = cursor
        \/ steps' = <<>> /\ cursor' = 0
    BY <1>11, SwitchEither
  <2> QED BY <2>1, <2>2, <2>3
<1>12. CASE UNCHANGED vars
  <2>1. Valued(ds)'
    BY <1>1, <1>12, StutterValues
  <2> QED BY <2>1 DEF Storied
<1> QED BY <1>2, <1>3, <1>4, <1>5, <1>6, <1>7, <1>8, <1>9, <1>10, <1>11, <1>12 DEF Next

(* The host's calls, the strokes and the history leave every mask a domain *)
(* shows the one the store holds, and no seam in what the channels hold    *)
(* (grid_stroke_log.cc applySwap, gridsFoldStroke, flushMaskToStore).      *)
THEOREM CoherenceHolds == Spec => []StoreCoherent
<1>1. Init => Storied
  <2> SUFFICES ASSUME Init PROVE Storied
    OBVIOUS
  <2>1. PICK es : es = Alone(live)
    OBVIOUS
  <2>2. Valued(es)
    BY <2>1, InitialValues
  <2> QED BY <2>2 DEF Storied
<1>2. Inv /\ Storied /\ [Next]_vars => Storied'
  BY StepStoried
<1>3. Inv /\ Storied => StoreCoherent
  BY ValuedCoherent DEF Storied
<1> QED BY <1>1, <1>2, <1>3, Invariance, PTL DEF Spec

-----------------------------------------------------------------------------
(* The documents of a history, by what a reading shows and what is owed.   *)

\* What the session's level owes, positions and channels, and what the finer
\* levels owe.
OweNames == Names \cup {"co"}
Owing(lv) == {x \in OweNames : IF x = "co" THEN lv.owes ELSE Owes(lv.store, x, L)}
Later(s) == {p \in Names \X (L + 1 .. Depth) : Owes(s, p[1], p[2])}

DebtsOf(o, f, x) == [l \in L .. Depth |-> IF l = L THEN x \in o ELSE <<x, l>> \in f]
DocAt(d, o, f) ==
  [x \in DocNames |->
     IF x = "co" THEN <<d[Pos], d[<<"disp", L>>], "co" \in o>>
     ELSE IF x = "mask"
     THEN <<d[Dense], DebtsOf(o, f, x), [l \in L + 1 .. Depth |-> d[<<"mask", l>>]]>>
     ELSE <<d[<<x, L>>], DebtsOf(o, f, x)>>]

LEMMA OwesAt ==
  ASSUME NEW nm, Named(nm), NEW n \in Nat, NEW s \in Store(nm, n), NEW l \in Levels, NEW c \in DOMAIN nm
  PROVE  (Owes(s, nm[c], l) <=> s[c].levels[l].owes) /\ s[c].levels[l].owes \in BOOLEAN
<1>1. FindChannel(s, nm[c]) = c /\ c # 0
  BY FindAt
<1>2. s[c].levels[l].owes \in BOOLEAN
  BY StoreLevel
<1> QED BY <1>1, <1>2 DEF Owes

LEMMA OwesNone ==
  ASSUME NEW nm, Named(nm), NEW n \in Nat, NEW s \in Store(nm, n), NEW l, NEW x,
         \A c \in DOMAIN nm : nm[c] # x
  PROVE  ~Owes(s, x, l)
<1>1. FindChannel(s, x) = 0
  BY FindIs
<1> QED BY <1>1 DEF Owes

LEMMA OwingIs ==
  ASSUME NEW nm, Named(nm), NEW n \in Nat, NEW lv \in Lives(nm, n)
  PROVE  /\ Owing(lv) \subseteq OweNames /\ ("co" \in Owing(lv) <=> lv.owes)
         /\ \A x \in Names : x \in Owing(lv) <=> Owes(lv.store, x, L)
<1>1. "co" \notin Names
  BY LogAssumption DEF Names
<1> QED BY <1>1 DEF Owing, OweNames

\* In a sound store a level that holds nothing shows what it would if it did.
LEMMA ValueRaw ==
  ASSUME NEW nm, Named(nm), NEW n \in Nat, NEW s \in Store(nm, n), Sound(s), NEW p \in InStore
  PROVE  ValueAt(s, p[1], p[2]) = Raw(s, p[1], p[2])
<1> DEFINE c == FindChannel(s, p[1])
           l == p[2]
<1>1. p[1] \in Names /\ l \in Levels /\ (l # L => p[1] = "mask")
  BY SpotsAre
<1>2. Seed("mask", l) = Blank(l)
  BY <1>1, BlankIs
<1>3. CASE c = 0
  BY <1>3 DEF ValueAt, Raw
<1>4. CASE c # 0
  <2>1. c \in DOMAIN nm /\ nm[c] = p[1] /\ s[c].name = p[1] /\ DOMAIN s = DOMAIN nm
    BY <1>4, FindIs, StoreHas
  <2>2. CASE s[c].levels[l].held = "none"
    <3>1. s[c].levels[l].val = Blank(l)
      BY <1>1, <2>1, <2>2 DEF Sound
    <3>2. p[1] = "mask"
      BY <1>1, <2>1, <2>2 DEF Sound
    <3> QED BY <1>2, <1>4, <2>2, <3>1, <3>2 DEF ValueAt, Raw, Allocated
  <2>3. CASE s[c].levels[l].held # "none"
    BY <1>4, <2>3 DEF ValueAt, Raw, Allocated
  <2> QED BY <2>2, <2>3
<1> QED BY <1>3, <1>4

LEMMA ContentIs ==
  ASSUME NEW lv, NEW x \in DocNames
  PROVE  /\ x = "co" => Content(lv, x) = <<lv.pos, ValueAt(lv.store, "disp", L), lv.owes>>
         /\ x = "mask" => Content(lv, x) = <<lv.mask[L], [l \in L .. Depth |-> Owes(lv.store, x, l)],
                                             [l \in L + 1 .. Depth |-> ValueAt(lv.store, x, l)]>>
         /\ x # "co" /\ x # "mask"
              => Content(lv, x) = <<ValueAt(lv.store, x, L), [l \in L .. Depth |-> Owes(lv.store, x, l)]>>
BY DEF Content

LEMMA DocIs ==
  ASSUME NEW nm, Named(nm), NEW n \in Nat, NEW lv \in Lives(nm, n), Sound(lv.store)
  PROVE  Doc(lv) = DocAt(Reads(lv), Owing(lv), Later(lv.store))
<1> DEFINE s == lv.store
           d == Reads(lv)
           o == Owing(lv)
           f == Later(s)
<1>1. s \in Store(nm, n) /\ lv.owes \in BOOLEAN /\ L \in Levels /\ L \in Nat /\ Depth \in Nat /\ L >= 1
  BY LogAssumption DEF Lives, Levels
<1>2. /\ d[Pos] = lv.pos /\ d[Dense] = lv.mask[L]
      /\ \A p \in InStore : d[p] = Raw(s, p[1], p[2])
  BY ReadsAre
<1>3. \A x \in Names : d[<<x, L>>] = ValueAt(s, x, L)
  <2> TAKE x \in Names
  <2>1. PICK p : p = <<x, L>>
    OBVIOUS
  <2>2. p \in InStore /\ p[1] = x /\ p[2] = L
    BY <2>1, SpotsAre
  <2>3. ValueAt(s, p[1], p[2]) = Raw(s, p[1], p[2])
    BY <1>1, <2>2, ValueRaw
  <2> QED BY <1>2, <2>1, <2>2, <2>3
<1>4. \A l \in L .. Depth : d[<<"mask", l>>] = ValueAt(s, "mask", l)
  <2> TAKE l \in L .. Depth
  <2>1. PICK p : p = <<"mask", l>>
    OBVIOUS
  <2>2. p \in InStore /\ p[1] = "mask" /\ p[2] = l
    BY <2>1, SpotsAre
  <2>3. ValueAt(s, p[1], p[2]) = Raw(s, p[1], p[2])
    BY <1>1, <2>2, ValueRaw
  <2> QED BY <1>2, <2>1, <2>2, <2>3
<1>5. ASSUME NEW x \in Names PROVE DebtsOf(o, f, x) = [l \in L .. Depth |-> Owes(s, x, l)]
  <2>1. ASSUME NEW l \in L .. Depth PROVE (IF l = L THEN x \in o ELSE <<x, l>> \in f) = Owes(s, x, l)
    <3>1. Owes(s, x, l) \in BOOLEAN
      BY <1>1, <2>1 DEF Owes
    <3>2. CASE l = L
      <4>1. x \in o <=> Owes(s, x, L)
        BY OwingIs
      <4> QED BY <3>1, <3>2, <4>1
    <3>3. CASE l # L
      <4>1. l \in L + 1 .. Depth
        BY <1>1, <3>3
      <4>2. <<x, l>> \in f <=> Owes(s, x, l)
        BY <4>1 DEF Later
      <4> HIDE DEF f, o
      <4> QED BY <3>1, <3>3, <4>2
    <3> QED BY <3>2, <3>3
  <2> QED BY <2>1 DEF DebtsOf
<1>6. "co" \notin Names /\ "mask" \in Names /\ "disp" \in Names /\ "mask" # "co"
      /\ \A x \in DocNames : x # "co" => x \in Names
  BY LogAssumption DEF Names, DocNames
<1>7. ("co" \in o) = lv.owes
  BY <1>1, OwingIs
<1>8. ASSUME NEW x \in DocNames
      PROVE Content(lv, x) = IF x = "co" THEN <<d[Pos], d[<<"disp", L>>], "co" \in o>>
                             ELSE IF x = "mask"
                             THEN <<d[Dense], DebtsOf(o, f, x), [l \in L + 1 .. Depth |-> d[<<"mask", l>>]]>>
                             ELSE <<d[<<x, L>>], DebtsOf(o, f, x)>>
  <2> HIDE DEF s, d, o, f
  <2>1. CASE x = "co"
    <3>1. Content(lv, x) = <<lv.pos, ValueAt(s, "disp", L), lv.owes>>
      BY <2>1, ContentIs DEF s
    <3> QED BY <1>2, <1>3, <1>6, <1>7, <2>1, <3>1
  <2>2. CASE x = "mask"
    <3>1. Content(lv, x) = <<lv.mask[L], [l \in L .. Depth |-> Owes(s, x, l)],
                             [l \in L + 1 .. Depth |-> ValueAt(s, x, l)]>>
      BY <2>2, ContentIs DEF s
    <3>2. DebtsOf(o, f, x) = [l \in L .. Depth |-> Owes(s, x, l)]
      BY <1>5, <1>6, <2>2
    <3>3. [l \in L + 1 .. Depth |-> ValueAt(s, x, l)] = [l \in L + 1 .. Depth |-> d[<<"mask", l>>]]
      <4>1. \A l \in L + 1 .. Depth : l \in L .. Depth
        BY <1>1
      <4> QED BY <1>4, <2>2, <4>1
    <3> QED BY <1>2, <1>6, <2>2, <3>1, <3>2, <3>3
  <2>3. CASE x # "co" /\ x # "mask"
    <3>1. Content(lv, x) = <<ValueAt(s, x, L), [l \in L .. Depth |-> Owes(s, x, l)]>>
      BY <2>3, ContentIs DEF s
    <3>2. DebtsOf(o, f, x) = [l \in L .. Depth |-> Owes(s, x, l)]
      BY <1>5, <1>6, <2>3
    <3>3. d[<<x, L>>] = ValueAt(s, x, L)
      BY <1>3, <1>6, <2>3
    <3> QED BY <2>3, <3>1, <3>2, <3>3
  <2> QED BY <2>1, <2>2, <2>3
<1> HIDE DEF s, d, o, f
<1>9. Doc(lv) = DocAt(d, o, f)
  BY <1>8 DEF Doc, DocAt
<1> QED BY <1>9 DEF s, d, o, f

\* Such a document is one of the history's.
LEMMA DocIn ==
  ASSUME NEW d, Reading(d), NEW o, NEW f
  PROVE  DocAt(d, o, f) \in [DocNames -> Contents]
<1>1. ASSUME NEW x PROVE DebtsOf(o, f, x) \in Debts
  <2>1. ASSUME NEW l \in L .. Depth PROVE (IF l = L THEN x \in o ELSE <<x, l>> \in f) \in BOOLEAN
    <3>1. CASE l = L
      BY <3>1
    <3>2. CASE l # L
      BY <3>2
    <3> QED BY <3>1, <3>2
  <2> QED BY <2>1 DEF DebtsOf, Debts
<1>2. d[Pos] \in [Verts -> Sample(L)] /\ d[Dense] \in [Verts -> Sample(L)]
  BY SpotsAre DEF Reading, ReadingAt, MaskAt
<1>3. \A p \in InStore : d[p] \in [Sites -> Sample(p[2])]
  BY SpotsAre DEF Reading, ReadingAt
<1>4. \A x \in Names : d[<<x, L>>] \in [Sites -> Sample(L)]
  <2> TAKE x \in Names
  <2>1. PICK p : p = <<x, L>>
    OBVIOUS
  <2>2. p \in InStore /\ p[2] = L
    BY <2>1, SpotsAre
  <2> QED BY <1>3, <2>1, <2>2
<1>5. \A l \in L + 1 .. Depth : d[<<"mask", l>>] \in Samples(L + 1 .. Depth)
  <2> TAKE l \in L + 1 .. Depth
  <2>1. PICK p : p = <<"mask", l>>
    OBVIOUS
  <2>2. p \in InStore /\ p[2] = l
    BY <2>1 DEF InStore
  <2>3. d[p] \in [Sites -> Sample(l)]
    BY <1>3, <2>2
  <2> QED BY <2>1, <2>3 DEF Samples
<1>6. "disp" \in Names /\ "mask" \in Names /\ \A x \in DocNames : x # "co" => x \in Names
  BY DEF Names, DocNames
<1>7. ASSUME NEW x \in DocNames PROVE DocAt(d, o, f)[x] \in Contents
  <2>1. CASE x = "co"
    <3> DEFINE b == "co" \in o
    <3>0. b \in BOOLEAN
      OBVIOUS
    <3>1. DocAt(d, o, f)[x] = <<d[Pos], d[<<"disp", L>>], b>>
      BY <2>1 DEF DocAt
    <3>2. d[Pos] \in [Verts -> Sample(L)] /\ d[<<"disp", L>>] \in [Sites -> Sample(L)]
      BY <1>2, <1>4, <1>6
    <3> HIDE DEF b
    <3>3. <<d[Pos], d[<<"disp", L>>], b>> \in [Verts -> Sample(L)] \X [Sites -> Sample(L)] \X BOOLEAN
      BY <3>0, <3>2
    <3> QED BY <3>1, <3>3 DEF Contents
  <2>2. CASE x = "mask"
    <3> DEFINE g == [l \in L + 1 .. Depth |-> d[<<"mask", l>>]]
    <3>1. DocAt(d, o, f)[x] = <<d[Dense], DebtsOf(o, f, x), g>>
      BY <2>2 DEF DocAt
    <3>2. g \in [L + 1 .. Depth -> Samples(L + 1 .. Depth)]
      BY <1>5
    <3>3. d[Dense] \in [Verts -> Sample(L)] /\ DebtsOf(o, f, x) \in Debts
      BY <1>1, <1>2
    <3> HIDE DEF g
    <3> QED BY <3>1, <3>2, <3>3 DEF Contents
  <2>3. CASE x # "co" /\ x # "mask"
    <3>1. DocAt(d, o, f)[x] = <<d[<<x, L>>], DebtsOf(o, f, x)>>
      BY <2>3 DEF DocAt
    <3>2. d[<<x, L>>] \in [Sites -> Sample(L)] /\ DebtsOf(o, f, x) \in Debts
      BY <1>1, <1>4, <1>6, <2>3
    <3> QED BY <3>1, <3>2 DEF Contents
  <2> QED BY <2>1, <2>2, <2>3
<1> QED BY <1>7 DEF DocAt

-----------------------------------------------------------------------------
(* Debts of two neighbouring readings, as the step between them has them.  *)

\* The debts attrs set are those of o, and what they set.
AttrsSay(s, attrs, o) ==
  \A d \in attrs : d.owes \in BOOLEAN /\ (Resolve(s, d.id) # 0 => (d.owes <=> d.id.name \in o))
Marked(s, attrs, x) == \E d \in attrs : Resolve(s, d.id) # 0 /\ d.id.name = x
\* A step brings the debts from a to b and back.
Linked(s, step, a, b) ==
  /\ step.pre = ("co" \in a) /\ step.post = ("co" \in b)
  /\ AttrsSay(s, step.preAttr, a) /\ AttrsSay(s, step.postAttr, b)
  /\ \A x \in Names : (x \in a <=> x \in b) \/ (Marked(s, step.preAttr, x) /\ Marked(s, step.postAttr, x))
\* What is kept of finer levels owes what they do.
FinersSay(s, fs, F) ==
  \A f \in fs : Resolve(s, f.id) # 0 =>
    (IF f.whole THEN f.state.owes ELSE f.owes) = (<<"mask", f.id.level>> \in F)

LEMMA LaterSame ==
  ASSUME NEW nm, Named(nm), NEW n \in Nat, NEW s \in Store(nm, n), NEW t \in Store(nm, n),
         \A c \in DOMAIN nm : \A l \in Levels : l > L => t[c].levels[l].owes = s[c].levels[l].owes
  PROVE  Later(t) = Later(s)
<1>1. ASSUME NEW x \in Names, NEW l \in L + 1 .. Depth PROVE Owes(t, x, l) <=> Owes(s, x, l)
  <2>1. l \in Levels /\ l > L
    BY LogAssumption DEF Levels
  <2>2. CASE \E c \in DOMAIN nm : nm[c] = x
    <3>1. PICK c \in DOMAIN nm : nm[c] = x
      BY <2>2
    <3>2. Owes(t, nm[c], l) <=> t[c].levels[l].owes
      BY <2>1, OwesAt
    <3>3. Owes(s, nm[c], l) <=> s[c].levels[l].owes
      BY <2>1, OwesAt
    <3> QED BY <2>1, <3>1, <3>2, <3>3
  <2>3. CASE \A c \in DOMAIN nm : nm[c] # x
    <3>1. ~Owes(t, x, l)
      BY <2>3, OwesNone
    <3>2. ~Owes(s, x, l)
      BY <2>3, OwesNone
    <3> QED BY <3>1, <3>2
  <2> QED BY <2>2, <2>3
<1> QED BY <1>1 DEF Later

LEMMA OwingSame ==
  ASSUME NEW nm, Named(nm), NEW n \in Nat, NEW lv \in Lives(nm, n), NEW lw \in Lives(nm, n),
         lw.owes = lv.owes,
         \A c \in DOMAIN nm : lw.store[c].levels[L].owes = lv.store[c].levels[L].owes
  PROVE  Owing(lw) = Owing(lv)
<1>1. L \in Levels /\ lv.store \in Store(nm, n) /\ lw.store \in Store(nm, n)
  BY LogAssumption DEF Levels, Lives
<1> DEFINE s == lv.store
           t == lw.store
<1>2. s \in Store(nm, n) /\ t \in Store(nm, n) /\ \A c \in DOMAIN nm : t[c].levels[L].owes = s[c].levels[L].owes
  BY <1>1
<1> HIDE DEF s, t
<1>3. ASSUME NEW x PROVE Owes(t, x, L) <=> Owes(s, x, L)
  <2>1. CASE \E c \in DOMAIN nm : nm[c] = x
    <3>1. PICK c \in DOMAIN nm : nm[c] = x
      BY <2>1
    <3>2. Owes(t, nm[c], L) <=> t[c].levels[L].owes
      BY <1>1, <1>2, OwesAt
    <3>3. Owes(s, nm[c], L) <=> s[c].levels[L].owes
      BY <1>1, <1>2, OwesAt
    <3> QED BY <1>2, <3>1, <3>2, <3>3
  <2>2. CASE \A c \in DOMAIN nm : nm[c] # x
    <3>1. ~Owes(t, x, L)
      BY <1>2, <2>2, OwesNone
    <3>2. ~Owes(s, x, L)
      BY <1>2, <2>2, OwesNone
    <3> QED BY <3>1, <3>2
  <2> QED BY <2>1, <2>2
<1> QED BY <1>3 DEF Owing, s, t

\* A swap leaves what is owed alone, at the finer levels too.
LEMMA SwapOwes ==
  ASSUME NEW nm, Named(nm), NEW n \in Nat, NEW s \in Store(nm, n), Sound(s), NEW step \in Step(n),
         SoundStep(step, n), FinersSay(s, step.finer, Later(s)),
         NEW t, t = PutFiner(PutBlocks(s, step.blocks), step.finer)
  PROVE  \A c \in DOMAIN nm : \A l \in Levels : t[c].levels[l].owes = s[c].levels[l].owes
<1> DEFINE y == PutBlocks(s, step.blocks)
<1>1. step.blocks \in SUBSET Blocks /\ step.finer \in SUBSET Finers(n)
  BY DEF Step
<1>2. /\ Alike(s, y) /\ y \in Store(nm, n)
      /\ \A c \in DOMAIN nm : \A l \in Levels :
           y[c].levels[l] = PutBlock(s[c].levels[l], Here(s, step.blocks, <<nm[c], l>>))
  BY <1>1, PutBlocksHas, PutBlocksIs
<1> HIDE DEF y
<1>3. \A c \in DOMAIN nm : \A l \in Levels :
        t[c].levels[l] = PutFinerLevel(y[c].levels[l], Here(y, step.finer, <<nm[c], l>>))
  BY <1>2, PutFinerHas DEF y
<1>4. \A c \in DOMAIN nm : \A l \in Levels :
        /\ <<nm[c], l>> \notin InStore => t[c].levels[l] = s[c].levels[l]
        /\ <<nm[c], l>> \in InStore => \A a \in [Sites -> Sample(l)] :
             Patched(Patches(s, step, <<nm[c], l>>), a, s[c].levels[l].val) => t[c].levels[l].val = a
        /\ l <= L \/ nm[c] # "mask" => t[c].levels[l].owes = s[c].levels[l].owes
  BY SwapStore
<1>5. ASSUME NEW c \in DOMAIN nm, NEW l \in Levels PROVE t[c].levels[l].owes = s[c].levels[l].owes
  <2>1. CASE l <= L \/ nm[c] # "mask"
    BY <1>4, <2>1
  <2>2. CASE l > L /\ nm[c] = "mask"
    <3>1. PICK p : p = <<nm[c], l>>
      OBVIOUS
    <3>2. p[1] = nm[c] /\ p[2] = l /\ p[2] \in Nat
      BY <3>1 DEF Levels
    <3>3. PICK H : H = Here(y, step.finer, p)
      OBVIOUS
    <3>4. H = Here(s, step.finer, p)
      BY <1>2, <3>3, AlikeIn
    <3>5. y[c].levels[l].owes = s[c].levels[l].owes /\ y[c].levels[l] \in LevelAt(l, n)
      <4>1. s[c].levels[l] \in LevelAt(l, n)
        BY StoreLevel
      <4>2. y[c].levels[l] = PutBlock(s[c].levels[l], Here(s, step.blocks, p))
        BY <1>2, <3>1
      <4>3. y[c].levels[l].owes = s[c].levels[l].owes
        BY <4>1, <4>2, PutBlockHas
      <4>4. y[c].levels[l] \in LevelAt(l, n)
        BY <1>2, StoreLevel
      <4> QED BY <4>3, <4>4
    <3>6. t[c].levels[l] = PutFinerLevel(y[c].levels[l], H)
      BY <1>3, <3>1, <3>3
    <3>7. CASE H = {}
      BY <3>5, <3>6, <3>7 DEF PutFinerLevel
    <3>8. CASE H # {}
      <4>1. PICK f : f \in H
        BY <3>8
      <4>2. H = {f}
        BY <3>2, <3>4, <4>1, HereAre
      <4>3. f \in step.finer /\ Resolve(s, f.id) # 0 /\ f.id.level = l
        BY <3>2, <3>4, <4>1 DEF Here
      <4>4. (IF f.whole THEN f.state.owes ELSE f.owes) = (<<"mask", l>> \in Later(s))
        BY <4>3 DEF FinersSay
      <4>5. (<<"mask", l>> \in Later(s)) <=> s[c].levels[l].owes
        <5>1. l \in L + 1 .. Depth /\ "mask" \in Names
          BY <2>2, LogAssumption DEF Levels, Names
        <5>2. Owes(s, nm[c], l) <=> s[c].levels[l].owes
          BY OwesAt
        <5> QED BY <2>2, <5>1, <5>2 DEF Later
      <4>6. t[c].levels[l].owes = IF f.whole THEN f.state.owes ELSE f.owes
        <5>1. /\ f.whole => t[c].levels[l] = f.state
              /\ ~f.whole => t[c].levels[l].owes = f.owes
          BY <3>5, <3>6, <4>2, PutFinerLevelHas
        <5>2. f.whole \in BOOLEAN
          BY <1>1, <4>3 DEF Finers, FinersAt
        <5> QED BY <5>1, <5>2
      <4>7. s[c].levels[l].owes \in BOOLEAN
        BY StoreLevel
      <4> QED BY <4>4, <4>5, <4>6, <4>7
    <3> QED BY <3>7, <3>8
  <2>3. l \in Nat /\ L \in Nat
    BY LogAssumption DEF Levels
  <2> QED BY <2>1, <2>2, <2>3
<1> QED BY <1>5

\* And so is what it takes along.
LEMMA TakenSays ==
  ASSUME NEW nm, Named(nm), NEW n \in Nat, NEW s \in Store(nm, n), NEW step \in Step(n),
         SoundStep(step, n), FinersSay(s, step.finer, Later(s)),
         NEW t, Alike(s, t), NEW F, F = Later(s)
  PROVE  FinersSay(t, TakenFiner(s, step.finer), F)
<1>1. step.finer \in SUBSET Finers(n)
  BY DEF Step
<1>2. PICK T : /\ TakenFiner(s, step.finer) = {T[f] : f \in step.finer}
               /\ \A f \in step.finer :
                     /\ T[f].id = f.id /\ T[f].whole = f.whole
                     /\ \A c \in DOMAIN nm : \A l \in Levels :
                          Resolve(s, f.id) # 0 /\ f.id.name = nm[c] /\ f.id.level = l
                            => /\ f.whole => T[f].state = s[c].levels[l]
                               /\ ~f.whole => T[f].owes = s[c].levels[l].owes
  BY <1>1, TakenFinerAre
<1>3. ASSUME NEW f \in step.finer, Resolve(t, T[f].id) # 0
      PROVE (IF T[f].whole THEN T[f].state.owes ELSE T[f].owes) = (<<"mask", T[f].id.level>> \in F)
  <2>1. T[f].id = f.id /\ T[f].whole = f.whole
    BY <1>2
  <2>2. Resolve(s, f.id) # 0
    BY <1>3, <2>1, AlikeIn
  <2>3. f.id.name = "mask" /\ f.id.level > L
    BY DEF SoundStep
  <2>4. PICK c \in DOMAIN nm : nm[c] = "mask"
    <3>1. FindChannel(s, f.id.name) # 0
      BY <2>2 DEF Resolve
    <3> QED BY <2>3, <3>1, FindIs
  <2>5. f.id.level \in 1 .. Depth
    BY <2>2, ResolveIs
  <2>6. PICK l : l = f.id.level
    OBVIOUS
  <2>7. l \in Levels /\ l \in L + 1 .. Depth /\ "mask" \in Names
    BY <2>3, <2>5, <2>6, LogAssumption DEF Levels, Names
  <2>8. /\ f.whole => T[f].state = s[c].levels[l]
        /\ ~f.whole => T[f].owes = s[c].levels[l].owes
    BY <1>2, <2>2, <2>3, <2>4, <2>6, <2>7
  <2>9. (Owes(s, nm[c], l) <=> s[c].levels[l].owes) /\ s[c].levels[l].owes \in BOOLEAN
    BY <2>7, OwesAt
  <2>10. (<<"mask", l>> \in F) = s[c].levels[l].owes
    BY <2>4, <2>7, <2>9 DEF Later
  <2>11. f.whole \in BOOLEAN
    BY <1>1 DEF Finers, FinersAt
  <2> QED BY <2>1, <2>6, <2>8, <2>10, <2>11
<1> QED BY <1>2, <1>3 DEF FinersSay

\* What a replay leaves of the debts: those the step sets, where it has any.
Resets(nm, lv, lw, step, st, owes, attrs) ==
  /\ lw.owes = owes /\ Alike(lv.store, lw.store)
  /\ \A c \in DOMAIN nm : lw.store[c].levels[L].owes = DebtSet(lv.store, attrs, c, L)
  /\ Later(lw.store) = Later(lv.store) /\ FinersSay(lw.store, st.finer, Later(lv.store))
  /\ st.pre = step.pre /\ st.post = step.post /\ st.preAttr = step.preAttr /\ st.postAttr = step.postAttr

LEMMA SwapResets ==
  ASSUME NEW nm, Named(nm), NEW n \in Nat, NEW lv \in Lives(nm, n), NEW step \in Step(n), SoundStep(step, n),
         Sound(lv.store), FinersSay(lv.store, step.finer, Later(lv.store)),
         NEW w, w = ApplySwap(lv, step)
  PROVE  /\ w.live \in Lives(nm, n) /\ Alike(lv.store, w.live.store)
         /\ \A c \in DOMAIN nm : \A l \in Levels : w.live.store[c].levels[l].owes = lv.store[c].levels[l].owes
         /\ FinersSay(w.live.store, w.step.finer, Later(lv.store))
         /\ w.step.pre = step.pre /\ w.step.post = step.post
         /\ w.step.preAttr = step.preAttr /\ w.step.postAttr = step.postAttr
<1> DEFINE s0 == lv.store
           s == EnsureResident(s0, {L})
           t == PutFiner(PutBlocks(s, step.blocks), step.finer)
           known == {k \in step.mask : Resolve(s0, k.id) # 0}
           pos == Put(lv.pos, step.pos)
           mask == Dropped([lv.mask EXCEPT ![L] = Put(@, known)])
           P == Taken(lv.pos, step.pos)
           K == Taken(lv.mask[L], known) \cup (step.mask \ known)
           B == TakenBlocks(s, step.blocks)
           F == TakenFiner(s, step.finer)
<1>1. /\ w.live = [lv EXCEPT !.pos = pos, !.mask = mask, !.store = t]
      /\ w.step = [step EXCEPT !.pos = P, !.mask = K, !.blocks = B, !.finer = F]
  BY DEF ApplySwap
<1>2. s0 \in Store(nm, n) /\ w.live \in Lives(nm, n)
  BY SwapIs DEF Lives
<1>3. s = Reheld(s0, {L}, "blob", "chunks")
  BY DEF EnsureResident
<1> HIDE DEF s0, s, t, known, pos, mask, P, K, B, F
<1>4. w.live.store = t
  <2>1. lv = [store |-> lv.store, pos |-> lv.pos, owes |-> lv.owes, mask |-> lv.mask]
    BY DEF Lives
  <2> QED BY <1>1, <2>1
<1>5. /\ w.step.pre = step.pre /\ w.step.post = step.post /\ w.step.finer = F
      /\ w.step.preAttr = step.preAttr /\ w.step.postAttr = step.postAttr
  <2>1. step = [pos |-> step.pos, mask |-> step.mask, blocks |-> step.blocks, finer |-> step.finer,
                pre |-> step.pre, post |-> step.post, preAttr |-> step.preAttr,
                postAttr |-> step.postAttr]
    BY DEF Step
  <2> QED BY <1>1, <2>1
<1>6. Sound(s0) /\ FinersSay(s0, step.finer, Later(s0))
  BY DEF s0
<1>7. /\ s \in Store(nm, n) /\ Sound(s) /\ Alike(s0, s)
      /\ \A c \in DOMAIN nm : \A l \in Levels : s[c].levels[l].owes = s0[c].levels[l].owes
  <2>1. "chunks" \in Held
    BY DEF Held
  <2>2. Sound(s) /\ s \in Store(nm, n)
    BY <1>2, <1>3, <1>6, <2>1, ReheldSound
  <2>3. /\ Frame(s0, s) /\ Alike(s0, s)
        /\ \A c \in DOMAIN nm : \A l \in Levels :
             /\ s[c].levels[l].val = s0[c].levels[l].val /\ s[c].levels[l].owes = s0[c].levels[l].owes
             /\ s[c].levels[l].tok = s0[c].levels[l].tok
             /\ s[c].levels[l].held = IF l \in {L} /\ s0[c].levels[l].held = "blob" THEN "chunks"
                                      ELSE s0[c].levels[l].held
    BY <1>2, <1>3, ReheldHas
  <2> QED BY <2>2, <2>3
<1>8. Later(s) = Later(s0)
  BY <1>2, <1>7, LaterSame
<1>9. FinersSay(s, step.finer, Later(s))
  <2>1. \A id : Resolve(s, id) = Resolve(s0, id)
    BY <1>2, <1>7, AlikeIn
  <2> QED BY <1>6, <1>8, <2>1 DEF FinersSay
<1>10. \A c \in DOMAIN nm : \A l \in Levels : t[c].levels[l].owes = s[c].levels[l].owes
  BY <1>7, <1>9, SwapOwes DEF t
<1>11. Alike(s, t)
  <2>1. t = PutFiner(PutBlocks(s, step.blocks), step.finer)
    BY DEF t
  <2>2. Frame(s, t) /\ Alike(s, t) /\ Sound(t) /\ t \in Store(nm, n)
    BY <1>7, <2>1, SwapStore
  <2> QED BY <2>2
<1>12. Alike(s0, t)
  BY <1>7, <1>11, AlikeTrans
<1>13. FinersSay(t, F, Later(s0))
  <2>1. \A G : G = Later(s) => FinersSay(t, TakenFiner(s, step.finer), G)
    BY Zenon, <1>7, <1>9, <1>11, TakenSays
  <2> QED BY <1>8, <2>1 DEF F
<1> QED BY <1>2, <1>4, <1>5, <1>7, <1>10, <1>12, <1>13 DEF s0

LEMMA ReplayResets ==
  ASSUME NEW nm, Named(nm), NEW n \in Nat, NEW lv \in Lives(nm, n), NEW step \in Step(n), SoundStep(step, n),
         Sound(lv.store), FinersSay(lv.store, step.finer, Later(lv.store)),
         NEW w, w = ApplySwap(lv, step), NEW owes \in BOOLEAN, NEW attrs \in SUBSET AllDebts,
         \A d \in attrs : d.id.level = L,
         NEW r, r = ApplyDebts(w.live, owes, attrs)
  PROVE  Resets(nm, lv, r, step, w.step, owes, attrs)
<1> DEFINE s == lv.store
           t == w.live.store
<1>1. /\ w.live \in Lives(nm, n) /\ Alike(s, t)
      /\ \A c \in DOMAIN nm : \A l \in Levels : t[c].levels[l].owes = s[c].levels[l].owes
      /\ FinersSay(t, w.step.finer, Later(s))
      /\ w.step.pre = step.pre /\ w.step.post = step.post
      /\ w.step.preAttr = step.preAttr /\ w.step.postAttr = step.postAttr
  BY SwapResets
<1>2. /\ r \in Lives(nm, n) /\ r.owes = owes /\ Alike(t, r.store)
      /\ \A c \in DOMAIN nm : \A l \in Levels : r.store[c].levels[l].owes = DebtSet(t, attrs, c, l)
  <2> DEFINE x == w.live
  <2>1. x \in Lives(nm, n) /\ r = ApplyDebts(x, owes, attrs)
    BY <1>1
  <2> HIDE DEF x
  <2>2. /\ r \in Lives(nm, n) /\ r.pos = x.pos /\ r.mask = x.mask /\ r.owes = owes
        /\ Frame(x.store, r.store) /\ Alike(x.store, r.store)
        /\ \A c \in DOMAIN nm : \A l \in Levels :
             /\ r.store[c].levels[l].val = x.store[c].levels[l].val
             /\ r.store[c].levels[l].held = x.store[c].levels[l].held
             /\ r.store[c].levels[l].tok = x.store[c].levels[l].tok
             /\ r.store[c].levels[l].owes = DebtSet(x.store, attrs, c, l)
    BY <2>1, DebtsHave
  <2> QED BY <2>2 DEF x
<1>3. s \in Store(nm, n) /\ t \in Store(nm, n) /\ r.store \in Store(nm, n) /\ L \in Levels /\ L \in Nat
  BY <1>1, <1>2, LogAssumption DEF Lives, Levels
<1>4. \A id : Resolve(t, id) = Resolve(s, id)
  BY <1>1, <1>3, AlikeIn
<1>5. \A c, l : Kept(t, attrs, c, l) = Kept(s, attrs, c, l)
  BY <1>4 DEF Kept
<1> HIDE DEF s, t
<1>6. ASSUME NEW c \in DOMAIN nm PROVE r.store[c].levels[L].owes = DebtSet(s, attrs, c, L)
  <2>1. DebtSet(t, attrs, c, L) = DebtSet(s, attrs, c, L)
    <3>1. Kept(t, attrs, c, L) = Kept(s, attrs, c, L)
      BY <1>5
    <3>2. t[c].levels[L].owes = s[c].levels[L].owes
      BY <1>1, <1>3
    <3> QED BY <3>1, <3>2 DEF DebtSet
  <2> QED BY <1>2, <1>3, <2>1
<1>7. ASSUME NEW c \in DOMAIN nm, NEW l \in Levels, l > L PROVE r.store[c].levels[l].owes = s[c].levels[l].owes
  <2>1. Kept(t, attrs, c, l) = {}
    BY <1>3, <1>7 DEF Kept
  <2>2. DebtSet(t, attrs, c, l) = t[c].levels[l].owes
    BY <2>1 DEF DebtSet
  <2> QED BY <1>1, <1>2, <2>2
<1>8. Later(r.store) = Later(s)
  BY <1>3, <1>7, LaterSame
<1>9. Alike(s, r.store)
  BY <1>1, <1>2, AlikeTrans
<1>10. FinersSay(r.store, w.step.finer, Later(s))
  <2>1. \A id : Resolve(r.store, id) = Resolve(t, id)
    BY <1>2, <1>3, AlikeIn
  <2> QED BY <1>1, <2>1 DEF FinersSay
<1> QED BY <1>1, <1>2, <1>6, <1>8, <1>9, <1>10 DEF Resets, s

\* Debts set on what is owed before or after a step are what is owed on its
\* other side.
LEMMA ResetOwing ==
  ASSUME NEW nm, Named(nm), NEW n \in Nat, NEW lv \in Lives(nm, n), NEW lw \in Lives(nm, n),
         NEW step, NEW st, NEW owes, NEW attrs, Resets(nm, lv, lw, step, st, owes, attrs),
         NEW a \in SUBSET OweNames, owes = ("co" \in a), AttrsSay(lv.store, attrs, a),
         \A d \in attrs : d.id.level = L,
         \A x \in Names : (x \in a <=> x \in Owing(lv)) \/ Marked(lv.store, attrs, x)
  PROVE  Owing(lw) = a
<1> DEFINE s == lv.store
           t == lw.store
<1>1. s \in Store(nm, n) /\ t \in Store(nm, n) /\ L \in Levels
  BY LogAssumption DEF Lives, Levels
<1>2. \A x \in Names : x \in Owing(lv) <=> Owes(s, x, L)
  BY OwingIs
<1>3. \A c \in DOMAIN nm : t[c].levels[L].owes = DebtSet(s, attrs, c, L)
  BY DEF Resets
<1> HIDE DEF s, t
<1>4. ASSUME NEW x \in Names PROVE Owes(t, x, L) <=> x \in a
  <2>1. CASE \E c \in DOMAIN nm : nm[c] = x
    <3>1. PICK c \in DOMAIN nm : nm[c] = x
      BY <2>1
    <3>2. PICK H : H = Kept(s, attrs, c, L)
      OBVIOUS
    <3>3. (Owes(t, nm[c], L) <=> t[c].levels[L].owes) /\ t[c].levels[L].owes = DebtSet(s, attrs, c, L)
      BY <1>1, <1>3, OwesAt
    <3>4. (Owes(s, nm[c], L) <=> s[c].levels[L].owes) /\ s[c].levels[L].owes \in BOOLEAN
      BY <1>1, OwesAt
    <3>5. Kept(s, attrs, c, L) = Here(s, attrs, <<nm[c], L>>)
      BY <1>1, KeptHere
    <3>6. \A d : d \in H <=> d \in attrs /\ Resolve(s, d.id) # 0 /\ d.id.name = x
      BY <3>1, <3>2, <3>5 DEF Here
    <3>7. CASE H = {}
      <4>1. ~Marked(s, attrs, x)
        BY <3>6, <3>7 DEF Marked
      <4>2. x \in a <=> x \in Owing(lv)
        BY <4>1 DEF s
      <4>3. DebtSet(s, attrs, c, L) = s[c].levels[L].owes
        BY <3>2, <3>7 DEF DebtSet
      <4> QED BY <1>2, <3>1, <3>3, <3>4, <4>2, <4>3
    <3>8. CASE H # {}
      <4>1. PICK d : d = CHOOSE k \in H : TRUE
        OBVIOUS
      <4>2. d \in H
        BY <3>8, <4>1
      <4>3. DebtSet(s, attrs, c, L) = d.owes
        BY <3>2, <3>8, <4>1 DEF DebtSet
      <4>4. d.owes \in BOOLEAN /\ (d.owes <=> x \in a)
        BY <3>6, <4>2 DEF AttrsSay, s
      <4> QED BY <3>1, <3>3, <4>3, <4>4
    <3> QED BY <3>7, <3>8
  <2>2. CASE \A c \in DOMAIN nm : nm[c] # x
    <3>1. ~Owes(t, x, L)
      BY <1>1, <2>2, OwesNone
    <3>2. ~Owes(s, x, L)
      BY Zenon, <1>1, <2>2, OwesNone
    <3>3. ~Marked(s, attrs, x)
      <4>1. FindChannel(s, x) = 0
        BY <1>1, <2>2, FindIs
      <4> QED BY <4>1 DEF Marked, Resolve
    <3> QED BY <1>2, <3>1, <3>2, <3>3 DEF s
  <2> QED BY <2>1, <2>2
<1>5. lw.owes <=> "co" \in a
  BY DEF Resets
<1>6. /\ Owing(lw) \subseteq OweNames /\ ("co" \in Owing(lw) <=> lw.owes)
      /\ \A x \in Names : x \in Owing(lw) <=> Owes(t, x, L)
  BY OwingIs DEF t
<1>7. \A x \in OweNames : x \in Owing(lw) <=> x \in a
  BY <1>4, <1>5, <1>6 DEF OweNames
<1> QED BY <1>6, <1>7

-----------------------------------------------------------------------------
(* Parts of a history.                                                     *)

Slice(A, i, n) == [k \in 1 .. n |-> A[i + k]]

LEMMA SliceSeq ==
  ASSUME NEW A, NEW i \in Nat, NEW n \in Nat, NEW S, \A k \in 1 .. n : A[i + k] \in S
  PROVE  Slice(A, i, n) \in Seq(S)
BY DEF Slice

\* As a sequence of whatever it has.
SliceOf(A, i, n, S, p) ==
  /\ p \in Seq(S) /\ Len(p) = n /\ DOMAIN p = 1 .. n /\ \A k \in 1 .. n : p[k] = A[i + k]
  /\ p = <<>> <=> n = 0

LEMMA SliceIs ==
  ASSUME NEW A, NEW i \in Nat, NEW n \in Nat, NEW S, \A k \in 1 .. n : A[i + k] \in S,
         NEW p, p = Slice(A, i, n)
  PROVE  SliceOf(A, i, n, S, p)
<1>1. p \in Seq(S)
  BY SliceSeq
<1>2. DOMAIN p = 1 .. n /\ \A k \in 1 .. n : p[k] = A[i + k]
  BY DEF Slice
<1>3. Len(p) = n
  BY <1>1, <1>2
<1>4. p = <<>> <=> n = 0
  BY <1>1, <1>3
<1> QED BY <1>1, <1>2, <1>3, <1>4 DEF SliceOf

LEMMA SliceHas ==
  ASSUME NEW A, NEW i \in Nat, NEW n \in Nat, NEW p, p = Slice(A, i, n)
  PROVE  \E S : SliceOf(A, i, n, S, p) /\ \A k \in 1 .. n : A[i + k] \in S
<1>1. PICK S : S = UNION {{A[i + k]} : k \in 1 .. n}
  OBVIOUS
<1>2. \A k \in 1 .. n : A[i + k] \in S
  BY <1>1
<1>3. SliceOf(A, i, n, S, p)
  BY <1>2, SliceIs
<1> QED BY <1>2, <1>3

LEMMA SliceSame ==
  ASSUME NEW A, NEW B, NEW i, NEW j, NEW n, \A k \in 1 .. n : A[i + k] = B[j + k]
  PROVE  Slice(A, i, n) = Slice(B, j, n)
BY DEF Slice

Appends(A, i, n, m, x) == Append(Slice(A, i, n), x) = Slice(A, i, m)

LEMMA SliceAppend ==
  ASSUME NEW A, NEW i \in Nat, NEW n \in Nat, NEW x, x = A[i + n + 1], NEW m, m = n + 1
  PROVE  Appends(A, i, n, m, x)
<1>1. PICK p, q : p = Slice(A, i, n) /\ q = Slice(A, i, m)
  OBVIOUS
<1>2. m \in Nat /\ i + n + 1 = i + m /\ m \in 1 .. m /\ \A k \in 1 .. n : k \in 1 .. m
  OBVIOUS
<1>3. PICK S : SliceOf(A, i, m, S, q) /\ \A k \in 1 .. m : A[i + k] \in S
  BY <1>1, <1>2, SliceHas
<1>4. \A k \in 1 .. n : A[i + k] \in S
  BY <1>2, <1>3
<1>5. SliceOf(A, i, n, S, p)
  BY <1>1, <1>4, SliceIs
<1>6. x \in S /\ x = A[i + m]
  BY <1>2, <1>3
<1>7. Append(p, x) \in Seq(S) /\ Len(Append(p, x)) = m
  BY <1>5, <1>6 DEF SliceOf
<1>8. \A k \in 1 .. m : Append(p, x)[k] = q[k]
  <2> TAKE k \in 1 .. m
  <2>1. CASE k = m
    <3>1. Append(p, x)[k] = x
      BY <1>5, <1>6, <2>1 DEF SliceOf
    <3> QED BY <1>2, <1>3, <1>6, <2>1, <3>1 DEF SliceOf
  <2>2. CASE k # m
    <3>1. k \in 1 .. n
      BY <2>2
    <3>2. Append(p, x)[k] = p[k]
      BY <1>5, <1>6, <3>1 DEF SliceOf
    <3> QED BY <1>3, <1>5, <3>1, <3>2 DEF SliceOf
  <2> QED BY <2>1, <2>2
<1>9. Append(p, x) = q
  BY <1>3, <1>7, <1>8 DEF SliceOf
<1> QED BY <1>1, <1>9 DEF Appends

Shortens(A, i, n, m) ==
  /\ Front(Slice(A, i, n)) = Slice(A, i, m) /\ Last(Slice(A, i, n)) = A[i + n]
  /\ Slice(A, i, n) # <<>>

LEMMA SliceFront ==
  ASSUME NEW A, NEW i \in Nat, NEW n \in Nat \ {0}, NEW m, m = n - 1
  PROVE  Shortens(A, i, n, m)
<1>1. PICK p : p = Slice(A, i, n)
  OBVIOUS
<1>2. PICK S : SliceOf(A, i, n, S, p)
  BY <1>1, SliceHas
<1>3. Len(p) = n /\ p # <<>> /\ \A k \in 1 .. n : p[k] = A[i + k]
  BY <1>2 DEF SliceOf
<1>4. Last(p) = A[i + n]
  BY <1>3 DEF Last
<1>5. Front(p) = [k \in 1 .. m |-> p[k]]
  BY <1>3 DEF Front
<1>6. \A k \in 1 .. m : p[k] = A[i + k]
  BY <1>3
<1>7. Front(p) = Slice(A, i, m)
  BY <1>5, <1>6 DEF Slice
<1> QED BY <1>1, <1>3, <1>4, <1>7 DEF Shortens

Drops(A, i, n, j, m) ==
  /\ Tail(Slice(A, i, n)) = Slice(A, j, m) /\ Head(Slice(A, i, n)) = A[j]
  /\ Slice(A, i, n) # <<>>

LEMMA SliceTail ==
  ASSUME NEW A, NEW i \in Nat, NEW n \in Nat \ {0}, NEW j, j = i + 1, NEW m, m = n - 1
  PROVE  Drops(A, i, n, j, m)
<1>1. PICK p, q : p = Slice(A, i, n) /\ q = Slice(A, j, m)
  OBVIOUS
<1>2. j \in Nat /\ m \in Nat /\ 1 \in 1 .. n /\ \A k \in 1 .. m : k + 1 \in 1 .. n /\ i + (k + 1) = j + k
  OBVIOUS
<1>3. PICK S : SliceOf(A, i, n, S, p) /\ \A k \in 1 .. n : A[i + k] \in S
  BY <1>1, SliceHas
<1>4. \A k \in 1 .. m : A[j + k] \in S
  <2> TAKE k \in 1 .. m
  <2>1. PICK h : h = k + 1
    OBVIOUS
  <2>2. h \in 1 .. n /\ i + h = j + k
    BY <1>2, <2>1
  <2>3. A[i + h] \in S
    BY <1>3, <2>2
  <2> QED BY <2>2, <2>3
<1>5. SliceOf(A, j, m, S, q)
  BY <1>1, <1>2, <1>4, SliceIs
<1>6. Tail(p) \in Seq(S) /\ Len(Tail(p)) = m /\ \A k \in 1 .. m : Tail(p)[k] = p[k + 1]
  BY <1>3 DEF SliceOf
<1>7. \A k \in 1 .. m : Tail(p)[k] = q[k]
  <2> TAKE k \in 1 .. m
  <2>1. PICK h : h = k + 1
    OBVIOUS
  <2>2. h \in 1 .. n /\ i + h = j + k
    BY <1>2, <2>1
  <2>3. p[h] = A[i + h] /\ q[k] = A[j + k]
    BY <1>3, <1>5, <2>2 DEF SliceOf
  <2> QED BY <1>6, <2>1, <2>2, <2>3
<1>8. Tail(p) = q
  BY <1>5, <1>6, <1>7 DEF SliceOf
<1>9. Head(p) = A[j] /\ p # <<>>
  BY <1>2, <1>3 DEF SliceOf
<1> QED BY <1>1, <1>8, <1>9 DEF Drops

Pushes(A, i, n, j, m, x) == <<x>> \o Slice(A, j, n) = Slice(A, i, m)

LEMMA SlicePush ==
  ASSUME NEW A, NEW i \in Nat, NEW j, j = i + 1, NEW n \in Nat, NEW m, m = n + 1, NEW x, x = A[j]
  PROVE  Pushes(A, i, n, j, m, x)
<1>1. PICK p, q : p = Slice(A, j, n) /\ q = Slice(A, i, m)
  OBVIOUS
<1>2. j \in Nat /\ m \in Nat /\ 1 \in 1 .. m
  OBVIOUS
<1>3. PICK S : SliceOf(A, i, m, S, q) /\ \A k \in 1 .. m : A[i + k] \in S
  BY <1>1, <1>2, SliceHas
<1>4. \A k \in 1 .. n : A[j + k] \in S
  <2> TAKE k \in 1 .. n
  <2>1. PICK h : h = k + 1
    OBVIOUS
  <2>2. h \in 1 .. m /\ i + h = j + k
    BY <2>1
  <2>3. A[i + h] \in S
    BY <1>3, <2>2
  <2> QED BY <2>2, <2>3
<1>5. SliceOf(A, j, n, S, p)
  BY <1>1, <1>2, <1>4, SliceIs
<1>6. x \in S
  BY <1>2, <1>3
<1>7. <<x>> \in Seq(S) /\ Len(<<x>>) = 1 /\ <<x>>[1] = x
  BY <1>6
<1>8. <<x>> \o p \in Seq(S) /\ Len(<<x>> \o p) = m
  BY <1>5, <1>7 DEF SliceOf
<1>9. \A k \in 1 .. m : (<<x>> \o p)[k] = q[k]
  <2> TAKE k \in 1 .. m
  <2>1. CASE k = 1
    <3>1. (<<x>> \o p)[1] = x
      BY <1>5, <1>7 DEF SliceOf
    <3>2. q[1] = A[j]
      BY <1>2, <1>3 DEF SliceOf
    <3> QED BY <2>1, <3>1, <3>2
  <2>2. CASE k # 1
    <3>1. PICK h : h = k - 1
      OBVIOUS
    <3>2. h \in 1 .. n /\ i + k = j + h
      BY <2>2, <3>1
    <3>3. (<<x>> \o p)[k] = p[h]
      BY <1>5, <1>7, <2>2, <3>1, <3>2 DEF SliceOf
    <3>4. p[h] = A[j + h] /\ q[k] = A[i + k]
      BY <1>3, <1>5, <3>2 DEF SliceOf
    <3> QED BY <3>2, <3>3, <3>4
  <2> QED BY <2>1, <2>2
<1>10. <<x>> \o p = q
  BY <1>3, <1>8, <1>9 DEF SliceOf
<1> QED BY <1>1, <1>10 DEF Pushes

-----------------------------------------------------------------------------
(* Steps over another store.                                               *)

IdsOf(step) == {d.id : d \in step.preAttr \cup step.postAttr} \cup {f.id : f \in step.finer}
\* What the step refers to is in u if it is in s, but for the channels X.
Fates(s, u, step, X) ==
  \A id \in IdsOf(step) : Resolve(u, id) # 0 <=> Resolve(s, id) # 0 /\ id.name \notin X

LEMMA AlikeFates ==
  ASSUME NEW nm, Named(nm), NEW n \in Nat, NEW s \in Store(nm, n), NEW t, Alike(s, t), NEW step
  PROVE  Fates(s, t, step, {})
<1>1. \A id : Resolve(t, id) = Resolve(s, id)
  BY AlikeIn
<1> QED BY <1>1 DEF Fates

LEMMA IdsSound ==
  ASSUME NEW n, NEW step, SoundStep(step, n), NEW id \in IdsOf(step)
  PROVE  id.chan < n
BY DEF SoundStep, IdsOf

LEMMA MoreFates ==
  ASSUME NEW s, NEW u, NEW n, More(s, u, n), NEW step, SoundStep(step, n)
  PROVE  Fates(s, u, step, {})
<1> SUFFICES ASSUME NEW id \in IdsOf(step) PROVE Resolve(u, id) # 0 <=> Resolve(s, id) # 0
  BY DEF Fates
<1>1. id.chan < n
  BY IdsSound
<1> DEFINE c == FindChannel(s, id.name)
           e == FindChannel(u, id.name)
<1>2. /\ c # 0 => e = c /\ u[e] = s[c]
      /\ c = 0 /\ e # 0 => ~(u[e].tok < n)
  BY DEF More
<1>3. Resolve(s, id) # 0 <=> /\ c # 0 /\ id.level \in DOMAIN s[c].levels
                             /\ s[c].tok = id.chan /\ s[c].levels[id.level].tok = id.lev
  BY DEF Resolve
<1>4. Resolve(u, id) # 0 <=> /\ e # 0 /\ id.level \in DOMAIN u[e].levels
                             /\ u[e].tok = id.chan /\ u[e].levels[id.level].tok = id.lev
  BY DEF Resolve
<1> HIDE DEF c, e
<1>5. CASE c # 0
  BY <1>2, <1>3, <1>4, <1>5
<1>6. CASE c = 0
  BY <1>1, <1>2, <1>3, <1>4, <1>6
<1> QED BY <1>5, <1>6

LEMMA FewerFates ==
  ASSUME NEW s, NEW u, NEW name, Fewer(s, u, name), NEW step
  PROVE  Fates(s, u, step, {name})
<1> SUFFICES ASSUME NEW id \in IdsOf(step)
             PROVE  Resolve(u, id) # 0 <=> Resolve(s, id) # 0 /\ id.name # name
  BY DEF Fates
<1> DEFINE c == FindChannel(s, id.name)
           e == FindChannel(u, id.name)
<1>1. /\ id.name = name => e = 0
      /\ id.name # name => (e = 0 <=> c = 0) /\ (c # 0 => u[e] = s[c])
  BY DEF Fewer
<1>2. Resolve(s, id) # 0 <=> /\ c # 0 /\ id.level \in DOMAIN s[c].levels
                             /\ s[c].tok = id.chan /\ s[c].levels[id.level].tok = id.lev
  BY DEF Resolve
<1>3. Resolve(u, id) # 0 <=> /\ e # 0 /\ id.level \in DOMAIN u[e].levels
                             /\ u[e].tok = id.chan /\ u[e].levels[id.level].tok = id.lev
  BY DEF Resolve
<1> HIDE DEF c, e
<1>4. CASE id.name = name
  BY <1>1, <1>3, <1>4
<1>5. CASE id.name # name
  BY <1>1, <1>2, <1>3, <1>5
<1> QED BY <1>4, <1>5

LEMMA LinkedOver ==
  ASSUME NEW s, NEW u, NEW step, NEW X, Fates(s, u, step, X), "co" \notin X,
         NEW a, NEW b, Linked(s, step, a, b)
  PROVE  Linked(u, step, a \ X, b \ X)
<1>1. /\ \A d \in step.preAttr : Resolve(u, d.id) # 0 <=> Resolve(s, d.id) # 0 /\ d.id.name \notin X
      /\ \A d \in step.postAttr : Resolve(u, d.id) # 0 <=> Resolve(s, d.id) # 0 /\ d.id.name \notin X
  BY DEF Fates, IdsOf
<1>2. step.pre = ("co" \in a \ X) /\ step.post = ("co" \in b \ X)
  BY DEF Linked
<1>3. AttrsSay(u, step.preAttr, a \ X) /\ AttrsSay(u, step.postAttr, b \ X)
  BY <1>1 DEF Linked, AttrsSay
<1>4. ASSUME NEW x \in Names
      PROVE  (x \in a \ X <=> x \in b \ X) \/ (Marked(u, step.preAttr, x) /\ Marked(u, step.postAttr, x))
  <2>1. CASE x \in X
    BY <2>1
  <2>2. CASE x \notin X
    <3>1. Marked(s, step.preAttr, x) => Marked(u, step.preAttr, x)
      BY <1>1, <2>2 DEF Marked
    <3>2. Marked(s, step.postAttr, x) => Marked(u, step.postAttr, x)
      BY <1>1, <2>2 DEF Marked
    <3>3. (x \in a <=> x \in b) \/ (Marked(s, step.preAttr, x) /\ Marked(s, step.postAttr, x))
      BY DEF Linked
    <3> QED BY <2>2, <3>1, <3>2, <3>3
  <2> QED BY <2>1, <2>2
<1> QED BY <1>2, <1>3, <1>4 DEF Linked

LEMMA FinersOver ==
  ASSUME NEW s, NEW u, NEW step, NEW X, Fates(s, u, step, X), NEW F, NEW G,
         \A l : <<"mask", l>> \in G <=> <<"mask", l>> \in F, FinersSay(s, step.finer, F)
  PROVE  FinersSay(u, step.finer, G)
<1> SUFFICES ASSUME NEW f \in step.finer, Resolve(u, f.id) # 0
             PROVE  (IF f.whole THEN f.state.owes ELSE f.owes) = (<<"mask", f.id.level>> \in G)
  BY DEF FinersSay
<1>1. f.id \in IdsOf(step)
  BY DEF IdsOf
<1>2. Resolve(s, f.id) # 0
  BY <1>1 DEF Fates
<1>3. (IF f.whole THEN f.state.owes ELSE f.owes) = (<<"mask", f.id.level>> \in F)
  BY <1>2 DEF FinersSay
<1>4. (<<"mask", f.id.level>> \in G) = (<<"mask", f.id.level>> \in F)
  OBVIOUS
<1> QED BY <1>3, <1>4

-----------------------------------------------------------------------------
(* The debts of a history: those of each reading, of which the steps from  *)
(* the floor up bring each other about.                                    *)

Debted(os, lv, sts, top, from, to) ==
  /\ os \in [1 .. Len(sts) + 1 -> SUBSET OweNames] /\ os[top + 1] = Owing(lv)
  /\ \A k \in 1 .. Len(sts) : FinersSay(lv.store, sts[k].finer, Later(lv.store))
  /\ \A k \in 1 .. Len(sts) : from < k /\ k <= to => Linked(lv.store, sts[k], os[k], os[k + 1])

\* What an open stroke has done to them: nothing.
Begun(base, lv, step, k) ==
  /\ base = Owing(lv) /\ step.pre = lv.owes /\ step.preAttr \subseteq DebtsAt(lv.store)
  /\ \A x \in k.wrote \cap DOMAIN Layers : FindChannel(lv.store, x) # 0
  /\ k.wrote # {} => k.touched # {}

Owed(os) ==
  /\ Debted(os, live, steps, Top, floor, IF open THEN cursor ELSE Len(steps))
  /\ open => Begun(os[Len(steps)], live, steps[Len(steps)], stroke)

\* The documents of a history, and the parts of it the log promises.
Tale(ds, os, f) == [k \in DOMAIN ds |-> DocAt(ds[k], os[k], f)]
Halves(A, low, top, len, p, q) == p = Slice(A, low, top - low) /\ q = Slice(A, top + 1, len - top)
Told(ds, os) ==
  Halves(Tale(ds, os, Later(live.store)), floor, Top, Len(steps), past, future)

Remembered(ds, os) == Valued(ds) /\ Owed(os) /\ Told(ds, os)

LEMMA DebtedOver ==
  ASSUME NEW os, NEW lv, NEW sts, Len(sts) \in Nat, NEW top \in Nat, top <= Len(sts), NEW from, NEW to,
         Debted(os, lv, sts, top, from, to),
         NEW lw, NEW X, "co" \notin X, \A k \in 1 .. Len(sts) : Fates(lv.store, lw.store, sts[k], X),
         Owing(lw) = Owing(lv) \ X,
         \A l : <<"mask", l>> \in Later(lw.store) <=> <<"mask", l>> \in Later(lv.store),
         NEW us \in [1 .. Len(sts) + 1 -> SUBSET OweNames],
         \A k \in 1 .. Len(sts) + 1 : us[k] = os[k] \ X
  PROVE  Debted(us, lw, sts, top, from, to)
<1>1. us[top + 1] = Owing(lw)
  BY DEF Debted
<1>2. ASSUME NEW k \in 1 .. Len(sts) PROVE FinersSay(lw.store, sts[k].finer, Later(lw.store))
  <2> DEFINE st == sts[k]
             s == lv.store
             u == lw.store
             F == Later(s)
             G == Later(u)
  <2>1. FinersSay(s, st.finer, F) /\ Fates(s, u, st, X) /\ \A l : <<"mask", l>> \in G <=> <<"mask", l>> \in F
    BY DEF Debted
  <2> HIDE DEF st, s, u, F, G
  <2>2. FinersSay(u, st.finer, G)
    BY <2>1, FinersOver
  <2> QED BY <2>2 DEF st, u, G
<1>3. ASSUME NEW k \in 1 .. Len(sts), from < k, k <= to PROVE Linked(lw.store, sts[k], us[k], us[k + 1])
  <2> DEFINE st == sts[k]
             s == lv.store
             u == lw.store
             a == os[k]
             b == os[k + 1]
  <2>1. Linked(s, st, a, b) /\ Fates(s, u, st, X)
    BY <1>3 DEF Debted
  <2>2. us[k] = a \ X /\ us[k + 1] = b \ X
    <3>1. k \in 1 .. Len(sts) + 1 /\ k + 1 \in 1 .. Len(sts) + 1
      OBVIOUS
    <3> QED BY <3>1
  <2> HIDE DEF st, s, u, a, b
  <2>3. Linked(u, st, a \ X, b \ X)
    BY <2>1, LinkedOver
  <2> QED BY <2>2, <2>3 DEF st, u
<1> QED BY <1>1, <1>2, <1>3 DEF Debted

-----------------------------------------------------------------------------
(* What is remembered, with a stroke open and without.                     *)

LEMMA ClosedRecalls ==
  ASSUME Inv, NEW ds, NEW os, Remembered(ds, os), ~open, ~SeekAcross
  PROVE  /\ Debted(os, live, steps, cursor, floor, Len(steps))
         /\ Halves(Tale(ds, os, Later(live.store)), floor, cursor, Len(steps), past, future)
         /\ steps \in Seq(Step(used.toks)) /\ Len(steps) \in Nat /\ cursor \in 0 .. Len(steps)
         /\ floor \in 0 .. cursor /\ open = FALSE /\ Valued(ds)
<1>1. steps \in Seq(Step(used.toks)) /\ cursor \in 0 .. Len(steps) /\ floor \in Nat /\ floor <= cursor
      /\ open = FALSE
  BY DEF Inv, Logged
<1>2. Top = cursor
  BY DEF Top
<1>3. Debted(os, live, steps, cursor, floor, Len(steps))
  BY <1>2 DEF Remembered, Owed
<1>4. Halves(Tale(ds, os, Later(live.store)), floor, cursor, Len(steps), past, future)
  BY <1>2 DEF Remembered, Told
<1> QED BY <1>1, <1>3, <1>4 DEF Remembered

LEMMA ClosedTells ==
  ASSUME NEW ds, NEW os, Valued(ds)', open' = FALSE,
         Debted(os, live', steps', cursor', floor', Len(steps')),
         Halves(Tale(ds, os, Later(live'.store)), floor', cursor', Len(steps'), past', future')
  PROVE  Remembered(ds, os)'
<1>1. Top' = cursor'
  BY DEF Top
<1>2. Owed(os)'
  BY <1>1 DEF Owed
<1>3. Told(ds, os)'
  BY <1>1 DEF Told
<1> QED BY <1>2, <1>3 DEF Remembered

LEMMA OpenRecalls ==
  ASSUME Inv, NEW ds, NEW os, Remembered(ds, os), open, ~SeekAcross
  PROVE  /\ Debted(os, live, steps, Len(steps), floor, cursor)
         /\ Begun(os[Len(steps)], live, steps[Len(steps)], stroke)
         /\ Halves(Tale(ds, os, Later(live.store)), floor, Len(steps), Len(steps), past, future)
         /\ steps \in Seq(Step(used.toks)) /\ Len(steps) \in Nat \ {0} /\ cursor = Len(steps) - 1
         /\ floor \in 0 .. cursor /\ open = TRUE /\ Valued(ds)
<1>1. /\ steps \in Seq(Step(used.toks)) /\ cursor \in 0 .. Len(steps) /\ floor \in Nat /\ floor <= cursor
      /\ open = TRUE /\ cursor = Len(steps) - 1
  BY DEF Inv, Logged
<1>2. Top = Len(steps)
  BY DEF Top
<1>3. Debted(os, live, steps, Len(steps), floor, cursor)
      /\ Begun(os[Len(steps)], live, steps[Len(steps)], stroke)
  BY <1>2 DEF Remembered, Owed
<1>4. Halves(Tale(ds, os, Later(live.store)), floor, Len(steps), Len(steps), past, future)
  BY <1>2 DEF Remembered, Told
<1> QED BY <1>1, <1>3, <1>4 DEF Remembered

LEMMA OpenTells ==
  ASSUME NEW ds, NEW os, Valued(ds)', open' = TRUE,
         Debted(os, live', steps', Len(steps'), floor', cursor'),
         Begun(os[Len(steps')], live', steps'[Len(steps')], stroke'),
         Halves(Tale(ds, os, Later(live'.store)), floor', Len(steps'), Len(steps'), past', future')
  PROVE  Remembered(ds, os)'
<1>1. Top' = Len(steps')
  BY DEF Top
<1>2. Owed(os)'
  BY <1>1 DEF Owed
<1>3. Told(ds, os)'
  BY <1>1 DEF Told
<1> QED BY <1>2, <1>3 DEF Remembered

\* The documents the readings of a history make.
LEMMA TaleIs ==
  ASSUME NEW ds, NEW N \in Nat, DOMAIN ds = 1 .. N + 1, NEW os, NEW f, NEW A, A = Tale(ds, os, f)
  PROVE  \A k \in 1 .. N + 1 : A[k] = DocAt(ds[k], os[k], f)
BY DEF Tale

LEMMA ReadingIn ==
  ASSUME NEW nm, Named(nm), NEW n \in Nat, NEW lv \in Lives(nm, n)
  PROVE  Reading(Reads(lv))
BY ReadsAre

\* The document of a state is one of the history's.
LEMMA DocHere ==
  ASSUME NEW nm, Named(nm), NEW n \in Nat, NEW lv \in Lives(nm, n), Coherent(lv)
  PROVE  /\ Doc(lv) = DocAt(Reads(lv), Owing(lv), Later(lv.store))
         /\ Doc(lv) \in [DocNames -> Contents]
<1>1. Sound(lv.store)
  BY DEF Coherent
<1>2. Doc(lv) = DocAt(Reads(lv), Owing(lv), Later(lv.store))
  BY <1>1, DocIs
<1>3. Reading(Reads(lv))
  BY ReadingIn
<1> QED BY <1>2, <1>3, DocIn

\* What is remembered has it where the history stands.
LEMMA DocNow ==
  ASSUME Inv, NEW ds, NEW os, Remembered(ds, os), NEW A, A = Tale(ds, os, Later(live.store))
  PROVE  /\ Doc(live) = A[Top + 1] /\ Doc(live) \in [DocNames -> Contents]
         /\ DOMAIN ds = 1 .. Len(steps) + 1 /\ Coherent(live) /\ Len(steps) \in Nat /\ Top \in 0 .. Len(steps)
<1>1. PICK nm : Named(nm) /\ live \in Lives(nm, used.toks) /\ used.toks \in Nat
  BY StoredAs
<1>2. Chain(ds, live, steps, Top, ~open) /\ Coherent(live)
  BY DEF Remembered, Valued
<1>3. Len(steps) \in Nat
  BY DEF Inv, Logged
<1>4. Top \in 0 .. Len(steps) /\ DOMAIN ds = 1 .. Len(steps) + 1 /\ ds[Top + 1] = Reads(live)
  BY <1>2 DEF Chain
<1>5. os[Top + 1] = Owing(live)
  BY DEF Remembered, Owed, Debted
<1>6. /\ Doc(live) = DocAt(Reads(live), Owing(live), Later(live.store))
      /\ Doc(live) \in [DocNames -> Contents]
  BY <1>1, <1>2, DocHere
<1>7. Top + 1 \in 1 .. Len(steps) + 1
  BY <1>3, <1>4
<1>8. A[Top + 1] = DocAt(ds[Top + 1], os[Top + 1], Later(live.store))
  BY <1>3, <1>4, <1>7, TaleIs
<1> QED BY <1>2, <1>3, <1>4, <1>5, <1>6, <1>8

\* The next document is that of the next state.
LEMMA DocNext == Doc(live)' = Doc(live')
BY DEF Doc, Content

\* Debts of a history that starts over.
Quits(lv) == [k \in 1 .. 1 |-> Owing(lv)]

LEMMA StartsAgain ==
  ASSUME NEW es, Valued(es)', open = FALSE, open' = FALSE, steps' = <<>>, cursor' = 0, floor' = 0, past' = <<>>, future' = <<>>,
         NEW us, us = Quits(live'), Doc(live') \in [DocNames -> Contents]
  PROVE  Remembered(es, us)' /\ History!GiveUp
<1>1. Len(steps') = 0 /\ \A k \in 1 .. Len(steps') : FALSE
  OBVIOUS
<1>2. Owing(live') \subseteq OweNames
  BY DEF Owing
<1>3. Debted(us, live', steps', 0, 0, 0)
  BY <1>1, <1>2 DEF Debted, Quits
<1>4. PICK A : A = Tale(es, us, Later(live'.store))
  OBVIOUS
<1>5. Halves(A, 0, 0, 0, past', future')
  BY DEF Halves, Slice
<1>6. Remembered(es, us)'
  BY <1>1, <1>3, <1>4, <1>5, ClosedTells
<1>7. Doc(live)' \in [DocNames -> Contents]
  BY DocNext
<1>8. History!GiveUp
  BY <1>7 DEF History!GiveUp
<1> QED BY <1>6, <1>8

-----------------------------------------------------------------------------
(* Steps that give the history up, or leave it.                            *)

Recounted == \E ds, os : Remembered(ds, os)

\* The document of the next state, by what it shows.
LEMMA DocAfter ==
  ASSUME Inv', NEW es, Valued(es)'
  PROVE  /\ Doc(live') = DocAt(Reads(live'), Owing(live'), Later(live'.store))
         /\ Doc(live') \in [DocNames -> Contents]
<1>1. PICK nm : Named(nm) /\ live' \in Lives(nm, used'.toks)
  BY DEF Inv, Stored
<1>2. used'.toks \in Nat
  BY DEF Inv, Logged, Uses
<1>3. Coherent(live')
  BY DEF Valued
<1> QED BY <1>1, <1>2, <1>3, DocHere

LEMMA SyncTells ==
  ASSUME Inv, Inv', NEW ds, Valued(ds), Sync
  PROVE  Recounted' /\ History!GiveUp
<1>1. PICK es : es = Alone(live)
  OBVIOUS
<1>2. PICK us : us = Quits(live')
  OBVIOUS
<1>3. Valued(es)'
  BY <1>1, SyncValues
<1>4. Doc(live') \in [DocNames -> Contents]
  BY <1>3, DocAfter
<1>5. /\ open = FALSE /\ open' = FALSE /\ steps' = <<>> /\ cursor' = 0 /\ floor' = 0
      /\ past' = <<>> /\ future' = <<>>
  BY DEF Sync, Inv, Logged
<1>6. Remembered(es, us)' /\ History!GiveUp
  BY <1>2, <1>3, <1>4, <1>5, StartsAgain
<1> QED BY <1>6 DEF Recounted

\* The parts of a history that are empty.
LEMMA NoHalves ==
  ASSUME NEW A, NEW n, NEW p, NEW q, Halves(A, n, n, n, p, q), n \in Nat
  PROVE  p = <<>> /\ q = <<>>
BY DEF Halves, Slice

LEMMA EditMaskTells ==
  ASSUME Inv, Inv', NEW ds, NEW os, Remembered(ds, os), EditMask, ~SeekAcross
  PROVE  Recounted' /\ History!GiveUp
<1>1. PICK es : es = Alone(live')
  OBVIOUS
<1>2. PICK us : us = Quits(live')
  OBVIOUS
<1>3. Valued(es)'
  <2>1. Valued(ds)
    BY DEF Remembered
  <2> QED BY <1>1, <2>1, EditMaskValues
<1>4. Doc(live') \in [DocNames -> Contents]
  BY <1>3, DocAfter
<1>5. /\ ~open /\ steps = <<>> /\ steps' = steps /\ cursor' = cursor /\ floor' = floor /\ open' = open
      /\ past' = past /\ future' = future
  BY DEF EditMask
<1>6. /\ Halves(Tale(ds, os, Later(live.store)), floor, cursor, Len(steps), past, future)
      /\ cursor \in 0 .. Len(steps) /\ floor \in 0 .. cursor /\ open = FALSE
  BY <1>5, ClosedRecalls
<1>7. cursor = 0 /\ floor = 0 /\ Len(steps) = 0
  BY <1>5, <1>6
<1>8. past = <<>> /\ future = <<>>
  BY <1>6, <1>7, NoHalves
<1>9. /\ open = FALSE /\ open' = FALSE /\ steps' = <<>> /\ cursor' = 0 /\ floor' = 0
      /\ past' = <<>> /\ future' = <<>>
  BY <1>5, <1>6, <1>7, <1>8
<1>10. Remembered(es, us)' /\ History!GiveUp
  BY <1>2, <1>3, <1>4, <1>9, StartsAgain
<1> QED BY <1>10 DEF Recounted

\* What a switch leaves of the debts.
Settling(lv) == IF \E x \in Names : Owes(lv.store, x, L) THEN SettledDown(lv, L) ELSE lv
Stowed(r, low, high) ==
  [r EXCEPT !.owes = FALSE, !.store = EvictFrom(EvictFrom(@, low, L - 1), high, L)]

LEMMA SwitchOwes ==
  ASSUME Inv, L >= 2, NEW nm, Named(nm), live \in Lives(nm, used.toks), NEW r, r = Settling(live),
         NEW low \in 1 .. Depth + 1, NEW high \in 1 .. Depth + 1, live' = Stowed(r, low, high)
  PROVE  /\ live'.owes = FALSE
         /\ \A c \in DOMAIN nm : \A l \in Levels :
              l > L \/ r = live => live'.store[c].levels[l].owes = live.store[c].levels[l].owes
<1> DEFINE n == used.toks
           a == EvictFrom(r.store, low, L - 1)
           b == EvictFrom(a, high, L)
<1>1. n \in Nat /\ L \in Nat /\ L \in Levels /\ L - 1 \in Levels
  BY LogAssumption DEF Inv, Logged, Uses, Levels
<1>2. /\ r \in Lives(nm, n)
      /\ \A c \in DOMAIN nm : \A l \in Levels :
           l > L \/ r = live => r.store[c].levels[l].owes = live.store[c].levels[l].owes
  <2>1. CASE \E x \in Names : Owes(live.store, x, L)
    <3>1. r = SettledDown(live, L)
      BY <2>1 DEF Settling
    <3>2. /\ r \in Lives(nm, n)
          /\ \A c \in DOMAIN nm : /\ ~live.store[c].levels[L].owes => r.store[c] = live.store[c]
                                  /\ live.store[c].levels[L].owes
                                       => Settled(live.store[c].levels, r.store[c].levels, L)
      BY <1>1, <3>1, SettledDownHas
    <3>3. ASSUME NEW c \in DOMAIN nm, NEW l \in Levels, l > L
          PROVE  r.store[c].levels[l].owes = live.store[c].levels[l].owes
      <4>1. CASE ~live.store[c].levels[L].owes
        BY Zenon, <3>2, <4>1
      <4>2. CASE live.store[c].levels[L].owes
        <5>1. live.store \in Store(nm, n)
          BY DEF Lives
        <5>2. l \in DOMAIN live.store[c].levels
          <6>1. PICK s : s = live.store
            OBVIOUS
          <6>2. DOMAIN s[c].levels = 1 .. Depth
            BY <1>1, <5>1, <6>1, StoreForm
          <6> QED BY <6>1, <6>2 DEF Levels
        <5>3. l # L /\ l # L - 1
          BY <1>1, <3>3 DEF Levels
        <5> QED BY <3>2, <4>2, <5>2, <5>3 DEF Settled
      <4> QED BY <4>1, <4>2
    <3> QED BY <3>2, <3>3
  <2>2. CASE ~\E x \in Names : Owes(live.store, x, L)
    <3>1. r = live
      BY <2>2 DEF Settling
    <3> QED BY <3>1
  <2> QED BY <2>1, <2>2
<1>3. r.store \in Store(nm, n) /\ r = [store |-> r.store, pos |-> r.pos, owes |-> r.owes, mask |-> r.mask]
  BY <1>2 DEF Lives
<1>4. a \in Store(nm, n) /\ a = Reheld(r.store, (low .. Depth) \ {L - 1}, "chunks", "blob")
  BY <1>1, <1>3, EvictedIs DEF EvictFrom, EvictLevels
<1> HIDE DEF a
<1>5. b \in Store(nm, n) /\ b = Reheld(a, (high .. Depth) \ {L}, "chunks", "blob")
  BY <1>1, <1>4, EvictedIs DEF EvictFrom, EvictLevels
<1>6. live'.owes = FALSE /\ live'.store = b
  BY <1>3 DEF a, Stowed
<1> HIDE DEF b
<1>7. \A c \in DOMAIN nm : \A l \in Levels : a[c].levels[l].owes = r.store[c].levels[l].owes
  <2>1. r.store \in Store(nm, n)
    BY <1>3
  <2> QED BY <1>1, <1>4, <2>1, ReheldHas
<1>8. \A c \in DOMAIN nm : \A l \in Levels : b[c].levels[l].owes = a[c].levels[l].owes
  BY <1>1, <1>4, <1>5, ReheldHas
<1> HIDE DEF n
<1> QED BY <1>2, <1>6, <1>7, <1>8

LEMMA SwitchTells ==
  ASSUME Inv, Inv', NEW ds, NEW os, Remembered(ds, os), Switch, ~SeekAcross
  PROVE  Recounted' /\ (History!GiveUp \/ UNCHANGED History!vars)
<1>1. PICK r : r = Settling(live)
  OBVIOUS
<1>2. PICK low \in 1 .. Depth + 1, high \in 1 .. Depth + 1 :
        live' = Stowed(r, low, high)
  BY Zenon, <1>1 DEF Switch, Settling, Stowed
<1>3. /\ ~open /\ L >= 2 /\ used' = [used EXCEPT !.calls = @ + 1] /\ open' = open
      /\ live.owes => steps' = <<>> /\ cursor' = 0 /\ floor' = 0
      /\ ~live.owes => /\ r = live \/ cursor = Len(steps)
                       /\ floor' = IF r = live THEN floor ELSE cursor
                       /\ steps' = steps /\ cursor' = cursor
      /\ live.owes \/ r # live => past' = <<>> /\ future' = <<>>
      /\ ~(live.owes \/ r # live) => past' = past /\ future' = future
  BY <1>1 DEF Switch, Called, Settling
<1>4. PICK nm : Named(nm) /\ live \in Lives(nm, used.toks) /\ used.toks \in Nat /\ live.owes \in BOOLEAN
  BY StoredAs
<1>5. /\ Debted(os, live, steps, cursor, floor, Len(steps))
      /\ Halves(Tale(ds, os, Later(live.store)), floor, cursor, Len(steps), past, future)
      /\ steps \in Seq(Step(used.toks)) /\ Len(steps) \in Nat /\ cursor \in 0 .. Len(steps)
      /\ floor \in 0 .. cursor /\ open = FALSE /\ Valued(ds)
  BY <1>3, ClosedRecalls
<1>6. open' = FALSE
  BY <1>3, <1>5
<1>7. PICK es : es = Alone(live)
  OBVIOUS
<1>9. /\ live' \in Lives(nm, used.toks) /\ Coherent(live') /\ Reads(live') = Reads(live)
      /\ Alike(live.store, live'.store)
  BY <1>4, <1>5, SwitchQuiet
<1>10. /\ live'.owes = FALSE
       /\ \A c \in DOMAIN nm : \A l \in Levels :
            l > L \/ r = live => live'.store[c].levels[l].owes = live.store[c].levels[l].owes
  BY Zenon, <1>1, <1>2, <1>3, <1>4, SwitchOwes
<1>11. live.store \in Store(nm, used.toks) /\ live'.store \in Store(nm, used.toks)
  BY <1>4, <1>9 DEF Lives
<1>12. Later(live'.store) = Later(live.store)
  BY <1>4, <1>10, <1>11, LaterSame
<1>13. \A k \in 1 .. Len(steps) : Fates(live.store, live'.store, steps[k], {})
  BY <1>4, <1>9, <1>11, AlikeFates
<1>14. Doc(live') \in [DocNames -> Contents] /\ Doc(live') = DocAt(Reads(live'), Owing(live'), Later(live'.store))
  BY <1>4, <1>9, DocHere
<1>15. CASE live.owes
  <2>1. steps' = <<>> /\ cursor' = 0 /\ floor' = 0 /\ past' = <<>> /\ future' = <<>>
    BY <1>3, <1>15
  <2>2. Valued(es)'
    BY <1>5, <1>7, <2>1, SwitchStarts
  <2>3. PICK us : us = Quits(live')
    OBVIOUS
  <2>4. Remembered(es, us)' /\ History!GiveUp
    BY <1>5, <1>6, <1>14, <2>1, <2>2, <2>3, StartsAgain
  <2> QED BY <2>2, <2>4 DEF Recounted
<1>16. CASE ~live.owes
  <2>1. steps' = steps /\ cursor' = cursor /\ floor' = IF r = live THEN floor ELSE cursor
    BY <1>3, <1>16
  <2>2. Valued(ds)'
    BY <1>5, <2>1, SwitchLeaves
  <2>3. CASE r = live
    <3>1. Owing(live') = Owing(live)
      <4>1. live'.owes = live.owes
        BY <1>4, <1>10, <1>16
      <4>2. L \in Levels
        BY LogAssumption DEF Levels
      <4> QED BY <1>4, <1>9, <1>10, <2>3, <4>1, <4>2, OwingSame
    <3>2. Debted(os, live', steps, cursor, floor, Len(steps))
      <4>1. /\ os \in [1 .. Len(steps) + 1 -> SUBSET OweNames]
            /\ \A k \in 1 .. Len(steps) + 1 : os[k] = os[k] \ {}
            /\ Owing(live') = Owing(live) \ {} /\ "co" \notin {}
        BY <1>5, <3>1 DEF Debted
      <4>2. cursor \in Nat /\ cursor <= Len(steps)
        BY <1>5
      <4> QED BY <1>5, <1>12, <1>13, <4>1, <4>2, DebtedOver
    <3>3. /\ Debted(os, live', steps', cursor', floor', Len(steps'))
          /\ Halves(Tale(ds, os, Later(live'.store)), floor', cursor', Len(steps'), past', future')
      <4>1. past' = past /\ future' = future /\ floor' = floor
        BY <1>3, <1>16, <2>1, <2>3
      <4> QED BY <1>5, <1>12, <2>1, <3>2, <4>1
    <3>4. Remembered(ds, os)'
      BY <1>6, <2>2, <3>3, ClosedTells
    <3>5. Doc(live') = Doc(live)
      <4>1. Doc(live) = DocAt(Reads(live), Owing(live), Later(live.store))
        <5>1. Coherent(live)
          BY <1>5 DEF Valued
        <5> QED BY <1>4, <5>1, DocHere
      <4> QED BY <1>9, <1>12, <1>14, <3>1, <4>1
    <3>6. UNCHANGED History!vars
      <4>1. Doc(live)' = Doc(live)
        BY <3>5, DocNext
      <4>2. past' = past /\ future' = future
        BY <1>3, <1>16, <2>3
      <4> QED BY <1>3, <4>1, <4>2 DEF History!vars
    <3> QED BY <3>4, <3>6 DEF Recounted
  <2>4. CASE r # live
    <3>1. cursor = Len(steps) /\ floor' = cursor /\ past' = <<>> /\ future' = <<>>
      BY <1>3, <1>16, <2>4
    <3>2. PICK N : N = Len(steps)
      OBVIOUS
    <3>3. PICK us : us = [k \in 1 .. N + 1 |-> Owing(live')]
      OBVIOUS
    <3>4. Debted(us, live', steps', cursor', floor', Len(steps'))
      <4>1. us \in [1 .. N + 1 -> SUBSET OweNames]
        <5>1. Owing(live') \subseteq OweNames
          BY DEF Owing
        <5> QED BY <3>3, <5>1
      <4>2. us[cursor + 1] = Owing(live')
        BY <1>5, <3>1, <3>2, <3>3
      <4>3. ASSUME NEW k \in 1 .. N PROVE FinersSay(live'.store, steps[k].finer, Later(live'.store))
        <5>1. FinersSay(live.store, steps[k].finer, Later(live.store)) /\ Fates(live.store, live'.store, steps[k], {})
          BY <1>5, <1>13, <3>2, <4>3 DEF Debted
        <5> QED BY <1>12, <5>1, FinersOver
      <4>4. \A k \in 1 .. N : ~(floor' < k /\ k <= N)
        BY <1>5, <3>1, <3>2
      <4> QED BY <2>1, <3>2, <4>1, <4>2, <4>3, <4>4 DEF Debted
    <3>5. Halves(Tale(ds, us, Later(live'.store)), floor', cursor', Len(steps'), past', future')
      <4>1. floor' = cursor' /\ cursor' = Len(steps') /\ Len(steps') \in Nat
        BY <1>5, <2>1, <3>1
      <4>2. PICK A : A = Tale(ds, us, Later(live'.store))
        OBVIOUS
      <4>3. \A n \in Nat : Halves(A, n, n, n, <<>>, <<>>)
        BY DEF Halves, Slice
      <4> QED BY <3>1, <4>1, <4>2, <4>3
    <3>6. Remembered(ds, us)'
      BY <1>6, <2>2, <3>4, <3>5, ClosedTells
    <3>7. History!GiveUp
      <4>1. Doc(live)' \in [DocNames -> Contents]
        BY <1>14, DocNext
      <4> QED BY <1>3, <1>5, <3>1, <4>1 DEF History!GiveUp
    <3> QED BY <3>6, <3>7 DEF Recounted
  <2> QED BY <2>3, <2>4
<1> QED BY <1>15, <1>16

LEMMA StutterTells ==
  ASSUME NEW ds, NEW os, Remembered(ds, os), UNCHANGED vars
  PROVE  Recounted' /\ UNCHANGED History!vars
<1>1. /\ live' = live /\ steps' = steps /\ cursor' = cursor /\ open' = open /\ stroke' = stroke
      /\ floor' = floor /\ past' = past /\ future' = future /\ Valued(ds)'
  BY StutterValues DEF vars, Remembered
<1>2. Top' = Top
  BY <1>1 DEF Top
<1>3. Owed(os)'
  BY <1>1, <1>2 DEF Owed, Remembered
<1>4. Told(ds, os)'
  BY <1>1, <1>2 DEF Told, Remembered
<1>5. UNCHANGED History!vars
  <2>1. Doc(live)' = Doc(live)
    BY <1>1, DocNext
  <2> QED BY <1>1, <2>1 DEF History!vars
<1>6. Remembered(ds, os)'
  BY <1>1, <1>3, <1>4 DEF Remembered
<1> QED BY <1>5, <1>6 DEF Recounted

-----------------------------------------------------------------------------
(* Undo and redo.                                                          *)

\* A step with the same debts links what the other one did.
LEMMA LinkedLike ==
  ASSUME NEW nm, Named(nm), NEW n \in Nat, NEW s \in Store(nm, n), NEW t, Alike(s, t),
         NEW step, NEW st, NEW a, NEW b, Linked(s, step, a, b),
         st.pre = step.pre, st.post = step.post, st.preAttr = step.preAttr, st.postAttr = step.postAttr
  PROVE  Linked(t, st, a, b)
<1>1. Fates(s, t, step, {})
  BY AlikeFates
<1>2. Linked(t, step, a \ {}, b \ {})
  <2>1. "co" \notin {}
    OBVIOUS
  <2> QED BY <1>1, <2>1, LinkedOver
<1>3. a \ {} = a /\ b \ {} = b
  OBVIOUS
<1>4. Linked(t, step, a, b)
  BY <1>2, <1>3
<1> QED BY <1>4 DEF Linked

\* The debts after a replay u of a step, from what lv owed to o.
Relinked(lv, u, a, b, o) ==
  /\ Owing(u.live) = o /\ Later(u.live.store) = Later(lv.store) /\ Alike(lv.store, u.live.store)
  /\ FinersSay(u.live.store, u.step.finer, Later(u.live.store)) /\ Linked(u.live.store, u.step, a, b)

LEMMA ReplayLinks ==
  ASSUME NEW nm, Named(nm), NEW n \in Nat, NEW lv \in Lives(nm, n), NEW step \in Step(n), SoundStep(step, n),
         Sound(lv.store), FinersSay(lv.store, step.finer, Later(lv.store)),
         NEW a \in SUBSET OweNames, NEW b \in SUBSET OweNames, Linked(lv.store, step, a, b),
         NEW u, u.live \in Lives(nm, n), NEW o,
         \/ u = Undone(lv, step) /\ Owing(lv) = b /\ o = a
         \/ u = Redone(lv, step) /\ Owing(lv) = a /\ o = b
  PROVE  Relinked(lv, u, a, b, o)
<1>1. PICK w : w = ApplySwap(lv, step)
  OBVIOUS
<1>2. PICK owes, attrs :
         /\ u.live = ApplyDebts(w.live, owes, attrs) /\ u.step = w.step
         /\ \/ owes = step.pre /\ attrs = step.preAttr /\ Owing(lv) = b /\ o = a
            \/ owes = step.post /\ attrs = step.postAttr /\ Owing(lv) = a /\ o = b
  BY <1>1 DEF Undone, Redone
<1>3. /\ step.pre \in BOOLEAN /\ step.post \in BOOLEAN
      /\ step.preAttr \in SUBSET AllDebts /\ step.postAttr \in SUBSET AllDebts
  BY DEF Step
<1>4. owes \in BOOLEAN /\ attrs \in SUBSET AllDebts
  BY <1>2, <1>3
<1>5. \A d \in attrs : d.id.level = L
  BY <1>2 DEF SoundStep
<1>6. PICK r : r = ApplyDebts(w.live, owes, attrs)
  OBVIOUS
<1>7. Resets(nm, lv, r, step, w.step, owes, attrs)
  BY <1>1, <1>4, <1>5, <1>6, ReplayResets
<1>8. r = u.live /\ r \in Lives(nm, n)
  BY <1>2, <1>6
<1>9. /\ step.pre = ("co" \in a) /\ step.post = ("co" \in b)
      /\ AttrsSay(lv.store, step.preAttr, a) /\ AttrsSay(lv.store, step.postAttr, b)
      /\ \A x \in Names : (x \in a <=> x \in b)
                          \/ (Marked(lv.store, step.preAttr, x) /\ Marked(lv.store, step.postAttr, x))
  BY DEF Linked
<1>10. /\ o \in SUBSET OweNames /\ owes = ("co" \in o) /\ AttrsSay(lv.store, attrs, o)
       /\ \A x \in Names : (x \in o <=> x \in Owing(lv)) \/ Marked(lv.store, attrs, x)
  <2>1. CASE owes = step.pre /\ attrs = step.preAttr /\ Owing(lv) = b /\ o = a
    BY <1>9, <2>1
  <2>2. CASE owes = step.post /\ attrs = step.postAttr /\ Owing(lv) = a /\ o = b
    BY <1>9, <2>2
  <2> QED BY <1>2, <2>1, <2>2
<1>11. Owing(r) = o
  BY <1>5, <1>7, <1>8, <1>10, ResetOwing
<1>12. /\ Later(r.store) = Later(lv.store) /\ Alike(lv.store, r.store)
       /\ FinersSay(r.store, w.step.finer, Later(lv.store))
       /\ w.step.pre = step.pre /\ w.step.post = step.post
       /\ w.step.preAttr = step.preAttr /\ w.step.postAttr = step.postAttr
  BY <1>7 DEF Resets
<1>13. Linked(r.store, w.step, a, b)
  <2>1. lv.store \in Store(nm, n)
    BY DEF Lives
  <2> QED BY <1>12, <2>1, LinkedLike
<1> QED BY <1>2, <1>6, <1>11, <1>12, <1>13 DEF Relinked

\* What a history owes once step i of it has been replayed.
LEMMA ReplayDebts ==
  ASSUME NEW nm, Named(nm), NEW n \in Nat, NEW lv \in Lives(nm, n), NEW os, NEW sts, NEW top,
         sts \in Seq(Step(n)), Len(sts) \in Nat, NEW from, Debted(os, lv, sts, top, from, Len(sts)),
         NEW i \in 1 .. Len(sts), NEW j \in Nat, from < i,
         NEW u, NEW a, NEW b, NEW o, Relinked(lv, u, a, b, o), a = os[i], b = os[i + 1], o = os[j + 1],
         lv.store \in Store(nm, n), NEW tts, tts = [sts EXCEPT ![i] = u.step]
  PROVE  Debted(os, u.live, tts, j, from, Len(sts))
<1> DEFINE lw == u.live
           st == u.step
<1>1. /\ Owing(lw) = os[j + 1] /\ Later(lw.store) = Later(lv.store) /\ Alike(lv.store, lw.store)
      /\ FinersSay(lw.store, st.finer, Later(lw.store)) /\ Linked(lw.store, st, os[i], os[i + 1])
  BY DEF Relinked
<1> HIDE DEF lw
<1>2. Len(tts) = Len(sts) /\ tts[i] = st /\ \A k \in 1 .. Len(sts) : k # i => tts[k] = sts[k]
  OBVIOUS
<1>3. ASSUME NEW k \in 1 .. Len(sts) PROVE FinersSay(lw.store, tts[k].finer, Later(lw.store))
  <2>1. CASE k # i
    <3>1. Fates(lv.store, lw.store, sts[k], {})
      BY <1>1, AlikeFates
    <3>2. FinersSay(lv.store, sts[k].finer, Later(lv.store))
      BY DEF Debted
    <3>3. FinersSay(lw.store, sts[k].finer, Later(lw.store))
      BY <1>1, <3>1, <3>2, FinersOver
    <3> QED BY <1>2, <2>1, <3>3
  <2> QED BY <1>1, <1>2, <2>1
<1>4. ASSUME NEW k \in 1 .. Len(sts), from < k PROVE Linked(lw.store, tts[k], os[k], os[k + 1])
  <2>1. CASE k # i
    <3>1. Linked(lv.store, sts[k], os[k], os[k + 1])
      BY <1>4 DEF Debted
    <3>2. Linked(lw.store, sts[k], os[k], os[k + 1])
      BY <1>1, <3>1, LinkedLike
    <3> QED BY <1>2, <2>1, <3>2
  <2> QED BY <1>1, <1>2, <2>1
<1>5. os \in [1 .. Len(tts) + 1 -> SUBSET OweNames]
  BY <1>2 DEF Debted
<1>6. Debted(os, lw, tts, j, from, Len(sts))
  BY <1>1, <1>2, <1>3, <1>4, <1>5 DEF Debted
<1> QED BY <1>6 DEF lw
\* The ends of a sequence, as the history takes them.
LEMMA HistoryEnds == \A q : History!Last(q) = Last(q) /\ History!Front(q) = Front(q)
BY DEF Last, Front, History!Last, History!Front

\* The documents around the place where a history stands, one step back.
LEMMA HalvesBack ==
  ASSUME NEW A, NEW low \in Nat, NEW top \in Nat, NEW len \in Nat, low < top, top <= len, NEW p, NEW q,
         Halves(A, low, top, len, p, q), NEW x, x = A[top + 1], NEW i, i = top - 1
  PROVE  Halves(A, low, i, len, Front(p), <<x>> \o q) /\ p # <<>> /\ Last(p) = A[top]
<1> DEFINE n == top - low
           m == i - low
           h == len - top
           g == len - i
<1>1. n \in Nat \ {0} /\ m = n - 1 /\ low + n = top /\ h \in Nat /\ g = h + 1 /\ top + 1 = i + 1 + 1
      /\ i + 1 = top
  OBVIOUS
<1>2. p = Slice(A, low, n) /\ q = Slice(A, top + 1, h)
  BY DEF Halves
<1> HIDE DEF n, m, h, g
<1>3. Shortens(A, low, n, m)
  BY <1>1, SliceFront
<1>4. PICK j : j = top + 1
  OBVIOUS
<1>5. Pushes(A, top, h, j, g, x)
  BY <1>1, <1>4, SlicePush
<1>6. Front(p) = Slice(A, low, m) /\ <<x>> \o q = Slice(A, i + 1, g) /\ p # <<>> /\ Last(p) = A[top]
  BY <1>1, <1>2, <1>3, <1>4, <1>5 DEF Shortens, Pushes
<1> QED BY <1>6 DEF Halves, m, g

\* And one step on.
LEMMA HalvesOn ==
  ASSUME NEW A, NEW low \in Nat, NEW top \in Nat, NEW len \in Nat, low <= top, top < len, NEW p, NEW q,
         Halves(A, low, top, len, p, q), NEW x, x = A[top + 1], NEW i, i = top + 1
  PROVE  Halves(A, low, i, len, Append(p, x), Tail(q)) /\ q # <<>> /\ Head(q) = A[i + 1]
<1> DEFINE n == top - low
           m == i - low
           h == len - top
           g == len - i
           j == i + 1
<1>1. n \in Nat /\ m = n + 1 /\ low + n + 1 = top + 1 /\ h \in Nat \ {0} /\ g = h - 1 /\ j = i + 1 /\ i \in Nat
  OBVIOUS
<1>2. p = Slice(A, low, n) /\ q = Slice(A, i, h)
  BY DEF Halves
<1>3. x = A[low + n + 1]
  BY <1>1
<1> HIDE DEF n, m, h, g, j
<1>4. Appends(A, low, n, m, x)
  BY <1>1, <1>3, SliceAppend
<1>5. Drops(A, i, h, j, g)
  BY <1>1, SliceTail
<1>6. Append(p, x) = Slice(A, low, m) /\ Tail(q) = Slice(A, j, g) /\ q # <<>> /\ Head(q) = A[j]
  BY <1>2, <1>4, <1>5 DEF Appends, Drops
<1> QED BY <1>6 DEF Halves, m, g, j

\* Undo and redo bring back the documents before and after the step.
LEMMA UndoTells ==
  ASSUME Inv, Inv', NEW ds, NEW os, Remembered(ds, os), Undo, ~SeekAcross
  PROVE  Recounted' /\ History!Undo
<1> DEFINE u == Undone(live, steps[cursor])
           A == Tale(ds, os, Later(live.store))
           N == Len(steps)
<1>1. /\ ~open /\ cursor > floor /\ cursor > 0 /\ live' = u.live /\ steps' = [steps EXCEPT ![cursor] = u.step]
      /\ cursor' = cursor - 1 /\ open' = open /\ floor' = floor
      /\ past' = (IF past = <<>> THEN past ELSE Front(past)) /\ future' = <<Doc(live)>> \o future
  BY DEF Undo
<1>2. /\ Debted(os, live, steps, cursor, floor, N) /\ Halves(A, floor, cursor, N, past, future)
      /\ steps \in Seq(Step(used.toks)) /\ N \in Nat /\ cursor \in 0 .. N /\ floor \in 0 .. cursor
      /\ open = FALSE /\ Valued(ds)
  BY <1>1, ClosedRecalls
<1>3. Valued(ds)' /\ Reads(live') = ds[cursor]
  BY <1>2, UndoValues
<1>4. PICK nm : Named(nm) /\ live \in Lives(nm, used.toks) /\ live.store \in Store(nm, used.toks)
                /\ used.toks \in Nat
  BY StoredAs
<1>5. /\ cursor \in 1 .. N /\ steps[cursor] \in Step(used.toks) /\ cursor' \in Nat /\ cursor' + 1 = cursor
      /\ open' = FALSE
  BY <1>1, <1>2
<1>6. /\ Chain(ds, live, steps, cursor, TRUE) /\ Coherent(live)
      /\ \A k \in 1 .. N : SoundStep(steps[k], used.toks)
  BY <1>1, <1>2, ClosedHas
<1>7. u.live \in Lives(nm, used.toks)
  <2>1. Reading(ds[cursor]) /\ Leads(live.store, steps[cursor], ds[cursor], Reads(live))
    BY <1>2, <1>5, <1>6 DEF Chain
  <2>2. SoundStep(steps[cursor], used.toks) /\ Sound(live.store)
    BY <1>5, <1>6 DEF Coherent
  <2>3. u \in {Undone(live, steps[cursor]), Redone(live, steps[cursor])}
    OBVIOUS
  <2> HIDE DEF u
  <2>4. Swapped(nm, used.toks, live, ds[cursor], u.live, u.step)
    BY <1>4, <1>5, <2>1, <2>2, <2>3, ReplayReads
  <2> QED BY <2>4 DEF Swapped
<1> DEFINE a == os[cursor]
           b == os[cursor + 1]
           o == os[cursor' + 1]
<1>8. Relinked(live, u, a, b, o)
  <2>1. /\ os[cursor] \in SUBSET OweNames /\ os[cursor + 1] \in SUBSET OweNames
        /\ Owing(live) = os[cursor + 1] /\ os[cursor' + 1] = os[cursor]
        /\ FinersSay(live.store, steps[cursor].finer, Later(live.store))
        /\ Linked(live.store, steps[cursor], os[cursor], os[cursor + 1])
    <3> HIDE DEF u, A
    <3>1. os \in [1 .. N + 1 -> SUBSET OweNames] /\ os[cursor + 1] = Owing(live)
      BY <1>2 DEF Debted
    <3>2. FinersSay(live.store, steps[cursor].finer, Later(live.store))
      BY <1>2, <1>5 DEF Debted
    <3>3. Linked(live.store, steps[cursor], os[cursor], os[cursor + 1])
      BY <1>1, <1>2, <1>5 DEF Debted
    <3>4. cursor \in 1 .. N + 1 /\ cursor + 1 \in 1 .. N + 1
      BY <1>2, <1>5
    <3> QED BY Zenon, <1>5, <3>1, <3>2, <3>3, <3>4
  <2>2. SoundStep(steps[cursor], used.toks) /\ Sound(live.store)
    BY <1>5, <1>6 DEF Coherent
  <2>3. u = Undone(live, steps[cursor])
    OBVIOUS
  <2> HIDE DEF u
  <2> QED BY Zenon, <1>4, <1>5, <1>7, <2>1, <2>2, <2>3, ReplayLinks
<1>9. u.live = live' /\ steps' = [steps EXCEPT ![cursor] = u.step]
  BY <1>1
<1> HIDE DEF u
<1>10. Debted(os, live', steps', cursor', floor, N)
  <2>1. a = os[cursor] /\ b = os[cursor + 1] /\ o = os[cursor' + 1]
    OBVIOUS
  <2>2. PICK tts : tts = [steps EXCEPT ![cursor] = u.step]
    OBVIOUS
  <2> HIDE DEF a, b, o
  <2>3. Debted(os, u.live, tts, cursor', floor, Len(steps))
    BY <1>1, <1>2, <1>4, <1>5, <1>8, <2>1, <2>2, ReplayDebts
  <2> QED BY <1>9, <2>2, <2>3
<1>11. Len(steps') = N
  BY <1>2, <1>9
<1>12. Owing(live') = os[cursor] /\ Later(live'.store) = Later(live.store)
  BY <1>5, <1>8, <1>9 DEF Relinked
<1>13. Doc(live') = A[cursor] /\ Doc(live) = A[cursor + 1]
  <2>1. Doc(live') = DocAt(ds[cursor], os[cursor], Later(live.store))
    BY <1>3, <1>12, DocAfter
  <2>2. DOMAIN ds = 1 .. N + 1
    BY <1>6 DEF Chain
  <2>3. A[cursor] = DocAt(ds[cursor], os[cursor], Later(live.store))
    BY <1>5, <2>2 DEF Tale
  <2>4. Doc(live) = A[Top + 1] /\ Top = cursor
    BY <1>1, DocNow DEF Top
  <2> HIDE DEF A
  <2> QED BY <2>1, <2>3, <2>4
<1> HIDE DEF A
<1>14. PICK x : x = Doc(live)
  OBVIOUS
<1>15. Halves(A, floor, cursor', N, Front(past), <<x>> \o future) /\ past # <<>> /\ Last(past) = A[cursor]
  <2>1. floor \in Nat /\ cursor \in Nat /\ floor < cursor /\ cursor <= N /\ cursor' = cursor - 1
    BY <1>1, <1>2
  <2> QED BY <1>2, <1>13, <1>14, <2>1, HalvesBack
<1>16. past' = Front(past) /\ future' = <<x>> \o future
  BY <1>1, <1>14, <1>15
<1>17. Halves(Tale(ds, os, Later(live'.store)), floor', cursor', Len(steps'), past', future')
  BY <1>1, <1>11, <1>12, <1>15, <1>16 DEF A
<1>18. Debted(os, live', steps', cursor', floor', Len(steps'))
  BY <1>1, <1>10, <1>11
<1>19. Remembered(ds, os)'
  BY <1>3, <1>5, <1>17, <1>18, ClosedTells
<1>20. History!Undo
  <2>1. Doc(live)' = Last(past)
    BY <1>13, <1>15, DocNext
  <2>2. open' = open /\ ~open /\ past # <<>> /\ past' = Front(past) /\ future' = <<Doc(live)>> \o future
    BY <1>1, <1>2, <1>15, <1>16
  <2> QED BY <2>1, <2>2, HistoryEnds DEF History!Undo
<1> QED BY <1>19, <1>20 DEF Recounted

LEMMA RedoTells ==
  ASSUME Inv, Inv', NEW ds, NEW os, Remembered(ds, os), Redo, ~SeekAcross
  PROVE  Recounted' /\ History!Redo
<1> DEFINE i == cursor + 1
           u == Redone(live, steps[i])
           A == Tale(ds, os, Later(live.store))
           N == Len(steps)
<1>1. /\ ~open /\ cursor < N /\ live' = u.live /\ steps' = [steps EXCEPT ![i] = u.step]
      /\ cursor' = cursor + 1 /\ open' = open /\ floor' = floor
      /\ past' = Append(past, Doc(live)) /\ future' = Tail(future)
  BY DEF Redo
<1>2. /\ Debted(os, live, steps, cursor, floor, N) /\ Halves(A, floor, cursor, N, past, future)
      /\ steps \in Seq(Step(used.toks)) /\ N \in Nat /\ cursor \in 0 .. N /\ floor \in 0 .. cursor
      /\ open = FALSE /\ Valued(ds)
  BY <1>1, ClosedRecalls
<1>3. Valued(ds)' /\ Reads(live') = ds[cursor + 2]
  BY <1>2, RedoValues
<1>4. PICK nm : Named(nm) /\ live \in Lives(nm, used.toks) /\ live.store \in Store(nm, used.toks)
                /\ used.toks \in Nat
  BY StoredAs
<1>5. /\ i \in 1 .. N /\ steps[i] \in Step(used.toks) /\ i = cursor + 1 /\ i \in Nat /\ cursor' = i
      /\ i + 1 = cursor + 2 /\ i + 1 \in 1 .. N + 1 /\ i \in 1 .. N + 1 /\ open' = FALSE /\ i > cursor
      /\ floor < i
  BY <1>1, <1>2
<1>6. /\ Chain(ds, live, steps, cursor, TRUE) /\ Coherent(live)
      /\ \A k \in 1 .. N : SoundStep(steps[k], used.toks)
  BY <1>1, <1>2, ClosedHas
<1> HIDE DEF A
<1>7. u.live \in Lives(nm, used.toks)
  <2> PICK e : e = ds[i + 1]
    OBVIOUS
  <2>1. Reading(e) /\ Leads(live.store, steps[i], e, Reads(live))
    <3> HIDE DEF u, i
    <3>1. ds[cursor + 1] = Reads(live) /\ ds[i] = ds[cursor + 1]
      BY <1>5, <1>6 DEF Chain
    <3> QED BY <1>5, <1>6, <3>1 DEF Chain
  <2>2. SoundStep(steps[i], used.toks) /\ Sound(live.store)
    BY <1>5, <1>6 DEF Coherent
  <2>3. u \in {Undone(live, steps[i]), Redone(live, steps[i])}
    OBVIOUS
  <2> HIDE DEF u, i
  <2>4. Swapped(nm, used.toks, live, e, u.live, u.step)
    BY <1>4, <1>5, <2>1, <2>2, <2>3, ReplayReads
  <2> QED BY <2>4 DEF Swapped
<1> DEFINE a == os[i]
           b == os[i + 1]
<1>8. Relinked(live, u, a, b, b)
  <2>1. /\ a \in SUBSET OweNames /\ b \in SUBSET OweNames /\ Owing(live) = a
        /\ FinersSay(live.store, steps[i].finer, Later(live.store))
        /\ Linked(live.store, steps[i], a, b)
    <3> HIDE DEF u
    <3>1. os \in [1 .. N + 1 -> SUBSET OweNames] /\ os[i] = Owing(live)
      BY <1>2 DEF Debted
    <3> HIDE DEF i
    <3>2. FinersSay(live.store, steps[i].finer, Later(live.store))
      BY <1>2, <1>5 DEF Debted
    <3>3. Linked(live.store, steps[i], os[i], os[i + 1])
      BY <1>2, <1>5 DEF Debted
    <3> QED BY <1>5, <3>1, <3>2, <3>3
  <2>2. SoundStep(steps[i], used.toks) /\ Sound(live.store)
    BY <1>5, <1>6 DEF Coherent
  <2>3. u = Redone(live, steps[i])
    OBVIOUS
  <2> HIDE DEF u, i, a, b
  <2> QED BY <1>4, <1>5, <1>7, <2>1, <2>2, <2>3, ReplayLinks
<1>9. u.live = live' /\ steps' = [steps EXCEPT ![i] = u.step]
  BY <1>1
<1> HIDE DEF u
<1>10. Debted(os, live', steps', cursor', floor, N)
  <2>1. a = os[i] /\ b = os[i + 1]
    OBVIOUS
  <2>2. PICK tts : tts = [steps EXCEPT ![i] = u.step]
    OBVIOUS
  <2> HIDE DEF a, b, i
  <2>3. Debted(os, u.live, tts, i, floor, Len(steps))
    BY <1>1, <1>2, <1>4, <1>5, <1>8, <2>1, <2>2, ReplayDebts
  <2> QED BY <1>5, <1>9, <2>2, <2>3
<1>11. Len(steps') = N
  BY <1>2, <1>9
<1>12. Owing(live') = b /\ Later(live'.store) = Later(live.store)
  BY <1>8, <1>9 DEF Relinked
<1>13. Doc(live') = A[i + 1] /\ Doc(live) = A[i]
  <2>1. Doc(live') = DocAt(ds[i + 1], os[i + 1], Later(live.store))
    BY <1>3, <1>5, <1>12, DocAfter
  <2>2. DOMAIN ds = 1 .. N + 1
    BY <1>6 DEF Chain
  <2>3. A[i + 1] = DocAt(ds[i + 1], os[i + 1], Later(live.store))
    BY <1>5, <2>2 DEF Tale, A
  <2>4. Doc(live) = A[Top + 1] /\ Top = cursor
    BY <1>1, DocNow DEF Top, A
  <2> QED BY <1>5, <2>1, <2>3, <2>4
<1>14. PICK x : x = Doc(live)
  OBVIOUS
<1>15. Halves(A, floor, i, N, Append(past, x), Tail(future)) /\ future # <<>> /\ Head(future) = A[i + 1]
  <2>1. floor \in Nat /\ cursor \in Nat /\ floor <= cursor /\ cursor < N /\ x = A[cursor + 1]
    BY <1>1, <1>2, <1>13, <1>14
  <2>2. i = cursor + 1
    OBVIOUS
  <2> HIDE DEF i
  <2> QED BY <1>2, <2>1, <2>2, HalvesOn
<1>16. past' = Append(past, x) /\ future' = Tail(future)
  BY <1>1, <1>14
<1>17. Halves(Tale(ds, os, Later(live'.store)), floor', cursor', Len(steps'), past', future')
  <2> HIDE DEF i
  <2> QED BY <1>1, <1>5, <1>11, <1>12, <1>15, <1>16 DEF A
<1>18. Debted(os, live', steps', cursor', floor', Len(steps'))
  BY <1>1, <1>10, <1>11
<1>19. Remembered(ds, os)'
  BY <1>3, <1>5, <1>17, <1>18, ClosedTells
<1>20. History!Redo
  <2>1. Doc(live)' = Head(future)
    BY <1>13, <1>15, DocNext
  <2>2. open' = open /\ ~open /\ future # <<>> /\ past' = Append(past, Doc(live)) /\ future' = Tail(future)
    BY <1>1, <1>2, <1>15
  <2> QED BY <2>1, <2>2 DEF History!Redo
<1> QED BY <1>19, <1>20 DEF Recounted

-----------------------------------------------------------------------------
(* The oldest step, and a new one.                                         *)

LEMMA TailSuffix ==
  ASSUME NEW S, NEW q \in Seq(S), q # <<>>
  PROVE  Tail(q) \in History!Suffixes(q)
<1>1. Len(q) \in Nat \ {0}
  OBVIOUS
<1>2. CASE Len(q) = 1
  <2>1. Tail(q) = <<>>
    <3> PICK p : p = Tail(q)
      OBVIOUS
    <3>1. p \in Seq(S) /\ Len(p) = 0
      BY <1>1, <1>2
    <3> QED BY <3>1
  <2> QED BY <2>1 DEF History!Suffixes
<1>3. CASE Len(q) # 1
  <2>1. 2 \in 1 .. Len(q)
    <3> PICK n : n = Len(q)
      OBVIOUS
    <3>1. n \in Nat /\ n # 0 /\ n # 1
      BY <1>1, <1>3
    <3>2. 2 \in 1 .. n
      BY <3>1
    <3> QED BY <3>2
  <2>2. Tail(q) = SubSeq(q, 2, Len(q))
    <3>1. Tail(q) \in Seq(S) /\ SubSeq(q, 2, Len(q)) \in Seq(S)
      BY <1>1, <2>1
    <3>2. Len(Tail(q)) = Len(q) - 1 /\ Len(SubSeq(q, 2, Len(q))) = Len(q) - 1
      BY <1>1, <2>1
    <3>3. \A k \in 1 .. Len(q) - 1 : Tail(q)[k] = SubSeq(q, 2, Len(q))[k]
      BY <1>1, <2>1
    <3> QED BY <3>1, <3>2, <3>3
  <2> QED BY <2>1, <2>2 DEF History!Suffixes
<1> QED BY <1>2, <1>3

LEMMA DropOldestTells ==
  ASSUME Inv, Inv', NEW ds, NEW os, Remembered(ds, os), DropOldest, ~SeekAcross
  PROVE  Recounted' /\ (History!Forget \/ UNCHANGED History!vars)
<1> DEFINE N == Len(steps)
           F == Later(live.store)
           A == Tale(ds, os, F)
<1>1. /\ ~open /\ cursor >= 1 /\ steps' = Tail(steps) /\ cursor' = cursor - 1
      /\ floor' = (IF floor = 0 THEN 0 ELSE floor - 1)
      /\ past' = (IF floor = 0 THEN Tail(past) ELSE past)
      /\ live' = live /\ open' = open /\ future' = future
  BY DEF DropOldest
<1>2. /\ Debted(os, live, steps, cursor, floor, N) /\ Halves(A, floor, cursor, N, past, future)
      /\ steps \in Seq(Step(used.toks)) /\ N \in Nat /\ cursor \in 0 .. N /\ floor \in 0 .. cursor
      /\ open = FALSE /\ Valued(ds)
  BY <1>1, ClosedRecalls
<1>3. PICK es : es = [k \in 1 .. N |-> ds[k + 1]]
  OBVIOUS
<1>4. PICK us : us = [k \in 1 .. N |-> os[k + 1]]
  OBVIOUS
<1>5. Valued(es)'
  BY <1>2, <1>3, DropOldestValues
<1>6. DOMAIN ds = 1 .. N + 1
  BY <1>1, <1>2, ClosedHas DEF Chain
<1>7. PICK B : B = Tale(es, us, F)
  OBVIOUS
<1>8. /\ \A k \in 1 .. N : B[k] = A[k + 1]
      /\ N \in Nat \ {0} /\ Len(Tail(steps)) = N - 1 /\ \A k \in 1 .. N - 1 : Tail(steps)[k] = steps[k + 1]
  <2>1. ASSUME NEW k \in 1 .. N PROVE B[k] = A[k + 1]
    <3>1. k + 1 \in DOMAIN ds /\ DOMAIN es = 1 .. N
      BY <1>2, <1>3, <1>6
    <3>2. A[k + 1] = DocAt(ds[k + 1], os[k + 1], F)
      BY <3>1 DEF Tale
    <3>3. B[k] = DocAt(es[k], us[k], F)
      BY <1>7, <3>1 DEF Tale
    <3>4. es[k] = ds[k + 1] /\ us[k] = os[k + 1]
      BY <1>3, <1>4
    <3> QED BY <3>2, <3>3, <3>4
  <2>2. N \in Nat \ {0}
    BY <1>1, <1>2
  <2> QED BY <1>2, <2>1, <2>2
<1>9. PICK n : n = Len(steps')
  OBVIOUS
<1>10. n = N - 1 /\ n + 1 = N /\ n \in Nat /\ \A k \in 1 .. n : steps'[k] = steps[k + 1]
  BY <1>1, <1>8, <1>9
<1>11. Debted(us, live', steps', cursor', floor', Len(steps'))
  <2>1. /\ os \in [1 .. N + 1 -> SUBSET OweNames] /\ os[cursor + 1] = Owing(live)
        /\ \A k \in 1 .. N : FinersSay(live.store, steps[k].finer, F)
        /\ \A k \in 1 .. N : floor < k /\ k <= N => Linked(live.store, steps[k], os[k], os[k + 1])
    BY <1>2 DEF Debted
  <2> HIDE DEF N, F
  <2>2. us \in [1 .. n + 1 -> SUBSET OweNames]
    <3>1. \A k \in 1 .. N : os[k + 1] \in SUBSET OweNames
      BY <1>2, <2>1
    <3> QED BY <1>4, <1>10, <3>1
  <2>3. us[cursor' + 1] = Owing(live')
    <3>1. cursor' + 1 = cursor /\ cursor \in 1 .. N
      BY <1>1, <1>2
    <3> QED BY <1>1, <1>4, <2>1, <3>1
  <2>4. ASSUME NEW k \in 1 .. n
        PROVE  /\ FinersSay(live.store, steps'[k].finer, F)
               /\ floor' < k => Linked(live.store, steps'[k], us[k], us[k + 1])
    <3> PICK j : j = k + 1
      OBVIOUS
    <3>1. j \in 1 .. N /\ steps'[k] = steps[j] /\ us[k] = os[j] /\ us[k + 1] = os[j + 1] /\ j <= N
      BY <1>4, <1>10
    <3>2. floor' < k => floor < j
      BY <1>1, <1>2
    <3> QED BY <2>1, <3>1, <3>2
  <2> QED BY <1>1, <1>9, <2>2, <2>3, <2>4 DEF Debted, F
<1> HIDE DEF A
<1>12. PICK low, top : low = floor' /\ top = cursor'
  OBVIOUS
<1>13. /\ low \in Nat /\ top \in Nat /\ top = cursor - 1 /\ low <= top /\ top <= n
       /\ floor # 0 => low = floor - 1
       /\ floor = 0 => low = 0
  BY <1>1, <1>2, <1>10, <1>12
<1>14. future = Slice(B, top + 1, n - top)
  <2>1. future = Slice(A, cursor + 1, N - cursor)
    BY <1>2 DEF Halves
  <2>2. ASSUME NEW k \in 1 .. n - top PROVE A[cursor + 1 + k] = B[top + 1 + k]
    <3>1. top + 1 + k \in 1 .. N /\ top + 1 + k + 1 = cursor + 1 + k
      BY <1>2, <1>10, <1>13
    <3> QED BY <1>8, <3>1
  <2>3. n - top = N - cursor
    BY <1>2, <1>10, <1>13
  <2>4. PICK i, j, m : i = cursor + 1 /\ j = top + 1 /\ m = n - top
    OBVIOUS
  <2>5. Slice(A, i, m) = Slice(B, j, m)
    BY <2>2, <2>4, SliceSame
  <2> QED BY <2>1, <2>3, <2>4, <2>5
<1>15. past = Slice(A, floor, cursor - floor)
  BY <1>2 DEF Halves
<1>16. CASE floor # 0
  <2>1. ASSUME NEW k \in 1 .. top - low PROVE A[floor + k] = B[low + k]
    <3>1. low + k \in 1 .. N /\ low + k + 1 = floor + k
      BY <1>2, <1>10, <1>13, <1>16
    <3> QED BY <1>8, <3>1
  <2>2. top - low = cursor - floor
    BY <1>2, <1>13, <1>16
  <2>3. PICK m : m = top - low
    OBVIOUS
  <2>4. Slice(A, floor, m) = Slice(B, low, m)
    BY <2>1, <2>3, SliceSame
  <2>5. past' = Slice(B, low, top - low) /\ past' = past
    BY <1>1, <1>15, <1>16, <2>2, <2>3, <2>4
  <2>6. Halves(B, low, top, n, past', future')
    BY <1>1, <1>14, <2>5 DEF Halves
  <2>7. Halves(Tale(es, us, Later(live'.store)), floor', cursor', Len(steps'), past', future')
    BY <1>1, <1>7, <1>9, <1>12, <2>6
  <2>8. open' = FALSE
    BY <1>1, <1>2
  <2>9. Remembered(es, us)'
    BY <1>5, <1>11, <2>7, <2>8, ClosedTells
  <2>10. UNCHANGED History!vars
    <3>1. Doc(live)' = Doc(live)
      BY <1>1, DocNext
    <3> QED BY <1>1, <2>5, <3>1 DEF History!vars
  <2> QED BY <2>9, <2>10 DEF Recounted
<1>17. CASE floor = 0
  <2>1. cursor \in Nat \ {0} /\ top = cursor - 1 /\ floor \in Nat /\ past = Slice(A, floor, cursor)
    BY <1>1, <1>2, <1>13, <1>15, <1>17
  <2>2. PICK j : j = floor + 1
    OBVIOUS
  <2>3. Drops(A, floor, cursor, j, top)
    BY <2>1, <2>2, SliceTail
  <2>4. ASSUME NEW k \in 1 .. top PROVE A[j + k] = B[low + k]
    <3>1. low + k \in 1 .. N /\ low + k + 1 = j + k
      BY <1>2, <1>10, <1>13, <1>17, <2>2
    <3> QED BY <1>8, <3>1
  <2>5. Slice(A, j, top) = Slice(B, low, top)
    BY <2>4, SliceSame
  <2>6. past' = Slice(B, low, top - low) /\ past' = Tail(past) /\ past # <<>>
    <3>1. top - low = top
      BY <1>13, <1>17
    <3> QED BY <1>1, <1>17, <2>1, <2>3, <2>5, <3>1 DEF Drops
  <2>7. Halves(B, low, top, n, past', future')
    BY <1>1, <1>14, <2>6 DEF Halves
  <2>8. Halves(Tale(es, us, Later(live'.store)), floor', cursor', Len(steps'), past', future')
    BY <1>1, <1>7, <1>9, <1>12, <2>7
  <2>9. open' = FALSE
    BY <1>1, <1>2
  <2>10. Remembered(es, us)'
    BY <1>5, <1>11, <2>8, <2>9, ClosedTells
  <2>11. History!Forget
    <3>1. Doc(live)' = Doc(live)
      BY <1>1, DocNext
    <3>2. PICK S : SliceOf(A, floor, cursor, S, past)
      BY <2>1, SliceHas
    <3>3. past \in Seq(S)
      BY <3>2 DEF SliceOf
    <3>4. past' \in History!Suffixes(past)
      BY <2>6, <3>3, TailSuffix
    <3> QED BY <1>1, <3>1, <3>4 DEF History!Forget
  <2> QED BY <2>10, <2>11 DEF Recounted
<1> QED BY <1>16, <1>17

\* Nothing before the first document, and nothing after the last.
LEMMA SliceNone ==
  ASSUME NEW A, NEW i \in Nat
  PROVE  Slice(A, i, 0) = <<>>
<1>1. PICK p, n : p = Slice(A, i, n) /\ n = 0
  OBVIOUS
<1>2. n \in Nat
  BY <1>1
<1>3. PICK S : SliceOf(A, i, n, S, p)
  BY <1>1, <1>2, SliceHas
<1> QED BY <1>1, <1>3 DEF SliceOf

LEMMA BeginStrokeTells ==
  ASSUME Inv, Inv', NEW ds, NEW os, Remembered(ds, os), BeginStroke, ~SeekAcross
  PROVE  Recounted' /\ (History!Begin \/ History!BeginAnew)
<1> DEFINE N == Len(steps)
           F == Later(live.store)
           A == Tale(ds, os, F)
           kept == IF bound THEN SubSeq(steps, 1, cursor) ELSE <<>>
           step == Opened(live.store, live.owes)
<1>1. /\ ~open /\ steps' = Append(kept, step) /\ cursor' = Len(kept)
      /\ floor' = (IF bound THEN floor ELSE 0)
      /\ past' = Append(IF bound THEN past ELSE <<>>, Doc(live)) /\ future' = <<>>
      /\ live' = live /\ open' = TRUE /\ stroke' = NoStroke
  BY DEF BeginStroke
<1>2. /\ Debted(os, live, steps, cursor, floor, N) /\ Halves(A, floor, cursor, N, past, future)
      /\ steps \in Seq(Step(used.toks)) /\ N \in Nat /\ cursor \in 0 .. N /\ floor \in 0 .. cursor
      /\ open = FALSE /\ Valued(ds)
  BY <1>1, ClosedRecalls
<1>3. PICK m : m = IF bound THEN cursor ELSE 0
  OBVIOUS
<1>4. PICK es : es = [k \in 1 .. m + 2 |-> IF k <= m THEN ds[k] ELSE Reads(live)]
  OBVIOUS
<1>5. PICK us : us = [k \in 1 .. m + 2 |-> IF k <= m THEN os[k] ELSE Owing(live)]
  OBVIOUS
<1>6. Valued(es)'
  BY Zenon, <1>2, <1>3, <1>4, BeginStrokeValues
<1>7. /\ Doc(live) = A[cursor + 1] /\ Doc(live) \in [DocNames -> Contents]
      /\ DOMAIN ds = 1 .. N + 1 /\ Coherent(live)
  BY <1>1, DocNow DEF Top
<1>8. /\ kept \in Seq(Step(used.toks)) /\ Len(kept) = m /\ m \in Nat /\ m <= cursor
      /\ \A k \in 1 .. m : kept[k] = steps[k]
  <2>1. CASE bound
    <3>1. kept = SubSeq(steps, 1, cursor) /\ m = cursor
      BY <1>3, <2>1
    <3> HIDE DEF kept
    <3>2. kept \in Seq(Step(used.toks)) /\ Len(kept) = cursor /\ \A k \in 1 .. cursor : kept[k] = steps[k]
      BY <1>2, <3>1
    <3> QED BY <1>2, <3>1, <3>2
  <2>2. CASE ~bound
    <3>1. kept = <<>> /\ m = 0
      BY <1>3, <2>2
    <3> HIDE DEF kept
    <3> QED BY <1>2, <3>1
  <2> QED BY <2>1, <2>2
<1>9. /\ Len(steps') = m + 1 /\ steps'[m + 1] = step /\ \A k \in 1 .. m : steps'[k] = steps[k]
      /\ cursor' = m
  <2> HIDE DEF kept, step
  <2> QED BY <1>1, <1>8
<1> HIDE DEF kept
<1>10. PICK n : n = m + 1
  OBVIOUS
<1>11. n \in Nat /\ n = m + 1 /\ m + 2 = n + 1 /\ Len(steps') = n
  BY <1>8, <1>9, <1>10
<1>12. PICK low : low = floor'
  OBVIOUS
<1>13. low \in Nat /\ low <= m /\ (bound => low = floor /\ m = cursor) /\ (~bound => low = 0 /\ m = 0)
  BY <1>1, <1>2, <1>3, <1>12
<1>14. /\ os \in [1 .. N + 1 -> SUBSET OweNames] /\ os[cursor + 1] = Owing(live)
       /\ \A k \in 1 .. N : FinersSay(live.store, steps[k].finer, F)
       /\ \A k \in 1 .. N : floor < k /\ k <= N => Linked(live.store, steps[k], os[k], os[k + 1])
  BY <1>2 DEF Debted
<1>15. Owing(live) \in SUBSET OweNames
  <2>1. cursor + 1 \in 1 .. N + 1
    BY <1>2
  <2> QED BY <1>14, <2>1
<1>16. step.pre = live.owes /\ step.preAttr = DebtsAt(live.store) /\ step.finer = {}
  BY DEF Opened
<1> HIDE DEF step, A, F
<1>17. Debted(us, live', steps', n, floor', cursor')
  <2>1. us \in [1 .. n + 1 -> SUBSET OweNames]
    <3>1. ASSUME NEW k \in 1 .. m PROVE os[k] \in SUBSET OweNames
      <4>1. k \in 1 .. N + 1
        BY <1>2, <1>8
      <4> QED BY <1>14, <4>1
    <3> QED BY <1>5, <1>8, <1>11, <1>15, <3>1
  <2>2. us[n + 1] = Owing(live')
    BY <1>1, <1>5, <1>8, <1>11
  <2>3. ASSUME NEW k \in 1 .. n PROVE FinersSay(live.store, steps'[k].finer, F)
    <3>1. CASE k = m + 1
      BY <1>9, <1>16, <3>1 DEF FinersSay
    <3>2. CASE k # m + 1
      <4>1. k \in 1 .. m /\ k \in 1 .. N
        BY <1>2, <1>8, <1>11, <3>2
      <4> QED BY <1>9, <1>14, <4>1
    <3> QED BY <3>1, <3>2
  <2>4. ASSUME NEW k \in 1 .. n, floor' < k, k <= cursor'
        PROVE  Linked(live.store, steps'[k], us[k], us[k + 1])
    <3>1. k \in 1 .. m /\ k \in 1 .. N /\ bound /\ floor < k /\ k <= N /\ m = cursor
      BY <1>2, <1>8, <1>9, <1>12, <1>13, <2>4
    <3>2. Linked(live.store, steps[k], os[k], os[k + 1])
      BY <1>14, <3>1
    <3>3. us[k] = os[k]
      BY <1>5, <1>8, <3>1
    <3>4. us[k + 1] = os[k + 1]
      <4>1. CASE k = m
        <5>1. k + 1 \in 1 .. m + 2 /\ ~(k + 1 <= m)
          BY <1>8, <4>1
        <5> QED BY <1>5, <1>14, <3>1, <4>1, <5>1
      <4>2. CASE k # m
        <5>1. k + 1 \in 1 .. m + 2 /\ k + 1 <= m
          BY <1>8, <3>1, <4>2
        <5> QED BY <1>5, <5>1
      <4> QED BY <4>1, <4>2
    <3> QED BY <1>9, <3>1, <3>2, <3>3, <3>4
  <2> QED BY <1>1, <1>11, <2>1, <2>2, <2>3, <2>4 DEF Debted, F
<1>18. Begun(us[n], live', steps'[n], stroke')
  <2>1. us[n] = Owing(live) /\ steps'[n] = step /\ stroke'.wrote = {}
    BY <1>1, <1>5, <1>8, <1>9, <1>10 DEF NoStroke
  <2> QED BY <1>1, <1>16, <2>1 DEF Begun
<1>19. PICK B : B = Tale(es, us, F)
  OBVIOUS
<1>20. B[m + 1] = Doc(live) /\ \A k \in 1 .. m : B[k] = A[k]
  <2>1. DOMAIN es = 1 .. m + 2
    BY <1>4
  <2>2. B[m + 1] = Doc(live)
    <3>1. m + 1 \in 1 .. m + 2 /\ ~(m + 1 <= m)
      BY <1>8
    <3>2. B[m + 1] = DocAt(es[m + 1], us[m + 1], F) /\ es[m + 1] = Reads(live) /\ us[m + 1] = Owing(live)
      BY <1>4, <1>5, <1>19, <2>1, <3>1 DEF Tale
    <3>3. PICK nm : Named(nm) /\ live \in Lives(nm, used.toks) /\ used.toks \in Nat
      BY StoredAs
    <3>4. Doc(live) = DocAt(Reads(live), Owing(live), F)
      BY <1>7, <3>3, DocHere DEF F
    <3> QED BY <3>2, <3>4
  <2>3. ASSUME NEW k \in 1 .. m PROVE B[k] = A[k]
    <3>1. k \in 1 .. m + 2 /\ k <= m /\ k \in 1 .. N + 1
      BY <1>2, <1>8
    <3>2. B[k] = DocAt(es[k], us[k], F)
      BY <1>19, <2>1, <3>1 DEF Tale
    <3>3. es[k] = ds[k] /\ us[k] = os[k]
      BY <1>4, <1>5, <3>1
    <3>4. A[k] = DocAt(ds[k], os[k], F)
      BY <1>7, <3>1 DEF Tale, A
    <3> QED BY <3>2, <3>3, <3>4
  <2> QED BY <2>2, <2>3
<1>21. PICK p, h : p = (IF bound THEN past ELSE <<>>) /\ h = m - low
  OBVIOUS
<1>22. p = Slice(B, low, h)
  <2>1. CASE bound
    <3>1. past = Slice(A, floor, cursor - floor)
      BY <1>2 DEF Halves
    <3>2. ASSUME NEW k \in 1 .. h PROVE A[low + k] = B[low + k]
      <4>1. low + k \in 1 .. m
        BY <1>8, <1>13, <1>21
      <4> QED BY <1>20, <4>1
    <3>3. Slice(A, low, h) = Slice(B, low, h)
      BY <3>2, SliceSame
    <3>4. past = Slice(A, low, h)
      BY <1>13, <1>21, <2>1, <3>1
    <3> QED BY <1>21, <2>1, <3>3, <3>4
  <2>2. CASE ~bound
    <3>1. h = 0 /\ p = <<>>
      BY <1>13, <1>21, <2>2
    <3> QED BY <1>13, <3>1, SliceNone
  <2> QED BY <2>1, <2>2
<1>23. Append(p, Doc(live)) = Slice(B, low, n - low)
  <2>1. PICK x, g : x = Doc(live) /\ g = n - low
    OBVIOUS
  <2>2. h \in Nat /\ g = h + 1 /\ low + h + 1 = m + 1
    BY <1>8, <1>10, <1>13, <1>21, <2>1
  <2>3. x = B[low + h + 1]
    BY <1>20, <2>1, <2>2
  <2>4. Appends(B, low, h, g, x)
    BY <1>13, <2>2, <2>3, SliceAppend
  <2> QED BY <1>22, <2>1, <2>4 DEF Appends
<1>24. future' = Slice(B, n + 1, n - n)
  <2>1. n + 1 \in Nat /\ n - n = 0
    BY <1>11
  <2> QED BY <1>1, <2>1, SliceNone
<1>25. past' = Append(p, Doc(live)) /\ Later(live'.store) = F
  BY <1>1, <1>21 DEF F
<1>26. Halves(Tale(es, us, Later(live'.store)), floor', Len(steps'), Len(steps'), past', future')
  BY <1>11, <1>12, <1>19, <1>23, <1>24, <1>25 DEF Halves
<1>27. Remembered(es, us)'
  <2>1. Debted(us, live', steps', Len(steps'), floor', cursor') /\ open' = TRUE
        /\ Begun(us[Len(steps')], live', steps'[Len(steps')], stroke')
    BY <1>1, <1>11, <1>17, <1>18
  <2> QED BY <1>6, <1>26, <2>1, OpenTells
<1>28. Doc(live)' = Doc(live)
  BY <1>1, DocNext
<1>29. CASE bound
  <2>1. History!Begin
    BY <1>1, <1>28, <1>29 DEF History!Begin
  <2> QED BY <1>27, <2>1 DEF Recounted
<1>30. CASE ~bound
  <2>1. past' = <<Doc(live)>>
    BY <1>1, <1>30
  <2>2. History!BeginAnew
    BY <1>1, <1>28, <2>1 DEF History!BeginAnew
  <2> QED BY <1>27, <2>2 DEF Recounted
<1> QED BY <1>29, <1>30

\* A channel just made owes nothing.
LEMMA MadeOwes ==
  ASSUME NEW nm, Named(nm), NEW n \in Nat, NEW s \in Store(nm, n), NEW nu, Named(nu), NEW m \in Nat,
         NEW u \in Store(nu, m), NEW tok, Made(nm, s, nu, u, tok)
  PROVE  \A x : \A l \in Levels : Owes(u, x, l) <=> Owes(s, x, l)
<1> TAKE x
<1> TAKE l \in Levels
<1>1. CASE FindChannel(s, x) # 0
  <2>1. PICK c \in DOMAIN nm : nm[c] = x /\ FindChannel(s, x) = c
    BY <1>1, FindIs
  <2>2. c \in DOMAIN nu /\ nu[c] = x /\ u[c] = s[c]
    BY <2>1 DEF Made
  <2>3. Owes(s, nm[c], l) <=> s[c].levels[l].owes
    BY <2>1, OwesAt
  <2>4. Owes(u, nu[c], l) <=> u[c].levels[l].owes
    BY <2>2, OwesAt
  <2> QED BY <2>1, <2>2, <2>3, <2>4
<1>2. CASE FindChannel(s, x) = 0
  <2>1. ~Owes(s, x, l)
    BY <1>2 DEF Owes
  <2>2. \A c \in DOMAIN nm : nm[c] # x
    BY <1>2, FindIs
  <2>3. CASE FindChannel(u, x) # 0
    <3>1. PICK i \in DOMAIN nu : nu[i] = x /\ FindChannel(u, x) = i
      BY <2>3, FindIs
    <3>2. i \notin DOMAIN nm
      BY <2>2, <3>1 DEF Made
    <3>3. Newborn(u[i], nu[i], tok)
      BY <3>2 DEF Made
    <3>4. Owes(u, nu[i], l) <=> u[i].levels[l].owes
      BY <3>1, OwesAt
    <3>5. u[i].levels[l].owes = FALSE
      BY <3>3 DEF Newborn
    <3> QED BY <2>1, <3>1, <3>4, <3>5
  <2>4. CASE FindChannel(u, x) = 0
    BY <2>1, <2>4 DEF Owes
  <2> QED BY <2>3, <2>4
<1> QED BY <1>1, <1>2

LEMMA OwesSameAll ==
  ASSUME NEW lv, NEW lw, lw.owes = lv.owes,
         \A x : \A l \in Levels : Owes(lw.store, x, l) <=> Owes(lv.store, x, l)
  PROVE  Owing(lw) = Owing(lv) /\ Later(lw.store) = Later(lv.store)
<1>1. L \in Levels /\ \A l \in L + 1 .. Depth : l \in Levels
  BY LogAssumption DEF Levels
<1>2. Owing(lw) = Owing(lv)
  BY <1>1 DEF Owing
<1>3. Later(lw.store) = Later(lv.store)
  BY <1>1 DEF Later
<1> QED BY <1>2, <1>3

LEMMA CaptureLeafDebts ==
  ASSUME NEW n, NEW step \in Step(n), NEW s, NEW pos, NEW mask, NEW g, NEW fields,
         NEW t, t = CaptureLeaf(step, s, pos, mask, g, fields)
  PROVE  t.pre = step.pre /\ t.preAttr = step.preAttr /\ t.finer = step.finer
BY DEF CaptureLeaf, Step

\* Debts known of a history are as they were, over a store with channels added.
LEMMA DabDebts ==
  ASSUME NEW os, NEW lv, NEW sts, NEW N, N = Len(sts), N \in Nat \ {0}, NEW from, NEW to, to < N, to \in Nat,
         Debted(os, lv, sts, N, from, to),
         NEW n \in Nat, NEW lw, More(lv.store, lw.store, n), \A k \in 1 .. N : SoundStep(sts[k], n),
         Owing(lw) = Owing(lv), Later(lw.store) = Later(lv.store),
         NEW tts, Len(tts) = N, \A k \in 1 .. N : k # N => tts[k] = sts[k],
         tts[N].finer = sts[N].finer
  PROVE  Debted(os, lw, tts, N, from, to)
<1>1. \A k \in 1 .. N : Fates(lv.store, lw.store, sts[k], {})
  BY MoreFates
<1>2. os \in [1 .. N + 1 -> SUBSET OweNames] /\ \A k \in 1 .. N + 1 : os[k] = os[k] \ {}
  BY DEF Debted
<1>3. Owing(lw) = Owing(lv) \ {} /\ "co" \notin {}
      /\ \A l : <<"mask", l>> \in Later(lw.store) <=> <<"mask", l>> \in Later(lv.store)
  OBVIOUS
<1>4. Debted(os, lw, sts, N, from, to)
  <2>1. PICK X : X = {}
    OBVIOUS
  <2>2. /\ \A k \in 1 .. Len(sts) : Fates(lv.store, lw.store, sts[k], X)
        /\ os \in [1 .. Len(sts) + 1 -> SUBSET OweNames] /\ \A k \in 1 .. Len(sts) + 1 : os[k] = os[k] \ X
        /\ Owing(lw) = Owing(lv) \ X /\ "co" \notin X
        /\ \A l : <<"mask", l>> \in Later(lw.store) <=> <<"mask", l>> \in Later(lv.store)
        /\ N \in Nat /\ N <= Len(sts) /\ Len(sts) \in Nat
    BY <1>1, <1>2, <1>3, <2>1
  <2> QED BY Zenon, <2>2, DebtedOver
<1>5. ASSUME NEW k \in 1 .. N PROVE FinersSay(lw.store, tts[k].finer, Later(lw.store))
  <2>1. FinersSay(lw.store, sts[k].finer, Later(lw.store))
    BY <1>4 DEF Debted
  <2>2. tts[k].finer = sts[k].finer
    <3>1. CASE k = N
      BY <3>1
    <3>2. CASE k # N
      BY <3>2
    <3> QED BY <3>1, <3>2
  <2> QED BY <2>1, <2>2
<1>6. ASSUME NEW k \in 1 .. N, from < k, k <= to PROVE Linked(lw.store, tts[k], os[k], os[k + 1])
  <2>1. k # N
    BY <1>6
  <2>2. Linked(lw.store, sts[k], os[k], os[k + 1])
    BY <1>4, <1>6 DEF Debted
  <2> QED BY <2>1, <2>2
<1> QED BY <1>4, <1>5, <1>6 DEF Debted

LEMMA DabTells ==
  ASSUME Inv, Inv', NEW ds, NEW os, Remembered(ds, os), Dab, ~SeekAcross
  PROVE  Recounted' /\ History!Edit
<1> DEFINE N == Len(steps)
           F == Later(live.store)
           A == Tale(ds, os, F)
<1>1. /\ open /\ open' = open /\ UNCHANGED <<cursor, floor, past, future>>
      /\ \E fields \in Kernels, v \in Verts : \E s : Dabbed(fields, v, s)
  BY Zenon, DabHas DEF Dab
<1>2. /\ Debted(os, live, steps, N, floor, cursor) /\ Begun(os[N], live, steps[N], stroke)
      /\ Halves(A, floor, N, N, past, future)
      /\ steps \in Seq(Step(used.toks)) /\ N \in Nat \ {0} /\ cursor = N - 1
      /\ floor \in 0 .. cursor /\ open = TRUE /\ Valued(ds)
  BY <1>1, OpenRecalls
<1>3. PICK es : es = [k \in 1 .. N + 1 |-> IF k = N + 1 THEN Reads(live') ELSE ds[k]]
  OBVIOUS
<1>4. Valued(es)'
  BY <1>2, <1>3, DabValues
<1>5. PICK fields \in Kernels, v \in Verts : \E s : Dabbed(fields, v, s)
  BY <1>1
<1>6. PICK s : Dabbed(fields, v, s)
  BY <1>5
<1>7. live'.owes = live.owes
  <2>1. PICK nm : Named(nm) /\ live \in Lives(nm, used.toks)
    BY StoredAs
  <2> QED BY <2>1 DEF Dab, Lives
<1>8. PICK nm : Named(nm) /\ live \in Lives(nm, used.toks) /\ live.store \in Store(nm, used.toks) /\ used.toks \in Nat
  BY StoredAs
<1>9. /\ Chain(ds, live, steps, N, FALSE) /\ Coherent(live)
      /\ \A k \in 1 .. N : SoundStep(steps[k], used.toks)
      /\ Sound(live.store)
  BY <1>1, <1>2, OpenHas DEF Coherent
<1> DEFINE ns == fields \cap (DOMAIN Layers \cup {"mask"})
           n2 == used.toks + (Len(s) - Len(live.store)) * (Depth + 1)
           cap == CaptureLeaf(steps[N], s, live.pos, live.mask[L], Owner[v], fields)
<1>10. /\ s = Ensured(live.store, ns, used.toks) /\ live'.store = s
       /\ steps' = [steps EXCEPT ![N] = cap]
       /\ stroke'.touched = stroke.touched \cup {v} /\ stroke'.wrote = stroke.wrote \cup fields
  BY <1>6 DEF Dabbed
<1>11. \E nu : /\ Named(nu) /\ s \in Store(nu, n2) /\ n2 \in Nat /\ Made(nm, live.store, nu, s, used.toks)
               /\ \A n \in ns : \E c \in DOMAIN nu : nu[c] = n
  <2> DEFINE t == used.toks
             st == live.store
  <2>1. t \in Nat /\ Named(nm) /\ st \in Store(nm, t) /\ ns \in SUBSET ({"mask"} \cup DOMAIN Layers) /\ Sound(st)
    BY <1>8, <1>9
  <2>2. s = Ensured(st, ns, t) /\ n2 = t + (Len(s) - Len(st)) * (Depth + 1)
    BY <1>10
  <2> HIDE DEF t, st, n2, ns
  <2>3. /\ n2 \in Nat /\ t <= n2
        /\ \E nu : /\ Named(nu) /\ s \in Store(nu, n2) /\ Made(nm, st, nu, s, t)
                   /\ \A n \in ns : \E c \in DOMAIN nu : nu[c] = n
    BY <2>1, <2>2, EnsuredMade
  <2> QED BY <2>3 DEF t, st
<1> HIDE DEF n2, cap, N, A, F
<1>12. PICK nu : /\ Named(nu) /\ s \in Store(nu, n2) /\ n2 \in Nat /\ Made(nm, live.store, nu, s, used.toks)
                 /\ \A n \in ns : \E c \in DOMAIN nu : nu[c] = n
  BY <1>11
<1>13. More(live.store, live'.store, used.toks)
       /\ \A x : \A l \in Levels : Owes(live'.store, x, l) <=> Owes(live.store, x, l)
  <2> DEFINE st == live.store
             t == used.toks
  <2>1. /\ Named(nm) /\ t \in Nat /\ st \in Store(nm, t)
        /\ Named(nu) /\ n2 \in Nat /\ s \in Store(nu, n2) /\ Made(nm, st, nu, s, t)
    BY <1>8, <1>12
  <2> HIDE DEF st, t
  <2>2. More(st, s, t)
    BY <2>1, MadeFinds
  <2>3. \A x : \A l \in Levels : Owes(s, x, l) <=> Owes(st, x, l)
    BY <2>1, MadeOwes
  <2> QED BY <1>10, <2>2, <2>3 DEF st, t
<1>14. Owing(live') = Owing(live) /\ Later(live'.store) = Later(live.store)
  BY <1>7, <1>13, OwesSameAll
<1>15. /\ Len(steps') = N /\ steps'[N] = cap /\ \A k \in 1 .. N : k # N => steps'[k] = steps[k]
       /\ steps[N] \in Step(used.toks)
  BY <1>2, <1>10 DEF N
<1>16. cap.pre = steps[N].pre /\ cap.preAttr = steps[N].preAttr /\ cap.finer = steps[N].finer
  BY <1>15, CaptureLeafDebts DEF cap
<1>17. Debted(os, live', steps', N, floor, cursor)
  <2>1. cursor < N /\ cursor \in Nat /\ N = Len(steps)
    BY <1>2 DEF N
  <2>2. steps'[N].finer = steps[N].finer
    BY <1>15, <1>16
  <2> QED BY <1>2, <1>8, <1>9, <1>13, <1>14, <1>15, <2>1, <2>2, DabDebts
<1>18. Begun(os[N], live', steps'[N], stroke')
  <2>1. /\ os[N] = Owing(live) /\ steps[N].pre = live.owes /\ steps[N].preAttr \subseteq DebtsAt(live.store)
        /\ \A x \in stroke.wrote \cap DOMAIN Layers : FindChannel(live.store, x) # 0
    BY <1>2 DEF Begun
  <2>2. DebtsAt(live.store) \subseteq DebtsAt(s)
    <3>1. DOMAIN live.store = DOMAIN nm /\ DOMAIN s = DOMAIN nu
      BY <1>8, <1>12 DEF Store
    <3>2. \A c \in DOMAIN nm : c \in DOMAIN nu /\ s[c] = live.store[c]
      BY <1>12 DEF Made
    <3> QED BY <3>1, <3>2 DEF DebtsAt, Identity
  <2>3. ASSUME NEW x \in stroke'.wrote \cap DOMAIN Layers PROVE FindChannel(s, x) # 0
    <3>1. CASE x \in stroke.wrote
      <4>1. FindChannel(live.store, x) # 0
        BY <2>1, <2>3, <3>1
      <4> QED BY <1>10, <1>13, <4>1 DEF More
    <3>2. CASE x \in fields
      <4>1. PICK c \in DOMAIN nu : nu[c] = x
        BY <1>12, <2>3, <3>2
      <4> QED BY <1>12, <4>1, FindIs
    <3> QED BY <1>10, <2>3, <3>1, <3>2
  <2>4. stroke'.touched # {}
    BY <1>10
  <2>5. os[N] = Owing(live') /\ steps'[N].pre = live'.owes /\ steps'[N].preAttr \subseteq DebtsAt(live'.store)
    BY <1>7, <1>10, <1>14, <1>15, <1>16, <2>1, <2>2
  <2>6. \A x \in stroke'.wrote \cap DOMAIN Layers : FindChannel(live'.store, x) # 0
    BY <1>10, <2>3
  <2> QED BY <2>4, <2>5, <2>6 DEF Begun
<1>19. PICK B : B = Tale(es, os, F)
  OBVIOUS
<1>20. \A k \in 1 .. N : B[k] = A[k]
  <2> TAKE k \in 1 .. N
  <2>1. DOMAIN es = 1 .. N + 1 /\ k \in 1 .. N + 1 /\ k # N + 1 /\ DOMAIN ds = 1 .. N + 1
    BY <1>2, <1>3, <1>9 DEF Chain, N
  <2>2. es[k] = ds[k]
    BY <1>3, <2>1
  <2>3. B[k] = DocAt(es[k], os[k], F)
    BY <1>19, <2>1 DEF Tale
  <2>4. A[k] = DocAt(ds[k], os[k], F)
    BY <2>1 DEF Tale, A
  <2> QED BY <2>2, <2>3, <2>4
<1>21. Halves(B, floor, N, N, past, future)
  <2>1. past = Slice(A, floor, N - floor) /\ future = Slice(A, N + 1, N - N)
    BY <1>2 DEF Halves
  <2>2. PICK h : h = N - floor
    OBVIOUS
  <2>3. ASSUME NEW k \in 1 .. h PROVE A[floor + k] = B[floor + k]
    <3>1. floor + k \in 1 .. N
      BY <1>2, <2>2
    <3> QED BY <1>20, <3>1
  <2>4. Slice(A, floor, h) = Slice(B, floor, h)
    BY <2>3, SliceSame
  <2>5. N - N = 0 /\ N + 1 \in Nat
    BY <1>2
  <2>6. Slice(A, N + 1, 0) = Slice(B, N + 1, 0)
    BY <2>5, SliceNone
  <2> QED BY <2>1, <2>2, <2>4, <2>5, <2>6 DEF Halves
<1>22. Remembered(es, os)'
  <2>1. Debted(os, live', steps', Len(steps'), floor', cursor') /\ open' = TRUE
        /\ Begun(os[Len(steps')], live', steps'[Len(steps')], stroke')
    BY <1>1, <1>2, <1>15, <1>17, <1>18
  <2>2. Halves(Tale(es, os, Later(live'.store)), floor', Len(steps'), Len(steps'), past', future')
    BY <1>1, <1>14, <1>15, <1>19, <1>21 DEF F
  <2> QED BY <1>4, <2>1, <2>2, OpenTells
<1>23. History!Edit
  <2>1. Doc(live)' \in [DocNames -> Contents]
    BY <1>4, DocAfter, DocNext
  <2> QED BY <1>1, <2>1 DEF History!Edit
<1> QED BY <1>22, <1>23 DEF Recounted

-----------------------------------------------------------------------------
(* A channel removed is wiped out of the history.                          *)

LEMMA FewerOwes ==
  ASSUME NEW s, NEW u, NEW name, Fewer(s, u, name)
  PROVE  \A x : \A l \in Levels : Owes(u, x, l) <=> (x # name /\ Owes(s, x, l))
<1> TAKE x
<1> TAKE l \in Levels
<1>1. CASE x = name
  <2>1. FindChannel(u, x) = 0
    BY <1>1 DEF Fewer
  <2> QED BY <1>1, <2>1 DEF Owes
<1>2. CASE x # name
  <2>1. /\ FindChannel(u, x) = 0 <=> FindChannel(s, x) = 0
        /\ FindChannel(s, x) # 0 => u[FindChannel(u, x)] = s[FindChannel(s, x)]
    BY <1>2 DEF Fewer
  <2>2. CASE FindChannel(s, x) = 0
    BY <1>2, <2>1, <2>2 DEF Owes
  <2>3. CASE FindChannel(s, x) # 0
    BY <1>2, <2>1, <2>3 DEF Owes
  <2> QED BY <2>2, <2>3
<1> QED BY <1>1, <1>2

\* Debts g are f without those of a channel.
Quit(f, g, name) == \A x, l : <<x, l>> \in g <=> (x # name /\ <<x, l>> \in f)

LEMMA FewerOwing ==
  ASSUME NEW lv, NEW lw, lw.owes = lv.owes, NEW name \in DOMAIN Layers, Fewer(lv.store, lw.store, name)
  PROVE  Owing(lw) = Owing(lv) \ {name} /\ Quit(Later(lv.store), Later(lw.store), name)
<1>1. \A x : \A l \in Levels : Owes(lw.store, x, l) <=> (x # name /\ Owes(lv.store, x, l))
  BY FewerOwes
<1>2. name # "co"
  BY LogAssumption
<1>3. L \in Levels /\ \A l \in L + 1 .. Depth : l \in Levels
  BY LogAssumption DEF Levels
<1>4. ASSUME NEW x PROVE x \in Owing(lw) <=> x \in Owing(lv) /\ x # name
  <2>1. CASE x = "co"
    BY <1>2, <2>1 DEF Owing
  <2>2. CASE x # "co"
    BY <1>1, <1>3, <2>2 DEF Owing
  <2> QED BY <2>1, <2>2
<1>5. Owing(lw) = Owing(lv) \ {name}
  BY <1>4
<1>6. ASSUME NEW x, NEW l
      PROVE  <<x, l>> \in Later(lw.store) <=> (x # name /\ <<x, l>> \in Later(lv.store))
  <2>1. CASE x \in Names /\ l \in L + 1 .. Depth
    <3>1. Owes(lw.store, x, l) <=> (x # name /\ Owes(lv.store, x, l))
      BY <1>1, <1>3, <2>1
    <3>2. \A s : <<x, l>> \in Later(s) <=> Owes(s, x, l)
      BY <2>1 DEF Later
    <3> QED BY <3>1, <3>2
  <2>2. CASE ~(x \in Names /\ l \in L + 1 .. Depth)
    BY <2>2 DEF Later
  <2> QED BY <2>1, <2>2
<1> QED BY <1>5, <1>6 DEF Quit

LEMMA BlankLayer ==
  ASSUME NEW name \in DOMAIN Layers
  PROVE  BlankDoc[name] = <<Seed(name, L), [l \in L .. Depth |-> FALSE]>>
<1> DEFINE s == <<NewChannel("disp", "float", "delta", TRUE, Depth, 1)>>
           lv == [store |-> s, pos |-> [v \in Verts |-> Zero(L)], owes |-> FALSE,
                  mask |-> [l \in Levels |-> [v \in Verts |-> Zero(l)]]]
<1>1. name # "co" /\ name # "mask" /\ name # "disp" /\ name \in DocNames
  BY LogAssumption DEF DocNames
<1>2. FindChannel(s, name) = 0
  <2>1. \A c \in DOMAIN s : s[c].name = "disp"
    BY DEF NewChannel
  <2> HIDE DEF s
  <2> QED BY <1>1, <2>1 DEF FindChannel
<1>3. BlankDoc = Doc(lv)
  BY DEF BlankDoc
<1>4. lv.store = s
  OBVIOUS
<1> HIDE DEF lv, s
<1>5. BlankDoc[name] = Content(lv, name)
  BY <1>1, <1>3 DEF Doc
<1>6. Content(lv, name) = <<ValueAt(lv.store, name, L), [l \in L .. Depth |-> Owes(lv.store, name, l)]>>
  BY <1>1, ContentIs
<1>7. ValueAt(s, name, L) = Seed(name, L) /\ \A l : ~Owes(s, name, l)
  BY <1>2 DEF ValueAt, Owes
<1>8. [l \in L .. Depth |-> Owes(s, name, l)] = [l \in L .. Depth |-> FALSE]
  <2>1. \A l : Owes(s, name, l) \in BOOLEAN
    BY <1>2 DEF Owes
  <2>2. \A l \in L .. Depth : Owes(s, name, l) = FALSE
    BY <1>7, <2>1
  <2> QED BY <2>2
<1> QED BY <1>4, <1>5, <1>6, <1>7, <1>8

LEMMA WithoutDoc ==
  ASSUME NEW name \in DOMAIN Layers, NEW d, NEW o, NEW f, NEW g, Quit(f, g, name)
  PROVE  DocAt(Without(d, name), o \ {name}, g) = History!Without(DocAt(d, o, f), name)
<1> DEFINE e == Without(d, name)
           u == o \ {name}
           D == DocAt(d, o, f)
           E == DocAt(e, u, g)
<1>1. name # "co" /\ name # "mask" /\ name # "disp" /\ name \in DocNames
  BY LogAssumption DEF DocNames
<1>2. /\ \A p \in Spots : p # <<name, L>> => e[p] = d[p]
      /\ <<name, L>> \in Spots => e[<<name, L>>] = Seed(name, L)
  BY DEF Without
<1>3. /\ Pos \in Spots /\ Dense \in Spots /\ \A x \in Names : <<x, L>> \in Spots
      /\ \A l \in L .. Depth : <<"mask", l>> \in Spots
  BY SpotsAre
<1>4. \A x : x # name => DebtsOf(u, g, x) = DebtsOf(o, f, x)
  <2> TAKE x
  <2>0. SUFFICES ASSUME x # name PROVE DebtsOf(u, g, x) = DebtsOf(o, f, x)
    OBVIOUS
  <2>1. (x \in u) = (x \in o)
    BY <2>0
  <2>2. \A l : (<<x, l>> \in g) = (<<x, l>> \in f)
    BY <2>0 DEF Quit
  <2> QED BY <2>1, <2>2 DEF DebtsOf
<1>5. DebtsOf(u, g, name) = [l \in L .. Depth |-> FALSE]
  <2>1. (name \in u) = FALSE
    OBVIOUS
  <2>2. \A l : (<<name, l>> \in g) = FALSE
    BY DEF Quit
  <2> HIDE DEF u
  <2> QED BY <2>1, <2>2 DEF DebtsOf
<1>6. DOMAIN D = DocNames /\ DOMAIN E = DocNames /\ E = [x \in DocNames |-> E[x]]
  BY DEF DocAt
<1>7. E[name] = BlankDoc[name]
  <2>1. E[name] = <<e[<<name, L>>], DebtsOf(u, g, name)>>
    BY <1>1 DEF DocAt
  <2>2. <<name, L>> \in Spots
    BY <1>3 DEF Names
  <2> QED BY <1>2, <1>5, <2>1, <2>2, BlankLayer
<1>8. ASSUME NEW x \in DocNames, x # name PROVE E[x] = D[x]
  <2> HIDE DEF e, u
  <2>1. CASE x = "co"
    <3>1. e[Pos] = d[Pos] /\ e[<<"disp", L>>] = d[<<"disp", L>>]
      <4>1. Pos # <<name, L>> /\ <<"disp", L>> # <<name, L>> /\ <<"disp", L>> \in Spots
        BY <1>1, <1>3 DEF Pos, Names
      <4> QED BY <1>2, <1>3, <4>1
    <3>2. ("co" \in u) = ("co" \in o)
      BY <1>1 DEF u
    <3> QED BY <2>1, <3>1, <3>2 DEF DocAt
  <2>2. CASE x = "mask"
    <3>1. e[Dense] = d[Dense] /\ \A l \in L + 1 .. Depth : e[<<"mask", l>>] = d[<<"mask", l>>]
      <4>1. Dense # <<name, L>> /\ \A l : <<"mask", l>> # <<name, L>>
        BY <1>1 DEF Dense
      <4>2. \A l \in L + 1 .. Depth : l \in L .. Depth
        BY LogAssumption
      <4> QED BY <1>2, <1>3, <4>1, <4>2
    <3>2. DebtsOf(u, g, x) = DebtsOf(o, f, x)
      BY <1>4, <1>8
    <3>3. [l \in L + 1 .. Depth |-> e[<<"mask", l>>]] = [l \in L + 1 .. Depth |-> d[<<"mask", l>>]]
      BY <3>1
    <3>4. E["mask"] = <<e[Dense], DebtsOf(u, g, "mask"), [l \in L + 1 .. Depth |-> e[<<"mask", l>>]]>>
      BY <2>2 DEF DocAt
    <3>5. D["mask"] = <<d[Dense], DebtsOf(o, f, "mask"), [l \in L + 1 .. Depth |-> d[<<"mask", l>>]]>>
      BY <2>2 DEF DocAt
    <3> HIDE DEF D, E
    <3> QED BY <2>2, <3>1, <3>2, <3>3, <3>4, <3>5
  <2>3. CASE x # "co" /\ x # "mask"
    <3>1. <<x, L>> \in Spots /\ <<x, L>> # <<name, L>>
      BY <1>3, <1>8, <2>3 DEF DocNames, Names
    <3>2. e[<<x, L>>] = d[<<x, L>>] /\ DebtsOf(u, g, x) = DebtsOf(o, f, x)
      BY <1>2, <1>4, <1>8, <3>1
    <3> QED BY <2>3, <3>2 DEF DocAt
  <2> QED BY <2>1, <2>2, <2>3
<1>9. History!Without(D, name) = [D EXCEPT ![name] = BlankDoc[name]]
  BY DEF History!Without
<1> HIDE DEF D, E
<1>10. E = [D EXCEPT ![name] = BlankDoc[name]]
  BY <1>1, <1>6, <1>7, <1>8
<1> QED BY <1>9, <1>10 DEF D, E

LEMMA SliceWithout ==
  ASSUME NEW A, NEW B, NEW i, NEW n, NEW name,
         \A k \in 1 .. n : B[i + k] = History!Without(A[i + k], name)
  PROVE  History!AllWithout(Slice(A, i, n), name) = Slice(B, i, n)
<1>1. PICK q : q = Slice(A, i, n)
  OBVIOUS
<1>2. DOMAIN q = 1 .. n /\ \A k \in 1 .. n : q[k] = A[i + k]
  BY <1>1 DEF Slice
<1>3. History!AllWithout(q, name) = [k \in DOMAIN q |-> History!Without(q[k], name)]
  BY DEF History!AllWithout
<1>4. [k \in DOMAIN q |-> History!Without(q[k], name)] = Slice(B, i, n)
  BY <1>2 DEF Slice
<1> QED BY <1>1, <1>3, <1>4

LEMMA RemoveLayerTells ==
  ASSUME Inv, Inv', NEW ds, NEW os, Remembered(ds, os), RemoveLayer, ~SeekAcross
  PROVE  Recounted' /\ History!Erase
<1> DEFINE N == Len(steps)
           F == Later(live.store)
           G == Later(live'.store)
           A == Tale(ds, os, F)
<1>1. /\ ~open /\ open' = open /\ steps' = steps /\ cursor' = cursor /\ floor' = floor
  BY DEF RemoveLayer, Called
<1>2. PICK name \in Removable :
        /\ Removes(name)
        /\ past' = History!AllWithout(past, name) /\ future' = History!AllWithout(future, name)
  BY DEF RemoveLayer, Removes
<1>3. name \in DOMAIN Layers /\ name # "co" /\ name # "mask" /\ name \in DocNames
  BY LogAssumption DEF DocNames
<1>4. /\ Debted(os, live, steps, cursor, floor, N) /\ Halves(A, floor, cursor, N, past, future)
      /\ N \in Nat /\ cursor \in 0 .. N /\ floor \in 0 .. cursor /\ open = FALSE /\ Valued(ds)
  BY <1>1, ClosedRecalls
<1>5. PICK es : es = [k \in 1 .. N + 1 |-> Without(ds[k], name)]
  OBVIOUS
<1>6. PICK us : us = [k \in 1 .. N + 1 |-> os[k] \ {name}]
  OBVIOUS
<1>7. Valued(es)' /\ Fewer(live.store, live'.store, name)
  BY <1>2, <1>4, <1>5, RemoveLayerValues
<1>8. live'.owes = live.owes
  <2>1. PICK nm : Named(nm) /\ live \in Lives(nm, used.toks)
    BY StoredAs
  <2> QED BY <1>2, <2>1 DEF Removes, Lives
<1>9. Owing(live') = Owing(live) \ {name} /\ Quit(F, G, name)
  BY <1>3, <1>7, <1>8, FewerOwing
<1>10. /\ os \in [1 .. N + 1 -> SUBSET OweNames] /\ DOMAIN ds = 1 .. N + 1
  <2>1. Chain(ds, live, steps, cursor, TRUE)
    BY <1>1, <1>4, ClosedHas
  <2> QED BY <1>4, <2>1 DEF Debted, Chain
<1>11. PICK X : X = {name}
  OBVIOUS
<1>12. Debted(us, live', steps', cursor', floor', Len(steps'))
  <2>1. us \in [1 .. Len(steps) + 1 -> SUBSET OweNames]
    BY <1>6, <1>10
  <2>2. \A k \in 1 .. Len(steps) + 1 : us[k] = os[k] \ X
    BY <1>6, <1>11
  <2>3. \A k \in 1 .. Len(steps) : Fates(live.store, live'.store, steps[k], X)
    BY <1>7, <1>11, FewerFates
  <2>4. \A l : <<"mask", l>> \in Later(live'.store) <=> <<"mask", l>> \in Later(live.store)
    BY <1>3, <1>9 DEF Quit
  <2>5. "co" \notin X /\ Owing(live') = Owing(live) \ X
    BY <1>3, <1>9, <1>11
  <2>6. Len(steps) \in Nat /\ cursor \in Nat /\ cursor <= Len(steps)
        /\ Debted(os, live, steps, cursor, floor, Len(steps))
    BY <1>4
  <2>7. Debted(us, live', steps, cursor, floor, Len(steps))
    BY <2>1, <2>2, <2>3, <2>4, <2>5, <2>6, DebtedOver
  <2> QED BY <1>1, <2>7
<1>13. PICK B : B = Tale(es, us, G)
  OBVIOUS
<1> HIDE DEF N, F, G
<1>14. \A k \in 1 .. N + 1 : B[k] = History!Without(A[k], name)
  <2> TAKE k \in 1 .. N + 1
  <2>1. DOMAIN es = 1 .. N + 1
    BY <1>5
  <2>2. A[k] = DocAt(ds[k], os[k], F)
    BY <1>10 DEF Tale
  <2>3. B[k] = DocAt(es[k], us[k], G)
    BY <1>13, <2>1 DEF Tale
  <2>4. es[k] = Without(ds[k], name) /\ us[k] = os[k] \ {name}
    BY <1>5, <1>6
  <2>5. DocAt(Without(ds[k], name), os[k] \ {name}, G) = History!Without(DocAt(ds[k], os[k], F), name)
    BY <1>3, <1>9, WithoutDoc
  <2> QED BY <2>2, <2>3, <2>4, <2>5
<1> HIDE DEF A
<1>15. Halves(B, floor, cursor, N, past', future')
  <2>1. PICK h, j, m : h = cursor - floor /\ j = cursor + 1 /\ m = N - cursor
    OBVIOUS
  <2>2. past = Slice(A, floor, h) /\ future = Slice(A, j, m)
    BY <1>4, <2>1 DEF Halves
  <2>3. ASSUME NEW k \in 1 .. h PROVE B[floor + k] = History!Without(A[floor + k], name)
    <3>1. floor + k \in 1 .. N + 1
      BY <1>4, <2>1
    <3> QED BY <1>14, <3>1
  <2>4. ASSUME NEW k \in 1 .. m PROVE B[j + k] = History!Without(A[j + k], name)
    <3>1. j + k \in 1 .. N + 1
      BY <1>4, <2>1
    <3> QED BY <1>14, <3>1
  <2>5. History!AllWithout(Slice(A, floor, h), name) = Slice(B, floor, h)
    BY <2>3, SliceWithout
  <2>6. History!AllWithout(Slice(A, j, m), name) = Slice(B, j, m)
    BY <2>4, SliceWithout
  <2> QED BY <1>2, <2>1, <2>2, <2>5, <2>6 DEF Halves
<1>16. Remembered(es, us)'
  <2>1. Halves(Tale(es, us, Later(live'.store)), floor', cursor', Len(steps'), past', future')
    BY <1>1, <1>13, <1>15 DEF G, N
  <2>2. open' = FALSE
    BY <1>1, <1>4
  <2> QED BY <1>7, <1>12, <2>1, <2>2, ClosedTells
<1>17. Doc(live') = History!Without(Doc(live), name)
  <2>1. PICK i : i = cursor + 1
    OBVIOUS
  <2>2. i \in 1 .. N + 1
    BY <1>4, <2>1
  <2>3. Doc(live) = A[i]
    BY <1>1, <2>1, DocNow DEF Top, A, F
  <2>4. Doc(live') = DocAt(Reads(live'), Owing(live'), Later(live'.store))
    BY <1>7, DocAfter
  <2>5. Reads(live') = es[i]
    <3>1. Chain(es, live', steps', Top', ~open')
      BY <1>7 DEF Valued
    <3>2. Top' = cursor
      BY <1>1 DEF Top
    <3> QED BY <2>1, <3>1, <3>2 DEF Chain
  <2>6. Owing(live') = us[i]
    BY <1>1, <1>12, <2>1 DEF Debted
  <2>7. B[i] = DocAt(es[i], us[i], G)
    <3>1. DOMAIN es = 1 .. N + 1
      BY <1>5
    <3> QED BY <1>13, <2>2, <3>1 DEF Tale
  <2> QED BY <1>14, <2>2, <2>3, <2>4, <2>5, <2>6, <2>7 DEF G
<1>18. History!Erase
  <2>1. Doc(live)' = History!Without(Doc(live), name)
    BY <1>17, DocNext
  <2> QED BY <1>1, <1>2, <1>3, <2>1 DEF History!Erase
<1> QED BY <1>16, <1>18 DEF Recounted

-----------------------------------------------------------------------------
(* The debts of a stroke, as its fold makes them.                          *)

\* The step has the debt of channel c.
Noted(s, step, c) == \E d \in step.preAttr : d.id = Identity(s, c, L)
\* It has that of every channel whose debt is no longer what it was in s.
Notes(nm, s, u, step) ==
  /\ Alike(s, u) /\ step.preAttr \subseteq DebtsAt(s)
  /\ \A c \in DOMAIN nm : u[c].levels[L].owes = s[c].levels[L].owes \/ Noted(s, step, c)
\* A step captures the channels cs.
Captures(nm, s, step, t, cs) ==
  /\ t.preAttr \subseteq DebtsAt(s) /\ step.preAttr \subseteq t.preAttr /\ t.pre = step.pre
  /\ \A c \in cs : Noted(s, t, c)
  /\ t.pos = step.pos /\ t.mask = step.mask /\ step.blocks \subseteq t.blocks /\ (cs # {} => t.blocks # {})

LEMMA CaptureNotes ==
  ASSUME NEW nm, Named(nm), NEW n \in Nat, NEW s \in Store(nm, n), Sound(s), NEW u \in Store(nm, n),
         NEW step \in Step(n), Notes(nm, s, u, step),
         NEW cs \in SUBSET DOMAIN nm, NEW grids, cs # {} => grids # {},
         NEW t, t = CaptureGrids(step, u, cs, grids)
  PROVE  Captures(nm, s, step, t, cs) /\ t.finer = step.finer
<1> DEFINE made == {c \in cs : \A d \in step.preAttr : d.id.lev # Identity(u, c, L).lev}
           new(c) == {g \in grids : \A b \in step.blocks :
                                      ~(b.id.lev = Identity(u, c, L).lev /\ b.grid = g)}
           a == {[id |-> Identity(u, c, L), owes |-> u[c].levels[L].owes] : c \in made}
           bs == UNION {{Block(u, c, L, g) : g \in new(c)} : c \in cs}
<1>1. t = [step EXCEPT !.preAttr = step.preAttr \cup a, !.blocks = step.blocks \cup bs]
  BY DEF CaptureGrids, Step
<1>2. DOMAIN s = DOMAIN nm /\ DOMAIN u = DOMAIN nm /\ L \in Levels
      /\ \A c \in DOMAIN nm : DOMAIN s[c].levels = Levels
  BY StoreForm, LogAssumption DEF Levels
<1>3. \A c \in DOMAIN nm : Identity(u, c, L) = Identity(s, c, L)
  BY <1>2 DEF Identity, Notes, Alike
<1>4. ASSUME NEW c \in DOMAIN nm PROVE Identity(s, c, L).lev = s[c].levels[L].tok
  BY DEF Identity
<1>5. \A d \in step.preAttr : \E c \in DOMAIN nm : d.id = Identity(s, c, L)
  BY <1>2 DEF Notes, DebtsAt
<1>6. cs # {} => step.blocks \cup bs # {}
  <2>1. ASSUME NEW c \in cs, NEW g \in grids PROVE step.blocks \cup bs # {}
    <3>1. CASE g \in new(c)
      <4>1. Block(u, c, L, g) \in bs
        BY <3>1
      <4> QED BY <4>1
    <3>2. CASE g \notin new(c)
      BY <3>2
    <3> QED BY <3>1, <3>2
  <2> QED BY <2>1
<1>7. /\ made \subseteq cs
      /\ \A c \in cs : c \in made <=> \A d \in step.preAttr : d.id.lev # Identity(u, c, L).lev
      /\ \A c \in made : [id |-> Identity(u, c, L), owes |-> u[c].levels[L].owes] \in a
      /\ \A d \in a : \E c \in made : d = [id |-> Identity(u, c, L), owes |-> u[c].levels[L].owes]
  OBVIOUS
<1> HIDE DEF a, bs, made
<1>8. /\ t.pos = step.pos /\ t.mask = step.mask /\ t.finer = step.finer /\ t.pre = step.pre
      /\ t.preAttr = step.preAttr \cup a /\ t.blocks = step.blocks \cup bs
  <2>1. step = [pos |-> step.pos, mask |-> step.mask, blocks |-> step.blocks, finer |-> step.finer,
                pre |-> step.pre, post |-> step.post, preAttr |-> step.preAttr,
                postAttr |-> step.postAttr]
    BY DEF Step
  <2> QED BY <1>1, <2>1
<1>9. ASSUME NEW c \in made
      PROVE  ~Noted(s, step, c) /\ u[c].levels[L].owes = s[c].levels[L].owes /\ c \in DOMAIN nm
  <2>1. ~Noted(s, step, c) /\ c \in DOMAIN nm
    BY <1>3, <1>7 DEF Noted
  <2> QED BY <2>1 DEF Notes
<1>10. a \subseteq DebtsAt(s)
  <2>1. ASSUME NEW d \in a PROVE d \in DebtsAt(s)
    <3>1. PICK c \in made : d = [id |-> Identity(u, c, L), owes |-> u[c].levels[L].owes]
      BY <1>7
    <3>2. d = [id |-> Identity(s, c, L), owes |-> s[c].levels[L].owes] /\ c \in DOMAIN s
      BY <1>2, <1>3, <1>9, <3>1
    <3> QED BY <3>2 DEF DebtsAt
  <2> QED BY <2>1
<1>11. ASSUME NEW c \in cs PROVE Noted(s, t, c)
  <2>1. CASE c \in made
    <3>1. PICK d : d = [id |-> Identity(u, c, L), owes |-> u[c].levels[L].owes]
      OBVIOUS
    <3>2. d \in a /\ d.id = Identity(s, c, L)
      BY <1>3, <1>7, <2>1, <3>1
    <3> QED BY <1>8, <3>2 DEF Noted
  <2>2. CASE c \notin made
    <3>1. PICK d \in step.preAttr : d.id.lev = Identity(u, c, L).lev
      BY <1>7, <2>2
    <3>2. PICK e \in DOMAIN nm : d.id = Identity(s, e, L)
      BY <1>5
    <3>3. s[e].levels[L].tok = s[c].levels[L].tok /\ e \in DOMAIN s /\ c \in DOMAIN s
      BY <1>2, <1>3, <1>4, <3>1, <3>2
    <3>4. e = c
      BY <3>3 DEF Sound
    <3> QED BY <1>8, <3>2, <3>4 DEF Noted
  <2> QED BY <2>1, <2>2
<1> QED BY <1>6, <1>8, <1>10, <1>11 DEF Captures, Notes

\* What a fold on its way has done to the debts of lv, and to the step.
Tallied(nm, n, lv, st, w) ==
  /\ w \in Folding(nm, n) /\ Notes(nm, lv.store, w.live.store, w.step)
  /\ w.step.pre = lv.owes /\ w.step.pos = st.pos /\ w.step.mask = st.mask
  /\ \A c \in DOMAIN nm : \A l \in Levels :
       l > L => w.live.store[c].levels[l].owes = lv.store[c].levels[l].owes
  /\ FinersSay(w.live.store, w.step.finer, Later(lv.store))
  /\ \/ w.step.blocks # {}
     \/ /\ w.live.owes = lv.owes
        /\ \A c \in DOMAIN nm : w.live.store[c].levels[L].owes = lv.store[c].levels[L].owes

\* A part of it that captures the channels cs, and changes no debts but theirs.
Parts(nm, n, w, r, cs, grids) ==
  /\ w \in Folding(nm, n) /\ r \in Folding(nm, n)
  /\ cs \subseteq DOMAIN nm /\ (cs # {} => grids # {})
  /\ Alike(w.live.store, r.live.store) /\ (r.live.owes = w.live.owes \/ cs # {})
  /\ \A c \in DOMAIN nm : \A l \in Levels :
       r.live.store[c].levels[l].owes = w.live.store[c].levels[l].owes \/ (l = L /\ c \in cs)
  /\ LET t == CaptureGrids(w.step, w.live.store, cs, grids) IN
       r.step = t \/ \E c \in DOMAIN nm : nm[c] = "mask" /\ r.step = CaptureFinerMask(t, w.live.store, c, grids)

LEMMA CaptureFinerSays ==
  ASSUME NEW nm, Named(nm), NEW n \in Nat, NEW s \in Store(nm, n), NEW u \in Store(nm, n), Alike(s, u),
         \A c \in DOMAIN nm : \A l \in Levels : l > L => u[c].levels[l].owes = s[c].levels[l].owes,
         NEW step \in Step(n), FinersSay(u, step.finer, Later(s)), NEW c \in DOMAIN nm, nm[c] = "mask",
         NEW grids, NEW t, t = CaptureFinerMask(step, u, c, grids)
  PROVE  /\ t.pre = step.pre /\ t.pos = step.pos /\ t.mask = step.mask /\ t.blocks = step.blocks
         /\ t.preAttr = step.preAttr /\ FinersSay(u, t.finer, Later(s))
<1> DEFINE fs == {FinerMask(u, c, l, grids) : l \in L + 1 .. Depth}
           F == Later(s)
<1>1. t = [step EXCEPT !.finer = step.finer \cup fs]
  BY DEF CaptureFinerMask, Step
<1>2. \A f \in fs : \E l \in L + 1 .. Depth : f = FinerMask(u, c, l, grids)
  OBVIOUS
<1> HIDE DEF fs
<1>3. /\ t.pre = step.pre /\ t.pos = step.pos /\ t.mask = step.mask /\ t.blocks = step.blocks
      /\ t.preAttr = step.preAttr /\ t.finer = step.finer \cup fs
  <2>1. step = [pos |-> step.pos, mask |-> step.mask, blocks |-> step.blocks, finer |-> step.finer,
                pre |-> step.pre, post |-> step.post, preAttr |-> step.preAttr,
                postAttr |-> step.postAttr]
    BY DEF Step
  <2> QED BY <1>1, <2>1
<1>4. ASSUME NEW f \in fs
      PROVE  (IF f.whole THEN f.state.owes ELSE f.owes) = (<<"mask", f.id.level>> \in F)
  <2>1. PICK l \in L + 1 .. Depth : f = FinerMask(u, c, l, grids)
    BY <1>2
  <2>2. f.id.level = l /\ f.state.owes = u[c].levels[l].owes /\ f.owes = u[c].levels[l].owes
    BY <2>1 DEF FinerMask, Identity
  <2>3. l \in Levels /\ l > L /\ l \in L + 1 .. Depth /\ "mask" \in Names
    BY LogAssumption DEF Levels, Names
  <2>4. (Owes(s, nm[c], l) <=> s[c].levels[l].owes) /\ s[c].levels[l].owes \in BOOLEAN
    BY <2>3, OwesAt
  <2>5. (<<"mask", l>> \in F) <=> s[c].levels[l].owes
    BY <2>3, <2>4 DEF Later
  <2>6. u[c].levels[l].owes = s[c].levels[l].owes
    BY <2>3
  <2>7. (<<"mask", l>> \in F) = u[c].levels[l].owes
    BY <2>4, <2>5, <2>6
  <2> QED BY <2>2, <2>7
<1>5. FinersSay(u, t.finer, F)
  BY <1>3, <1>4 DEF FinersSay
<1> QED BY <1>3, <1>5

LEMMA PartTallies ==
  ASSUME NEW nm, Named(nm), NEW n \in Nat, NEW lv \in Lives(nm, n), Sound(lv.store), NEW st, NEW w,
         Tallied(nm, n, lv, st, w), NEW r, NEW cs, NEW grids \in SUBSET Grids, Parts(nm, n, w, r, cs, grids)
  PROVE  Tallied(nm, n, lv, st, r)
<1> DEFINE s == lv.store
           u == w.live.store
           v == r.live.store
           t == CaptureGrids(w.step, u, cs, grids)
           F == Later(s)
<1>1. /\ w \in Folding(nm, n) /\ r \in Folding(nm, n) /\ cs \in SUBSET DOMAIN nm /\ (cs # {} => grids # {})
      /\ Alike(u, v) /\ (r.live.owes = w.live.owes \/ cs # {})
      /\ r.step = t \/ \E c \in DOMAIN nm : nm[c] = "mask" /\ r.step = CaptureFinerMask(t, u, c, grids)
  BY DEF Parts
<1>2. \A c \in DOMAIN nm : \A l \in Levels : v[c].levels[l].owes = u[c].levels[l].owes \/ (l = L /\ c \in cs)
  BY Zenon DEF Parts
<1>3. /\ Notes(nm, s, u, w.step) /\ w.step.pre = lv.owes /\ w.step.pos = st.pos /\ w.step.mask = st.mask
      /\ \A c \in DOMAIN nm : \A l \in Levels : l > L => u[c].levels[l].owes = s[c].levels[l].owes
      /\ FinersSay(u, w.step.finer, F)
      /\ \/ w.step.blocks # {}
         \/ w.live.owes = lv.owes /\ \A c \in DOMAIN nm : u[c].levels[L].owes = s[c].levels[L].owes
  BY DEF Tallied
<1>4. /\ s \in Store(nm, n) /\ u \in Store(nm, n) /\ v \in Store(nm, n) /\ w.step \in Step(n) /\ Sound(s)
      /\ L \in Levels
  BY Zenon, <1>1, LogAssumption DEF Folding, Lives, Levels
<1>5. Alike(s, u) /\ \A c \in DOMAIN nm : u[c].levels[L].owes = s[c].levels[L].owes \/ Noted(s, w.step, c)
  BY <1>3 DEF Notes
<1> HIDE DEF s, u, v, F
<1>6. PICK q : q = t
  OBVIOUS
<1>7. Captures(nm, s, w.step, q, cs) /\ q.finer = w.step.finer
  BY <1>1, <1>3, <1>4, <1>6, CaptureNotes
<1>8. q \in Step(n)
  BY <1>1, <1>4, <1>6, CaptureGridsIs
<1> HIDE DEF t
<1>9. /\ r.step.pre = q.pre /\ r.step.pos = q.pos /\ r.step.mask = q.mask /\ r.step.blocks = q.blocks
      /\ r.step.preAttr = q.preAttr /\ FinersSay(u, r.step.finer, F)
  <2>1. CASE r.step = q
    BY <1>3, <1>7, <2>1
  <2>2. ASSUME NEW c \in DOMAIN nm, nm[c] = "mask", r.step = CaptureFinerMask(q, u, c, grids)
        PROVE  /\ r.step.pre = q.pre /\ r.step.pos = q.pos /\ r.step.mask = q.mask /\ r.step.blocks = q.blocks
               /\ r.step.preAttr = q.preAttr /\ FinersSay(u, r.step.finer, F)
    <3>1. FinersSay(u, q.finer, Later(s))
      BY <1>3, <1>7 DEF F
    <3> DEFINE z == r.step
    <3>2. z = CaptureFinerMask(q, u, c, grids)
      BY <2>2
    <3> HIDE DEF z
    <3>3. /\ z.pre = q.pre /\ z.pos = q.pos /\ z.mask = q.mask /\ z.blocks = q.blocks
          /\ z.preAttr = q.preAttr /\ FinersSay(u, z.finer, Later(s))
      BY <1>3, <1>4, <1>5, <1>8, <2>2, <3>1, <3>2, CaptureFinerSays
    <3> QED BY <3>3 DEF z, F
  <2> QED BY <1>1, <1>6, <2>1, <2>2
<1>10. Notes(nm, s, v, r.step)
  <2>1. Alike(s, v)
    BY <1>1, <1>5, AlikeTrans
  <2>2. r.step.preAttr \subseteq DebtsAt(s) /\ w.step.preAttr \subseteq r.step.preAttr
        /\ \A c \in cs : Noted(s, q, c)
    BY <1>7, <1>9 DEF Captures
  <2>3. ASSUME NEW c \in DOMAIN nm PROVE v[c].levels[L].owes = s[c].levels[L].owes \/ Noted(s, r.step, c)
    <3>1. CASE c \in cs
      <4>1. Noted(s, q, c)
        BY <2>2, <3>1
      <4> QED BY <1>9, <4>1 DEF Noted
    <3>2. CASE c \notin cs
      <4>1. v[c].levels[L].owes = u[c].levels[L].owes
        BY <1>2, <1>4, <3>2
      <4>2. CASE Noted(s, w.step, c)
        BY <2>2, <4>2 DEF Noted
      <4> QED BY <1>5, <4>1, <4>2
    <3> QED BY <3>1, <3>2
  <2> QED BY <2>1, <2>2, <2>3 DEF Notes
<1>11. FinersSay(v, r.step.finer, F)
  <2>1. \A id : Resolve(v, id) = Resolve(u, id)
    BY <1>1, <1>4, AlikeIn
  <2> QED BY <1>9, <2>1 DEF FinersSay
<1>12. \/ r.step.blocks # {}
       \/ r.live.owes = lv.owes /\ \A c \in DOMAIN nm : v[c].levels[L].owes = s[c].levels[L].owes
  <2>1. w.step.blocks \subseteq r.step.blocks /\ (cs # {} => r.step.blocks # {})
    BY <1>7, <1>9 DEF Captures
  <2>2. CASE cs # {}
    BY Zenon, <2>1, <2>2
  <2>3. CASE cs = {}
    <3>1. \A c \in DOMAIN nm : v[c].levels[L].owes = u[c].levels[L].owes
      BY <1>2, <1>4, <2>3
    <3> QED BY <1>1, <1>3, <2>1, <2>3, <3>1
  <2> QED BY <2>2, <2>3
<1>13. \A c \in DOMAIN nm : \A l \in Levels : l > L => v[c].levels[l].owes = s[c].levels[l].owes
  <2> TAKE c \in DOMAIN nm
  <2> TAKE l \in Levels
  <2> HAVE l > L
  <2>1. l # L
    BY LogAssumption DEF Levels
  <2> QED BY <1>2, <1>3, <2>1
<1>14. r.step.pre = lv.owes /\ r.step.pos = st.pos /\ r.step.mask = st.mask
  BY <1>3, <1>7, <1>9 DEF Captures
<1> QED BY Zenon, <1>1, <1>10, <1>11, <1>12, <1>13, <1>14 DEF Tallied, s, v, F

LEMMA FoldGrids ==
  ASSUME stroke \in Strokes, stroke.touched # {}
  PROVE  GridsOf(stroke.touched) \in SUBSET Grids /\ GridsOf(stroke.touched) # {}
<1>1. stroke.touched \in SUBSET Verts /\ GridsOf(stroke.touched) \in SUBSET Grids
  BY StrokeHas
<1>2. PICK v \in stroke.touched : v \in Verts
  BY <1>1
<1>3. PICK g : g \in Occ[v]
  BY <1>2, StoreAssumption
<1>4. g \in GridsOf(stroke.touched)
  BY <1>2, <1>3 DEF GridsOf
<1> QED BY <1>1, <1>4

LEMMA CoParts ==
  ASSUME NEW nm, Named(nm), NEW n \in Nat, NEW w \in Folding(nm, n), stroke \in Strokes, stroke.touched # {},
         NEW r, r = FoldCo(w)
  PROVE  Parts(nm, n, w, r, {1}, GridsOf(stroke.touched))
<1> DEFINE s == w.live.store
           d == w.live.pos
           ch == Scattered(s[1], L, d, stroke.touched)
           u == [s EXCEPT ![1] = ch]
           t == CaptureGrids(w.step, s, {1}, GridsOf(stroke.touched))
           lv == w.live
<1>1. /\ lv \in Lives(nm, n) /\ s \in Store(nm, n) /\ 1 \in DOMAIN nm /\ Depth \in Nat /\ L \in 1 .. Depth
  BY LogAssumption DEF Folding, Lives, Named
<1>2. r \in Folding(nm, n)
  BY FoldCoIs
<1>3. r.live.store = u /\ r.step = t
  <2>1. lv = [store |-> lv.store, pos |-> lv.pos, mask |-> lv.mask, owes |-> lv.owes]
    BY <1>1 DEF Lives
  <2>2. r.live = [lv EXCEPT !.store = u, !.mask = Dropped(lv.mask), !.owes = L >= 2] /\ r.step = t
    BY DEF FoldCo, Folding, Lives
  <2> HIDE DEF u, lv, t
  <2> QED BY <2>1, <2>2
<1>4. DOMAIN s = DOMAIN nm /\ \A c \in DOMAIN nm : DOMAIN s[c].levels = Levels
  BY <1>1, StoreForm DEF Levels
<1>5. s[1] \in Channel(Depth, n)
  BY <1>1, StoreHas
<1>6. Revalued(s[1], ch, L, Spread(d, stroke.touched, s[1].levels[L].val))
  BY <1>1, <1>5, ScatteredHas
<1>7. \A c \in DOMAIN nm : u[c] = IF c = 1 THEN ch ELSE s[c]
  BY <1>4
<1>8. DOMAIN u = DOMAIN nm
  BY <1>4
<1> HIDE DEF ch, u, t, s
<1>9. /\ ch.name = s[1].name /\ ch.tok = s[1].tok /\ DOMAIN ch.levels = Levels
      /\ \A l \in Levels : ch.levels[l].tok = s[1].levels[l].tok /\ ch.levels[l].owes = s[1].levels[l].owes
  BY <1>1, <1>4, <1>6 DEF Revalued
<1>10. Alike(s, u)
  BY <1>4, <1>7, <1>8, <1>9 DEF Alike
<1>11. \A c \in DOMAIN nm : \A l \in Levels : u[c].levels[l].owes = s[c].levels[l].owes
  BY <1>7, <1>9
<1>12. GridsOf(stroke.touched) # {}
  BY Zenon, FoldGrids
<1> QED BY <1>1, <1>2, <1>3, <1>10, <1>11, <1>12 DEF Parts, s, t

LEMMA MaskParts ==
  ASSUME NEW nm, Named(nm), NEW n \in Nat, NEW w \in Folding(nm, n), stroke \in Strokes, stroke.touched # {},
         Seamless(w.live.store), NEW c \in DOMAIN nm, nm[c] = "mask", NEW r, r = FoldMask(w)
  PROVE  Parts(nm, n, w, r, {c}, GridsOf(stroke.touched))
<1> DEFINE s == w.live.store
           lv == w.live
           u == r.live.store
           grids == GridsOf(stroke.touched)
           t == CaptureGrids(w.step, s, {c}, grids)
<1>1. /\ lv \in Lives(nm, n) /\ s \in Store(nm, n) /\ L \in Levels /\ lv.mask[L] \in MaskAt(L) /\ Seamless(lv.store)
  BY MasksAre DEF Folding, Lives
<1>2. r \in Folding(nm, n)
  BY FoldMaskIs
<1>3. FindChannel(s, "mask") = c
  BY <1>1, FindAt
<1>4. r.step = CaptureFinerMask(t, s, c, grids) /\ r.live = FlushMask(lv, L, stroke.touched)
  BY <1>3 DEF FoldMask
<1> DEFINE z == r.live
<1>5. z = FlushMask(lv, L, stroke.touched)
  BY <1>4
<1> HIDE DEF lv, z
<1>6. /\ z.owes = lv.owes /\ \A i \in DOMAIN nm : i # c => z.store[i] = lv.store[i]
      /\ Renewed(lv.store[c], z.store[c], L, lv.mask[L], stroke.touched, Depth)
  BY <1>1, <1>5, FlushMaskHas
<1>7. /\ r.live.owes = w.live.owes /\ \A i \in DOMAIN nm : i # c => u[i] = s[i]
      /\ Renewed(s[c], u[c], L, lv.mask[L], stroke.touched, Depth)
  BY <1>6 DEF lv, z
<1>8. u \in Store(nm, n)
  BY <1>2 DEF Folding, Lives
<1> HIDE DEF s, u, t, grids
<1>9. /\ DOMAIN s = DOMAIN nm /\ DOMAIN u = DOMAIN nm
      /\ \A i \in DOMAIN nm : DOMAIN s[i].levels = Levels /\ DOMAIN u[i].levels = Levels
  BY <1>1, <1>8, StoreForm DEF Levels
<1>10. /\ u[c].name = s[c].name /\ u[c].tok = s[c].tok
       /\ \A l \in Levels : /\ u[c].levels[l].tok = s[c].levels[l].tok
                            /\ l # L => u[c].levels[l].owes = s[c].levels[l].owes
  BY <1>7 DEF Renewed, Levels
<1>11. Alike(s, u)
  BY <1>7, <1>9, <1>10 DEF Alike
<1>12. \A i \in DOMAIN nm : \A l \in Levels : u[i].levels[l].owes = s[i].levels[l].owes \/ (l = L /\ i \in {c})
  BY <1>7, <1>10
<1>13. GridsOf(stroke.touched) # {}
  BY FoldGrids
<1> QED BY <1>2, <1>4, <1>7, <1>11, <1>12, <1>13 DEF Parts, s, u, t, grids

LEMMA LayersParts ==
  ASSUME NEW nm, Named(nm), NEW n \in Nat, NEW w \in Folding(nm, n), stroke \in Strokes,
         stroke.wrote # {} => stroke.touched # {}, NEW ns \in SUBSET (stroke.wrote \cap DOMAIN Layers),
         NEW r, r = FoldLayers(w, ns)
  PROVE  \E cs : Parts(nm, n, w, r, cs, GridsOf(stroke.touched))
<1> DEFINE s == w.live.store
           lv == w.live
           cs == {c \in DOMAIN s : s[c].name \in ns}
           T(c) == Scattered(s[c], L, stroke.column[s[c].name], stroke.touched)
           g == [c \in DOMAIN nm |-> IF s[c].name \notin ns THEN s[c] ELSE NoteEdit(T(c), L)]
           u == [c \in DOMAIN s |-> g[c]]
           t == CaptureGrids(w.step, s, cs, GridsOf(stroke.touched))
<1>1. /\ lv \in Lives(nm, n) /\ s \in Store(nm, n) /\ Depth \in Nat /\ L \in 1 .. Depth /\ L \in Levels
  BY LogAssumption DEF Folding, Lives, Levels
<1>2. r \in Folding(nm, n)
  BY FoldLayersIs
<1>3. DOMAIN s = DOMAIN nm /\ \A c \in DOMAIN nm : s[c] \in Channel(Depth, n) /\ DOMAIN s[c].levels = Levels
  BY <1>1, StoreForm, StoreHas DEF Levels
<1>4. r.live.store = u /\ r.step = t /\ r.live.owes = w.live.owes
  <2>1. lv = [store |-> lv.store, pos |-> lv.pos, mask |-> lv.mask, owes |-> lv.owes]
    BY Zenon, <1>1 DEF Lives
  <2>2. r.live = [lv EXCEPT !.store = u] /\ r.step = t
    BY <1>3 DEF FoldLayers, EachChannel
  <2> HIDE DEF u, t
  <2>3. r.live.store = u /\ r.live.owes = lv.owes
    BY <2>1, <2>2
  <2> QED BY <2>2, <2>3
<1>5. cs \subseteq DOMAIN nm /\ DOMAIN u = DOMAIN nm
      /\ \A c \in DOMAIN nm : u[c] = IF c \in cs THEN NoteEdit(T(c), L) ELSE s[c]
  BY <1>3
<1>6. ASSUME NEW c \in cs
      PROVE  /\ u[c].name = s[c].name /\ u[c].tok = s[c].tok /\ DOMAIN u[c].levels = Levels
             /\ \A l \in Levels : /\ u[c].levels[l].tok = s[c].levels[l].tok
                                  /\ l # L => u[c].levels[l].owes = s[c].levels[l].owes
  <2> DEFINE ch == s[c]
             d == stroke.column[s[c].name]
             q == T(c)
             v == u[c]
  <2>1. ch \in Channel(Depth, n) /\ q = Scattered(ch, L, d, stroke.touched) /\ v = NoteEdit(q, L)
        /\ DOMAIN ch.levels = Levels
    BY <1>3, <1>5
  <2>2. d \in [Verts -> Sample(L)]
    BY StrokeHas DEF MaskAt
  <2> HIDE DEF ch, d, q, v
  <2>3. q \in Channel(Depth, n)
    BY <1>1, <2>1, <2>2, StrokeHas, ScatteredIs
  <2>4. Revalued(ch, q, L, Spread(d, stroke.touched, ch.levels[L].val))
    BY <1>1, <2>1, ScatteredHas
  <2>5. /\ v.name = q.name /\ v.tok = q.tok /\ DOMAIN v.levels = 1 .. Depth
        /\ v.levels[L].tok = q.levels[L].tok
        /\ \A k \in 1 .. Depth : k # L => v.levels[k] = q.levels[k]
    BY <1>1, <2>1, <2>3, NoteEditHas
  <2>6. /\ v.name = ch.name /\ v.tok = ch.tok /\ DOMAIN v.levels = Levels
        /\ \A l \in Levels : /\ v.levels[l].tok = ch.levels[l].tok
                             /\ l # L => v.levels[l].owes = ch.levels[l].owes
    BY <2>1, <2>4, <2>5 DEF Revalued, Levels
  <2> QED BY Zenon, <2>6 DEF v, ch
<1>7. cs # {} => GridsOf(stroke.touched) # {}
  <2>1. ASSUME NEW c \in cs PROVE stroke.touched # {}
    OBVIOUS
  <2> HIDE DEF cs
  <2> QED BY <2>1, FoldGrids
<1> HIDE DEF cs, u, t, s, g
<1>8. Alike(s, u)
  <2> SUFFICES ASSUME NEW c \in DOMAIN nm
               PROVE  /\ u[c].name = s[c].name /\ u[c].tok = s[c].tok /\ DOMAIN u[c].levels = Levels
                      /\ \A l \in Levels : u[c].levels[l].tok = s[c].levels[l].tok
    BY <1>3, <1>5 DEF Alike
  <2>1. CASE c \in cs
    BY <1>6, <2>1
  <2>2. CASE c \notin cs
    <3>1. u[c] = s[c]
      BY <1>5, <2>2
    <3> QED BY <1>3, <3>1
  <2> QED BY <2>1, <2>2
<1>9. ASSUME NEW c \in DOMAIN nm, NEW l \in Levels
      PROVE  u[c].levels[l].owes = s[c].levels[l].owes \/ (l = L /\ c \in cs)
  <2>1. CASE c \in cs
    BY <1>6, <2>1
  <2>2. CASE c \notin cs
    <3>1. u[c] = s[c]
      BY Zenon, <1>5, <2>2
    <3> QED BY <3>1
  <2> QED BY <2>1, <2>2
<1>10. Parts(nm, n, w, r, cs, GridsOf(stroke.touched))
  BY <1>2, <1>4, <1>5, <1>7, <1>8, <1>9 DEF Parts, s, t
<1> QED BY <1>10

\* What the whole fold does to the debts.
LEMMA FoldTallies ==
  ASSUME NEW nm, Named(nm), NEW n \in Nat, NEW d, Reading(d), NEW vs, NEW w \in Folding(nm, n), stroke \in Strokes,
         "mask" \in stroke.wrote => \E c \in DOMAIN nm : nm[c] = "mask",
         stroke.wrote # {} => stroke.touched # {},
         Folded(n, d, w.live, w.step, vs, {}),
         NEW lv \in Lives(nm, n), Sound(lv.store), NEW st, Tallied(nm, n, lv, st, w), NEW r, r = Fold(w)
  PROVE  Tallied(nm, n, lv, st, r)
<1> DEFINE co == IF "co" \in stroke.wrote THEN FoldCo(w) ELSE w
           mask == IF "mask" \in stroke.wrote THEN FoldMask(co) ELSE co
           ns == stroke.wrote \cap DOMAIN Layers
           grids == GridsOf(stroke.touched)
<1>1. r = FoldLayers(mask, ns)
  BY DEF Fold
<1>2. grids \in SUBSET Grids
  BY StrokeHas
<1> HIDE DEF grids
<1>3. Tallied(nm, n, lv, st, co) /\ Seamless(co.live.store)
  <2>1. CASE "co" \in stroke.wrote
    <3>1. co = FoldCo(w) /\ stroke.touched # {}
      BY <2>1
    <3> HIDE DEF co
    <3>2. Parts(nm, n, w, co, {1}, grids)
      BY <3>1, CoParts DEF grids
    <3>3. FoldedTo(nm, n, d, w, co, vs, w.step.finer, {1})
      BY Zenon, <3>1, FoldCoTo
    <3>4. Seamless(co.live.store)
      BY <3>3 DEF FoldedTo, Folded, Coherent
    <3> QED BY <1>2, <3>2, <3>4, PartTallies
  <2>2. CASE "co" \notin stroke.wrote
    <3>1. co = w
      BY <2>2
    <3> HIDE DEF co
    <3> QED BY <3>1 DEF Folded, Coherent
  <2> QED BY <2>1, <2>2
<1> HIDE DEF co
<1>4. Tallied(nm, n, lv, st, mask)
  <2>1. CASE "mask" \in stroke.wrote
    <3>1. mask = FoldMask(co) /\ stroke.touched # {}
      BY <2>1
    <3> HIDE DEF mask
    <3>2. PICK c \in DOMAIN nm : nm[c] = "mask"
      BY Zenon, <2>1
    <3>3. co \in Folding(nm, n)
      BY <1>3 DEF Tallied
    <3>4. Parts(nm, n, co, mask, {c}, grids)
      BY <1>3, <3>1, <3>2, <3>3, MaskParts DEF grids
    <3> QED BY <1>2, <1>3, <3>4, PartTallies
  <2>2. CASE "mask" \notin stroke.wrote
    <3>1. mask = co
      BY Zenon, <2>2
    <3> HIDE DEF mask
    <3> QED BY <1>3, <3>1
  <2> QED BY <2>1, <2>2
<1> HIDE DEF mask
<1>5. mask \in Folding(nm, n) /\ ns \in SUBSET (stroke.wrote \cap DOMAIN Layers)
  BY <1>4 DEF Tallied
<1> HIDE DEF ns
<1>6. PICK cs : Parts(nm, n, mask, r, cs, grids)
  BY <1>1, <1>5, LayersParts DEF grids
<1> QED BY <1>2, <1>4, <1>6, PartTallies

\* Where the fold starts.
LEMMA TallyStarts ==
  ASSUME NEW nm, Named(nm), NEW n \in Nat, NEW lv \in Lives(nm, n), NEW st \in Step(n), st.finer = {},
         st.pre = lv.owes, st.preAttr \subseteq DebtsAt(lv.store), NEW w, w = [live |-> lv, step |-> st]
  PROVE  Tallied(nm, n, lv, st, w)
<1>1. Alike(lv.store, lv.store)
  BY DEF Alike
<1>2. w \in Folding(nm, n) /\ w.live = lv /\ w.step = st
  BY DEF Folding
<1>3. FinersSay(lv.store, st.finer, Later(lv.store))
  BY DEF FinersSay
<1> QED BY <1>1, <1>2, <1>3 DEF Tallied, Notes

\* Debts listed in a step say what the level they were taken of owes.
LEMMA DebtsSay ==
  ASSUME NEW nm, Named(nm), NEW n \in Nat, NEW lv \in Lives(nm, n), NEW t, Alike(lv.store, t),
         NEW attrs, attrs \subseteq DebtsAt(lv.store)
  PROVE  AttrsSay(t, attrs, Owing(lv))
<1> DEFINE s == lv.store
           o == Owing(lv)
<1>1. s \in Store(nm, n) /\ L \in Levels
  BY LogAssumption DEF Lives, Levels
<1>2. DOMAIN s = DOMAIN nm
  BY <1>1, StoreForm
<1>3. \A x \in Names : x \in o <=> Owes(s, x, L)
  BY OwingIs
<1>4. attrs \subseteq DebtsAt(s)
  OBVIOUS
<1> HIDE DEF s, o
<1>5. ASSUME NEW d \in attrs PROVE d.owes \in BOOLEAN /\ (d.owes <=> d.id.name \in o)
  <2>1. PICK c \in DOMAIN nm : d = [id |-> Identity(s, c, L), owes |-> s[c].levels[L].owes]
    BY <1>2, <1>4 DEF DebtsAt
  <2>2. d.id = Identity(s, c, L) /\ d.owes = s[c].levels[L].owes
    BY <2>1
  <2>3. s[c].name = nm[c] /\ nm[c] \in Names
    BY <1>1, StoreHas DEF Named
  <2>4. d.id.name = nm[c]
    BY <2>2, <2>3 DEF Identity
  <2>5. (Owes(s, nm[c], L) <=> s[c].levels[L].owes) /\ s[c].levels[L].owes \in BOOLEAN
    BY <1>1, OwesAt
  <2> QED BY <1>3, <2>2, <2>3, <2>4, <2>5
<1> QED BY <1>5 DEF AttrsSay, o

LEMMA NotedMarks ==
  ASSUME NEW nm, Named(nm), NEW n \in Nat, NEW s \in Store(nm, n), NEW t, Alike(s, t), NEW c \in DOMAIN nm,
         NEW attrs, NEW d \in attrs, d.id = Identity(s, c, L)
  PROVE  Marked(t, attrs, nm[c])
<1>1. /\ s[c].name = nm[c] /\ FindChannel(s, nm[c]) = c /\ c # 0
      /\ DOMAIN s[c].levels = 1 .. Depth /\ L \in 1 .. Depth
  BY StoreHas, FindAt, LogAssumption
<1>2. Resolve(s, d.id) = c
  <2>1. PICK id : id = d.id
    OBVIOUS
  <2>2. id = [name |-> nm[c], chan |-> s[c].tok, lev |-> s[c].levels[L].tok, level |-> L]
    BY <1>1, <2>1 DEF Identity
  <2>3. id.name = nm[c] /\ id.chan = s[c].tok /\ id.lev = s[c].levels[L].tok /\ id.level = L
    BY <2>2
  <2>4. Resolve(s, id) = c
    BY <1>1, <2>3 DEF Resolve
  <2> QED BY <2>1, <2>4
<1>3. Resolve(t, d.id) = c
  BY <1>2, AlikeIn
<1>4. d.id.name = nm[c]
  BY <1>1 DEF Identity
<1> QED BY <1>1, <1>3, <1>4 DEF Marked

\* A fold that is over links what was owed before it and what is owed after it.
LEMMA TalliedLinks ==
  ASSUME NEW nm, Named(nm), NEW n \in Nat, NEW lv \in Lives(nm, n), NEW st, NEW w, Tallied(nm, n, lv, st, w),
         NEW b, b = w.live.owes, NEW t, t = Closed(w.step, b, w.live.store)
  PROVE  /\ Linked(w.live.store, t, Owing(lv), Owing(w.live)) /\ Later(w.live.store) = Later(lv.store)
         /\ FinersSay(w.live.store, t.finer, Later(w.live.store))
         /\ t.pos = st.pos /\ t.mask = st.mask /\ (t.blocks # {} \/ Owing(w.live) = Owing(lv))
<1> DEFINE s == lv.store
           lw == w.live
           u == lw.store
           a == DebtsAt(u)
           x0 == Owing(lv)
           y0 == Owing(lw)
<1>1. /\ lw \in Lives(nm, n) /\ w.step \in Step(n) /\ lv.owes \in BOOLEAN /\ lw.owes \in BOOLEAN
      /\ s \in Store(nm, n) /\ u \in Store(nm, n) /\ L \in Levels
  BY Zenon, LogAssumption DEF Tallied, Folding, Lives, Levels
<1>2. /\ Notes(nm, s, u, w.step) /\ w.step.pre = lv.owes /\ w.step.pos = st.pos /\ w.step.mask = st.mask
      /\ \A c \in DOMAIN nm : \A l \in Levels : l > L => u[c].levels[l].owes = s[c].levels[l].owes
      /\ FinersSay(u, w.step.finer, Later(s))
      /\ \/ w.step.blocks # {}
         \/ lw.owes = lv.owes /\ \A c \in DOMAIN nm : u[c].levels[L].owes = s[c].levels[L].owes
  BY Zenon DEF Tallied
<1>3. /\ Alike(s, u) /\ w.step.preAttr \subseteq DebtsAt(s)
      /\ \A c \in DOMAIN nm : u[c].levels[L].owes = s[c].levels[L].owes \/ Noted(s, w.step, c)
  BY <1>2 DEF Notes
<1>4. t = [w.step EXCEPT !.post = b, !.postAttr = a]
  BY DEF Closed
<1>5. Later(u) = Later(s)
  <2>1. s \in Store(nm, n) /\ u \in Store(nm, n)
    BY Zenon, <1>1
  <2>2. \A c \in DOMAIN nm : \A l \in Levels : l > L => u[c].levels[l].owes = s[c].levels[l].owes
    BY Zenon, <1>2
  <2> HIDE DEF s, u
  <2> QED BY <2>1, <2>2, LaterSame
<1>6. w.step.blocks # {} \/ Owing(lw) = Owing(lv)
  <2>1. CASE lw.owes = lv.owes /\ \A c \in DOMAIN nm : u[c].levels[L].owes = s[c].levels[L].owes
    BY <1>1, <2>1, OwingSame
  <2> QED BY <1>2, <2>1
<1>7. AttrsSay(u, w.step.preAttr, x0)
  BY <1>3, DebtsSay
<1>8. AttrsSay(u, a, y0)
  <2>1. Alike(u, u)
    BY DEF Alike
  <2> QED BY <1>1, <2>1, DebtsSay
<1>9. /\ ("co" \in x0 <=> lv.owes) /\ ("co" \in y0 <=> lw.owes)
      /\ \A x \in Names : (x \in x0 <=> Owes(s, x, L)) /\ (x \in y0 <=> Owes(u, x, L))
  <2>1. ("co" \in x0 <=> lv.owes) /\ \A x \in Names : x \in x0 <=> Owes(s, x, L)
    BY OwingIs
  <2>2. ("co" \in y0 <=> lw.owes) /\ \A x \in Names : x \in y0 <=> Owes(u, x, L)
    BY <1>1, OwingIs
  <2> QED BY <2>1, <2>2
<1>10. \A c \in DOMAIN nm : \E d \in a : d.id = Identity(u, c, L)
  <2>1. DOMAIN u = DOMAIN nm
    BY <1>1, StoreForm
  <2> TAKE c \in DOMAIN nm
  <2>2. PICK d : d = [id |-> Identity(u, c, L), owes |-> u[c].levels[L].owes]
    OBVIOUS
  <2>3. d \in a /\ d.id = Identity(u, c, L)
    BY <2>1, <2>2 DEF DebtsAt
  <2> QED BY <2>3
<1> HIDE DEF s, lw, u, a, x0, y0
<1>11. /\ t.pos = w.step.pos /\ t.mask = w.step.mask /\ t.blocks = w.step.blocks /\ t.finer = w.step.finer
       /\ t.pre = w.step.pre /\ t.preAttr = w.step.preAttr /\ t.post = b /\ t.postAttr = a
  <2> DEFINE step == w.step
  <2>1. step = [pos |-> step.pos, mask |-> step.mask, blocks |-> step.blocks, finer |-> step.finer,
                pre |-> step.pre, post |-> step.post, preAttr |-> step.preAttr,
                postAttr |-> step.postAttr]
    BY <1>1 DEF Step
  <2>2. t = [step EXCEPT !.post = b, !.postAttr = a]
    BY <1>4
  <2> HIDE DEF step
  <2>3. /\ t.pos = step.pos /\ t.mask = step.mask /\ t.blocks = step.blocks /\ t.finer = step.finer
        /\ t.pre = step.pre /\ t.preAttr = step.preAttr /\ t.post = b /\ t.postAttr = a
    BY <2>1, <2>2
  <2> QED BY <2>3 DEF step
<1>12. ASSUME NEW x \in Names
       PROVE  (x \in x0 <=> x \in y0) \/ (Marked(u, t.preAttr, x) /\ Marked(u, t.postAttr, x))
  <2>1. CASE \A c \in DOMAIN nm : nm[c] # x
    <3>1. ~Owes(s, x, L)
      BY <1>1, <2>1, OwesNone
    <3>2. ~Owes(u, x, L)
      BY <1>1, <2>1, OwesNone
    <3> QED BY <1>9, <3>1, <3>2
  <2>2. ASSUME NEW c \in DOMAIN nm, nm[c] = x
        PROVE  (x \in x0 <=> x \in y0) \/ (Marked(u, t.preAttr, x) /\ Marked(u, t.postAttr, x))
    <3>1. (Owes(s, nm[c], L) <=> s[c].levels[L].owes)
      BY <1>1, OwesAt
    <3>2. (Owes(u, nm[c], L) <=> u[c].levels[L].owes)
      BY <1>1, OwesAt
    <3>3. CASE u[c].levels[L].owes = s[c].levels[L].owes
      BY <1>9, <2>2, <3>1, <3>2, <3>3
    <3>4. CASE Noted(s, w.step, c)
      <4>1. PICK d \in t.preAttr : d.id = Identity(s, c, L)
        BY <1>11, <3>4 DEF Noted
      <4>2. Marked(u, t.preAttr, nm[c])
        BY <1>1, <1>3, <4>1, NotedMarks
      <4>3. PICK e \in t.postAttr : e.id = Identity(u, c, L)
        BY <1>10, <1>11
      <4>4. Alike(u, u)
        BY DEF Alike
      <4>5. Marked(u, t.postAttr, nm[c])
        BY <1>1, <4>3, <4>4, NotedMarks
      <4> QED BY <2>2, <4>2, <4>5
    <3> QED BY <1>3, <3>3, <3>4
  <2> QED BY <2>1, <2>2
<1>13. Linked(u, t, x0, y0)
  <2>1. AttrsSay(u, t.preAttr, x0) /\ AttrsSay(u, t.postAttr, y0)
    BY <1>7, <1>8, <1>11
  <2>2. t.pre = ("co" \in x0) /\ t.post = ("co" \in y0)
    <3>1. t.pre = lv.owes /\ t.post = lw.owes
      BY <1>2, <1>11 DEF lw
    <3>2. ("co" \in x0) = lv.owes
      BY <1>1, <1>9
    <3>3. ("co" \in y0) = lw.owes
      BY <1>1, <1>9
    <3> QED BY <3>1, <3>2, <3>3
  <2> QED BY <1>12, <2>1, <2>2 DEF Linked
<1>14. FinersSay(u, t.finer, Later(u)) /\ t.pos = st.pos /\ t.mask = st.mask
  BY <1>2, <1>5, <1>11
<1>15. t.blocks # {} \/ y0 = x0
  BY <1>6, <1>11 DEF x0, y0
<1> QED BY <1>5, <1>13, <1>14, <1>15 DEF s, u, lw, x0, y0

-----------------------------------------------------------------------------
(* The end of a stroke.                                                    *)

\* The step st the stroke ends in, if it is not empty.
EndsIn(st) ==
  LET k == steps[Len(steps)] IN
    /\ Alike(live.store, live'.store) /\ Later(live'.store) = Later(live.store)
    /\ Linked(live'.store, st, Owing(live), Owing(live'))
    /\ FinersSay(live'.store, st.finer, Later(live'.store))
    /\ st.pos = k.pos /\ st.mask = k.mask /\ (st.blocks # {} \/ Owing(live') = Owing(live))
    /\ IF Empty(st) THEN steps' = Front(steps) /\ past' = Front(past) /\ cursor' = cursor
       ELSE steps' = Append(Front(steps), st) /\ cursor' = Len(steps) /\ past' = past

LEMMA EndStrokeEnds ==
  ASSUME Inv, NEW ds, NEW os, Remembered(ds, os), EndStroke, ~SeekAcross
  PROVE  \E st : EndsIn(st)
<1> DEFINE N == Len(steps)
           n == used.toks
           k == steps[N]
           w0 == [live |-> live, step |-> k]
           w == Fold(w0)
           b == w.live.owes
           t == Closed(w.step, b, w.live.store)
           vs == IF "mask" \in stroke.wrote THEN stroke.touched ELSE {}
           d == ds[N]
<1>1. open /\ open' = FALSE
  BY DEF EndStroke
<1>2. /\ Begun(os[N], live, k, stroke) /\ steps \in Seq(Step(n)) /\ N \in Nat \ {0} /\ Valued(ds)
  BY <1>1, OpenRecalls
<1>3. Last(steps) = k /\ k \in Step(n)
  BY <1>2 DEF Last
<1>4. /\ live' = w.live
      /\ IF Empty(t) THEN steps' = Front(steps) /\ past' = Front(past) /\ cursor' = cursor
         ELSE steps' = Append(Front(steps), t) /\ cursor' = N /\ past' = past
  BY <1>3 DEF EndStroke, Closed
<1>5. PICK nm : /\ Named(nm) /\ live \in Lives(nm, n) /\ live.store \in Store(nm, n) /\ n \in Nat
                /\ (open /\ "mask" \in stroke.wrote => \E c \in DOMAIN nm : nm[c] = "mask")
  BY StoredAs
<1>6. stroke \in Strokes
  BY <1>1 DEF Inv, Logged
<1>7. /\ Chain(ds, live, steps, N, FALSE) /\ Coherent(live) /\ SoundStep(k, n)
      /\ Capturing(d, live, k, stroke)
  <2>1. /\ Chain(ds, live, steps, N, FALSE) /\ Coherent(live) /\ \A j \in 1 .. N : SoundStep(steps[j], n)
        /\ Capturing(d, live, k, stroke)
    BY <1>1, <1>2, OpenHas
  <2>2. N \in 1 .. N
    BY <1>2
  <2> QED BY <2>1, <2>2
<1>8. Reading(d) /\ Calm(d) /\ Leads(live.store, k, d, Reads(live))
  <2>1. N \in 1 .. N /\ N \in 1 .. N + 1 /\ N # N + 1 /\ N <= N
    BY <1>2
  <2> QED BY <1>7, <2>1 DEF Chain
<1>9. k.finer = {} /\ Sound(live.store)
  BY <1>7 DEF Capturing, Coherent
<1> DEFINE lv == live
<1>10. Folded(n, d, live, k, vs, {})
  <2>1. /\ lv \in Lives(nm, n) /\ Coherent(lv) /\ Capturing(d, lv, k, stroke) /\ Leads(lv.store, k, d, Reads(lv))
    BY <1>5, <1>7, <1>8
  <2> HIDE DEF lv, n, k, d
  <2>2. Folded(n, d, lv, k, vs, {})
    BY <1>5, <1>7, <1>8, <2>1, FoldStarts
  <2> QED BY <2>2 DEF lv
<1>11. k.pre = live.owes /\ k.preAttr \subseteq DebtsAt(live.store) /\ (stroke.wrote # {} => stroke.touched # {})
  BY <1>2 DEF Begun
<1>12. /\ w0 \in Folding(nm, n) /\ w0.live = live /\ w0.step = k
  BY <1>3, <1>5 DEF Folding
<1>13. Tallied(nm, n, live, k, w0)
  <2>1. w0 = [live |-> live, step |-> k]
    OBVIOUS
  <2> HIDE DEF w0, k, n
  <2> QED BY <1>3, <1>5, <1>9, <1>11, <2>1, TallyStarts
<1>14. w = Fold(w0)
  OBVIOUS
<1> HIDE DEF w0
<1>15. Tallied(nm, n, live, k, w)
  <2>1. Folded(n, d, w0.live, w0.step, vs, {})
    BY Zenon, <1>10, <1>12
  <2> HIDE DEF w, vs, d, n, k
  <2> QED BY <1>1, <1>5, <1>6, <1>8, <1>9, <1>11, <1>12, <1>13, <1>14, <2>1, FoldTallies
<1>16. w \in Folding(nm, n) /\ Alike(live.store, w.live.store)
  BY <1>15 DEF Tallied, Notes
<1> HIDE DEF w
<1>17. b = w.live.owes /\ t = Closed(w.step, b, w.live.store)
  OBVIOUS
<1> HIDE DEF b, t
<1>18. /\ Linked(w.live.store, t, Owing(live), Owing(w.live)) /\ Later(w.live.store) = Later(live.store)
       /\ FinersSay(w.live.store, t.finer, Later(w.live.store))
       /\ t.pos = k.pos /\ t.mask = k.mask /\ (t.blocks # {} \/ Owing(w.live) = Owing(live))
  <2> HIDE DEF k, n
  <2> QED BY <1>5, <1>15, <1>17, TalliedLinks
<1>19. EndsIn(t)
  BY <1>4, <1>16, <1>18 DEF EndsIn
<1> QED BY <1>19

\* What ends, or drops, the last step of a history does to its debts.
Ends(os, lv, sts, N, us, lw, tts, m) ==
  /\ Alike(lv.store, lw.store) /\ Later(lw.store) = Later(lv.store)
  /\ Len(tts) = m /\ \A k \in 1 .. N - 1 : tts[k] = sts[k]
  /\ us \in [1 .. m + 1 -> SUBSET OweNames] /\ us[m + 1] = Owing(lw) /\ \A k \in 1 .. N : us[k] = os[k]
  /\ m = N => Linked(lw.store, tts[N], us[N], us[N + 1]) /\ FinersSay(lw.store, tts[N].finer, Later(lw.store))

LEMMA EndDebts ==
  ASSUME NEW nm, Named(nm), NEW n \in Nat, NEW lv, lv.store \in Store(nm, n), NEW lw,
         NEW os, NEW sts, NEW N \in Nat \ {0}, N = Len(sts), NEW from, NEW to, to = N - 1,
         Debted(os, lv, sts, N, from, to),
         NEW m \in {to, N}, NEW tts, NEW us, Ends(os, lv, sts, N, us, lw, tts, m)
  PROVE  Debted(us, lw, tts, m, from, m)
<1>. /\ Alike(lv.store, lw.store) /\ Later(lw.store) = Later(lv.store)
     /\ Len(tts) = m /\ \A k \in 1 .. to : tts[k] = sts[k]
     /\ us \in [1 .. m + 1 -> SUBSET OweNames] /\ us[m + 1] = Owing(lw) /\ \A k \in 1 .. N : us[k] = os[k]
     /\ m = N => Linked(lw.store, tts[N], us[N], us[N + 1])
                 /\ FinersSay(lw.store, tts[N].finer, Later(lw.store))
  BY DEF Ends
<1>1. \A id : Resolve(lw.store, id) = Resolve(lv.store, id)
  BY AlikeIn
<1>2. to \in Nat /\ to < N /\ \A k \in 1 .. m : k \in 1 .. N /\ (k \in 1 .. to \/ (k = N /\ m = N))
  OBVIOUS
<1>3. ASSUME NEW k \in 1 .. m PROVE FinersSay(lw.store, tts[k].finer, Later(lw.store))
  <2>1. CASE k \in 1 .. to
    <3>1. FinersSay(lv.store, sts[k].finer, Later(lv.store))
      BY <1>2 DEF Debted
    <3>2. tts[k].finer = sts[k].finer
      BY <2>1
    <3> QED BY <1>1, <3>1, <3>2 DEF FinersSay
  <2>2. CASE k = N /\ m = N
    BY <2>2
  <2> QED BY <1>2, <2>1, <2>2
<1>4. ASSUME NEW k \in 1 .. m, from < k PROVE Linked(lw.store, tts[k], us[k], us[k + 1])
  <2>1. CASE k \in 1 .. to
    <3>1. k <= to /\ k \in 1 .. N /\ k + 1 \in 1 .. N
      BY <1>2, <2>1
    <3> DEFINE a == os[k]
               b == os[k + 1]
               st == sts[k]
    <3>2. Linked(lv.store, st, a, b)
      BY <1>4, <3>1 DEF Debted
    <3>3. us[k] = a /\ us[k + 1] = b /\ tts[k] = st
      BY <2>1, <3>1
    <3> HIDE DEF a, b, st
    <3>4. Linked(lw.store, st, a, b)
      BY <3>2, LinkedLike
    <3> QED BY <3>3, <3>4
  <2>2. CASE k = N /\ m = N
    BY <2>2
  <2> QED BY <1>2, <2>1, <2>2
<1> QED BY <1>3, <1>4 DEF Debted

LEMMA FrontHas ==
  ASSUME NEW S, NEW q \in Seq(S), NEW N \in Nat \ {0}, N = Len(q), NEW i, i = N - 1, NEW p, p = Front(q)
  PROVE  p \in Seq(S) /\ Len(p) = i /\ \A k \in 1 .. i : p[k] = q[k]
BY DEF Front

\* Documents told alike below a place make the same halves there.
LEMMA HalvesSame ==
  ASSUME NEW A, NEW B, NEW N \in Nat, NEW low \in 0 .. N, \A k \in 1 .. N : B[k] = A[k], NEW p, NEW q,
         Halves(A, low, N, N, p, q)
  PROVE  Halves(B, low, N, N, p, q)
<1>1. p = Slice(A, low, N - low) /\ q = Slice(A, N + 1, N - N)
  BY DEF Halves
<1>2. PICK h : h = N - low
  OBVIOUS
<1>3. ASSUME NEW k \in 1 .. h PROVE A[low + k] = B[low + k]
  <2>1. low + k \in 1 .. N
    BY <1>2
  <2> QED BY <2>1
<1>4. Slice(A, low, h) = Slice(B, low, h)
  BY <1>3, SliceSame
<1>5. N - N = 0 /\ N + 1 \in Nat
  OBVIOUS
<1>6. Slice(A, N + 1, 0) = Slice(B, N + 1, 0)
  BY <1>5, SliceNone
<1> QED BY <1>1, <1>2, <1>4, <1>5, <1>6 DEF Halves

\* And one place down, if nothing lies beyond.
Sheds(B, low, i, p, q, x) == Halves(B, low, i, i, Front(p), q) /\ p # <<>> /\ Last(p) = x
LEMMA HalvesDrop ==
  ASSUME NEW A, NEW B, NEW N \in Nat \ {0}, NEW i, i = N - 1, NEW low \in 0 .. i,
         \A k \in 1 .. N : B[k] = A[k], NEW p, NEW q, Halves(A, low, N, N, p, q)
  PROVE  Sheds(B, low, i, p, q, A[N])
<1> DEFINE n == N - low
           m == i - low
<1>1. n \in Nat \ {0} /\ m = n - 1 /\ low + n = N /\ m \in Nat /\ i - i = 0 /\ N - N = 0 /\ i + 1 = N
      /\ i \in Nat
  OBVIOUS
<1>2. p = Slice(A, low, n) /\ q = Slice(A, N + 1, N - N)
  BY DEF Halves
<1> HIDE DEF n
<1>3. Shortens(A, low, n, m)
  <2> HIDE DEF m
  <2> QED BY <1>1, SliceFront
<1>4. ASSUME NEW k \in 1 .. m PROVE A[low + k] = B[low + k]
  <2>1. low + k \in 1 .. N
    OBVIOUS
  <2> QED BY <2>1
<1>5. Slice(A, low, m) = Slice(B, low, m)
  <2> HIDE DEF m
  <2> QED BY <1>4, SliceSame
<1> HIDE DEF m
<1>6. Slice(A, N + 1, 0) = <<>> /\ Slice(B, i + 1, 0) = <<>>
  <2>1. N + 1 \in Nat /\ i + 1 \in Nat
    BY <1>1
  <2> QED BY <2>1, SliceNone
<1>7. Front(p) = Slice(B, low, m) /\ p # <<>> /\ Last(p) = A[N]
  BY <1>1, <1>2, <1>3, <1>5 DEF Shortens
<1>8. q = Slice(B, i + 1, i - i)
  BY <1>1, <1>2, <1>6
<1> QED BY <1>7, <1>8 DEF Halves, Sheds, m

\* A stroke that has left something closes its step.
LEMMA EndKeeps ==
  ASSUME Inv, Inv', NEW ds, NEW os, Remembered(ds, os), EndStroke, ~SeekAcross,
         NEW es, Valued(es)', \A k \in 1 .. Len(steps) : es[k] = ds[k],
         NEW st, EndsIn(st), ~Empty(st)
  PROVE  Recounted' /\ History!Close
<1> DEFINE N == Len(steps)
           F == Later(live.store)
           A == Tale(ds, os, F)
           fr == Front(steps)
<1>1. open /\ open' = FALSE /\ floor' = floor /\ future' = future
  BY DEF EndStroke
<1>2. /\ Debted(os, live, steps, N, floor, cursor) /\ Begun(os[N], live, steps[N], stroke)
      /\ Halves(A, floor, N, N, past, future)
      /\ steps \in Seq(Step(used.toks)) /\ N \in Nat \ {0} /\ cursor = N - 1
      /\ floor \in 0 .. cursor /\ open = TRUE /\ Valued(ds)
  BY <1>1, OpenRecalls
<1>3. /\ Alike(live.store, live'.store) /\ Later(live'.store) = F
      /\ Linked(live'.store, st, Owing(live), Owing(live'))
      /\ FinersSay(live'.store, st.finer, Later(live'.store))
      /\ steps' = Append(fr, st) /\ cursor' = N /\ past' = past
  BY DEF EndsIn
<1>4. /\ fr \in Seq(Step(used.toks)) /\ Len(fr) = N - 1 /\ \A k \in 1 .. N - 1 : fr[k] = steps[k]
  BY <1>2, FrontHas
<1>5. /\ Len(steps') = N /\ steps'[N] = st /\ \A k \in 1 .. N - 1 : steps'[k] = steps[k]
  <2> HIDE DEF fr
  <2> QED BY <1>2, <1>3, <1>4
<1> HIDE DEF fr
<1>6. os \in [1 .. N + 1 -> SUBSET OweNames] /\ os[N] = Owing(live) /\ os[N + 1] = Owing(live)
  BY <1>2 DEF Debted, Begun
<1>7. DOMAIN ds = 1 .. N + 1 /\ DOMAIN es = 1 .. N + 1
  <2>1. DOMAIN ds = 1 .. N + 1
    BY <1>1, <1>2, OpenHas DEF Chain
  <2>2. Chain(es, live', steps', Top', (~open)')
    BY DEF Valued
  <2> QED BY <1>5, <2>1, <2>2 DEF Chain
<1>8. PICK us : us = [k \in 1 .. N + 1 |-> IF k = N + 1 THEN Owing(live') ELSE os[k]]
  OBVIOUS
<1>9. /\ us \in [1 .. N + 1 -> SUBSET OweNames] /\ us[N + 1] = Owing(live')
      /\ \A k \in 1 .. N : us[k] = os[k]
  <2>1. Owing(live') \in SUBSET OweNames
    BY DEF Owing
  <2>2. \A k \in 1 .. N : us[k] = os[k] /\ k \in 1 .. N + 1 /\ k # N + 1
    BY <1>2, <1>8
  <2>3. N + 1 \in 1 .. N + 1
    BY <1>2
  <2>4. \A k \in 1 .. N + 1 : us[k] \in SUBSET OweNames
    BY <1>6, <1>8, <2>1
  <2> QED BY <1>8, <2>2, <2>3, <2>4
<1>10. Debted(us, live', steps', N, floor, N)
  <2>1. PICK nm : Named(nm) /\ live.store \in Store(nm, used.toks) /\ used.toks \in Nat
    BY StoredAs
  <2> HIDE DEF N
  <2>2. N \in Nat \ {0} /\ N = Len(steps) /\ cursor = N - 1 /\ N \in {cursor, N} /\ N \in 1 .. N
    BY <1>2 DEF N
  <2>3. /\ Linked(live'.store, steps'[N], us[N], us[N + 1])
        /\ FinersSay(live'.store, steps'[N].finer, Later(live'.store))
    BY <1>3, <1>5, <1>6, <1>9, <2>2
  <2>4. Ends(os, live, steps, N, us, live', steps', N)
    BY <1>3, <1>5, <1>9, <2>3 DEF Ends, F
  <2> QED BY <1>2, <2>1, <2>2, <2>4, EndDebts
<1>11. PICK B : B = Tale(es, us, F)
  OBVIOUS
<1>12. \A k \in 1 .. N : B[k] = A[k]
  <2> TAKE k \in 1 .. N
  <2>1. k \in 1 .. N + 1
    BY <1>2
  <2>2. B[k] = DocAt(es[k], us[k], F) /\ A[k] = DocAt(ds[k], os[k], F)
    BY <1>7, <1>11, <2>1 DEF Tale
  <2> QED BY <1>9, <2>2
<1>13. Halves(B, floor, N, N, past, future)
  <2> HIDE DEF A, N
  <2>1. N \in Nat /\ floor \in 0 .. N
    BY <1>2
  <2> QED BY <1>2, <1>12, <2>1, HalvesSame
<1>14. Remembered(es, us)'
  <2>1. Debted(us, live', steps', cursor', floor', Len(steps')) /\ open' = FALSE
    BY <1>1, <1>3, <1>5, <1>10
  <2>2. Halves(Tale(es, us, Later(live'.store)), floor', cursor', Len(steps'), past', future')
    BY <1>1, <1>3, <1>5, <1>11, <1>13
  <2> QED BY <2>1, <2>2, ClosedTells
<1>15. History!Close
  <2>1. Doc(live)' \in [DocNames -> Contents]
    BY DocAfter, DocNext
  <2> QED BY <1>1, <1>3, <2>1 DEF History!Close
<1> QED BY <1>14, <1>15 DEF Recounted

\* One that has not drops it, and is back where it began.
LEMMA EndDrops ==
  ASSUME Inv, Inv', NEW ds, NEW os, Remembered(ds, os), EndStroke, ~SeekAcross,
         NEW es, Valued(es)', \A k \in 1 .. Len(steps) : es[k] = ds[k],
         NEW st, EndsIn(st), Empty(st)
  PROVE  Recounted' /\ History!Abandon
<1> DEFINE N == Len(steps)
           F == Later(live.store)
           A == Tale(ds, os, F)
           fr == Front(steps)
           step == steps[N]
<1>1. open /\ open' = FALSE /\ floor' = floor /\ future' = future
  BY DEF EndStroke
<1>2. /\ Debted(os, live, steps, N, floor, cursor) /\ Begun(os[N], live, steps[N], stroke)
      /\ Halves(A, floor, N, N, past, future)
      /\ steps \in Seq(Step(used.toks)) /\ N \in Nat \ {0} /\ cursor = N - 1
      /\ floor \in 0 .. cursor /\ open = TRUE /\ Valued(ds)
  BY <1>1, OpenRecalls
<1>3. /\ Alike(live.store, live'.store) /\ Later(live'.store) = F
      /\ st.pos = step.pos /\ st.mask = step.mask /\ (st.blocks # {} \/ Owing(live') = Owing(live))
      /\ steps' = fr /\ cursor' = cursor /\ past' = Front(past)
  BY DEF EndsIn
<1>4. /\ fr \in Seq(Step(used.toks)) /\ Len(fr) = N - 1 /\ \A k \in 1 .. N - 1 : fr[k] = steps[k]
  BY <1>2, FrontHas
<1> HIDE DEF fr
<1>5. /\ Len(steps') = cursor /\ \A k \in 1 .. cursor : steps'[k] = steps[k]
  BY <1>2, <1>3, <1>4
<1>6. os \in [1 .. N + 1 -> SUBSET OweNames] /\ os[N] = Owing(live) /\ os[N + 1] = Owing(live)
  BY <1>2 DEF Debted, Begun
<1>7. /\ Chain(ds, live, steps, N, FALSE) /\ Coherent(live)
      /\ \A k \in 1 .. N : SoundStep(steps[k], used.toks)
      /\ Capturing(ds[N], live, steps[N], stroke)
  BY <1>1, <1>2, OpenHas
<1>8. DOMAIN ds = 1 .. N + 1 /\ DOMAIN es = 1 .. N
  <2>1. DOMAIN ds = 1 .. N + 1
    BY <1>7 DEF Chain
  <2>2. Chain(es, live', steps', Top', (~open)')
    BY DEF Valued
  <2>3. DOMAIN es = 1 .. cursor + 1
    BY <1>5, <2>2 DEF Chain
  <2> QED BY <1>2, <2>1, <2>3
<1>9. ds[N] = Reads(live)
  <2>1. Empty(step) /\ SoundStep(step, used.toks) /\ N \in 1 .. N /\ N \in 1 .. N + 1 /\ N + 1 \in 1 .. N + 1
        /\ N <= N
    BY <1>2, <1>3, <1>7 DEF Empty, Capturing
  <2>2. Reading(ds[N]) /\ Reading(ds[N + 1]) /\ ds[N + 1] = Reads(live)
        /\ Leads(live.store, step, ds[N], ds[N + 1])
    BY <1>7, <2>1 DEF Chain
  <2> HIDE DEF step, N
  <2>3. ds[N] = ds[N + 1]
    BY <2>1, <2>2, EmptyLeads
  <2> QED BY <2>2, <2>3
<1>10. Owing(live') = Owing(live)
  BY <1>3 DEF Empty
<1>11. PICK us : us = [k \in 1 .. N |-> os[k]]
  OBVIOUS
<1>12. /\ us \in [1 .. cursor + 1 -> SUBSET OweNames] /\ us[cursor + 1] = Owing(live')
       /\ \A k \in 1 .. N : us[k] = os[k]
  <2>1. cursor + 1 = N /\ N \in 1 .. N /\ \A k \in 1 .. N : k \in 1 .. N + 1
    BY <1>2
  <2>2. \A k \in 1 .. N : us[k] = os[k] /\ us[k] \in SUBSET OweNames
    BY <1>6, <1>11, <2>1
  <2>3. us \in [1 .. N -> SUBSET OweNames]
    BY <1>11, <2>2
  <2> QED BY <1>6, <1>10, <2>1, <2>2, <2>3
<1>13. Debted(us, live', steps', cursor, floor, cursor)
  <2>1. PICK nm : Named(nm) /\ live.store \in Store(nm, used.toks) /\ used.toks \in Nat
    BY StoredAs
  <2> HIDE DEF N
  <2>2. N \in Nat \ {0} /\ N = Len(steps) /\ cursor = N - 1 /\ cursor \in {cursor, N} /\ cursor # N
    BY <1>2 DEF N
  <2>3. Ends(os, live, steps, N, us, live', steps', cursor)
    BY <1>3, <1>5, <1>12, <2>2 DEF Ends, F
  <2> QED BY <1>2, <2>1, <2>2, <2>3, EndDebts
<1>14. PICK B : B = Tale(es, us, F)
  OBVIOUS
<1>15. \A k \in 1 .. N : B[k] = A[k] /\ A[k] = DocAt(ds[k], os[k], F)
  <2> TAKE k \in 1 .. N
  <2>1. k \in 1 .. N + 1
    BY <1>2
  <2>2. B[k] = DocAt(es[k], us[k], F) /\ A[k] = DocAt(ds[k], os[k], F)
    BY <1>8, <1>14, <2>1 DEF Tale
  <2> QED BY <1>12, <2>2
<1>16. Halves(B, floor, cursor, cursor, Front(past), future) /\ past # <<>> /\ Last(past) = A[N]
  <2> HIDE DEF A, N
  <2>1. N \in Nat \ {0} /\ cursor = N - 1 /\ floor \in 0 .. cursor
    BY <1>2
  <2>2. \A k \in 1 .. N : B[k] = A[k]
    BY <1>15
  <2>3. Sheds(B, floor, cursor, past, future, A[N])
    BY <1>2, <2>1, <2>2, HalvesDrop
  <2> QED BY <2>3 DEF Sheds
<1>17. Remembered(es, us)'
  <2>1. Debted(us, live', steps', cursor', floor', Len(steps')) /\ open' = FALSE
    BY <1>1, <1>3, <1>5, <1>13
  <2>2. Halves(Tale(es, us, Later(live'.store)), floor', cursor', Len(steps'), past', future')
    BY <1>1, <1>3, <1>5, <1>14, <1>16
  <2> QED BY <2>1, <2>2, ClosedTells
<1>18. Doc(live) = A[N] /\ Doc(live') = A[N]
  <2>1. PICK nm : Named(nm) /\ live \in Lives(nm, used.toks) /\ used.toks \in Nat
    BY StoredAs
  <2>2. N \in 1 .. N /\ A[N] = DocAt(ds[N], os[N], F)
    BY <1>2, <1>15
  <2>3. Doc(live) = DocAt(Reads(live), Owing(live), F)
    BY <1>7, <2>1, DocHere
  <2>4. Doc(live') = DocAt(Reads(live'), Owing(live'), F)
    BY <1>3, DocAfter
  <2>5. Reads(live') = es[N]
    <3>1. Chain(es, live', steps', Top', (~open)')
      BY DEF Valued
    <3>2. Top' = cursor' /\ cursor' + 1 = N
      BY <1>1, <1>2, <1>3 DEF Top
    <3> QED BY <3>1, <3>2 DEF Chain
  <2> HIDE DEF A, N, F
  <2>6. es[N] = ds[N] /\ os[N] = Owing(live)
    BY <1>6, <2>2 DEF N
  <2>7. Doc(live) = A[N]
    BY <1>9, <2>2, <2>3, <2>6
  <2>8. Doc(live') = A[N]
    BY <1>9, <1>10, <2>2, <2>4, <2>5, <2>6
  <2> QED BY <2>7, <2>8
<1>19. History!Abandon
  <2>1. Doc(live)' = Doc(live) /\ Doc(live) = Last(past)
    BY <1>16, <1>18, DocNext
  <2> QED BY <1>1, <1>3, <1>16, <2>1, HistoryEnds DEF History!Abandon
<1> QED BY <1>17, <1>19 DEF Recounted

LEMMA EndStrokeTells ==
  ASSUME Inv, Inv', NEW ds, NEW os, Remembered(ds, os), EndStroke, ~SeekAcross
  PROVE  Recounted' /\ (History!Close \/ History!Abandon)
<1>1. PICK st : EndsIn(st)
  BY EndStrokeEnds
<1>2. Valued(ds)
  BY DEF Remembered
<1>3. PICK es : Valued(es)' /\ \A k \in 1 .. Len(steps) : es[k] = ds[k]
  BY <1>2, EndStrokeValues
<1>4. CASE Empty(st)
  BY <1>1, <1>3, <1>4, EndDrops
<1>5. CASE ~Empty(st)
  BY <1>1, <1>3, <1>5, EndKeeps
<1> QED BY <1>4, <1>5

-----------------------------------------------------------------------------
(* The log is a history of documents.                                      *)

LEMMA InitTells == Init => Recounted /\ History!Init
<1> SUFFICES ASSUME Init PROVE Recounted /\ History!Init
  OBVIOUS
<1>1. PICK es : es = Alone(live)
  OBVIOUS
<1>2. Valued(es) /\ Inv
  BY <1>1, InitialValues, Initially
<1>3. PICK us : us = Quits(live)
  OBVIOUS
<1>4. steps = <<>> /\ cursor = 0 /\ open = FALSE /\ floor = 0 /\ past = <<>> /\ future = <<>>
  BY DEF Init
<1>5. Len(steps) = 0 /\ Top = 0
  BY <1>4 DEF Top
<1>6. Debted(us, live, steps, Top, floor, Len(steps))
  <2>1. us \in [1 .. 1 -> SUBSET OweNames] /\ us[1] = Owing(live)
    BY <1>3 DEF Quits, Owing
  <2> QED BY <1>4, <1>5, <2>1 DEF Debted
<1>7. Owed(us)
  BY <1>4, <1>6 DEF Owed
<1>8. Told(es, us)
  <2>1. PICK A : A = Tale(es, us, Later(live.store))
    OBVIOUS
  <2>2. Slice(A, 0, 0) = <<>> /\ Slice(A, 1, 0) = <<>>
    BY SliceNone
  <2> QED BY <1>4, <1>5, <2>1, <2>2 DEF Told, Halves
<1>9. Doc(live) \in [DocNames -> Contents]
  <2>1. PICK nm : Named(nm) /\ live \in Lives(nm, used.toks) /\ used.toks \in Nat
    BY <1>2, StoredAs
  <2> QED BY <1>2, <2>1, DocHere DEF Valued
<1> QED BY <1>2, <1>4, <1>7, <1>8, <1>9 DEF Recounted, Remembered, History!Init

LEMMA StepTells ==
  ASSUME ~SeekAcross
  PROVE  Inv /\ Inv' /\ Recounted /\ [Next]_vars => Recounted' /\ [History!GridNext]_(History!vars)
<1> SUFFICES ASSUME Inv, Inv', Recounted, [Next]_vars
             PROVE  Recounted' /\ (History!GridNext \/ UNCHANGED History!vars)
  OBVIOUS
<1>1. PICK ds, os : Remembered(ds, os)
  BY DEF Recounted
<1>2. CASE BeginStroke
  BY <1>1, <1>2, BeginStrokeTells DEF History!GridNext, History!Next
<1>3. CASE Dab
  BY <1>1, <1>3, DabTells DEF History!GridNext, History!Next
<1>4. CASE EndStroke
  BY <1>1, <1>4, EndStrokeTells DEF History!GridNext
<1>5. CASE Undo
  BY <1>1, <1>5, UndoTells DEF History!GridNext, History!Next
<1>6. CASE Redo
  BY <1>1, <1>6, RedoTells DEF History!GridNext, History!Next
<1>7. CASE DropOldest
  BY <1>1, <1>7, DropOldestTells DEF History!GridNext, History!Next
<1>8. CASE Sync
  <2>1. Valued(ds)
    BY <1>1 DEF Remembered
  <2> QED BY <1>8, <2>1, SyncTells DEF History!GridNext
<1>9. CASE RemoveLayer
  BY <1>1, <1>9, RemoveLayerTells DEF History!GridNext
<1>10. CASE EditMask
  BY <1>1, <1>10, EditMaskTells DEF History!GridNext
<1>11. CASE Switch
  BY <1>1, <1>11, SwitchTells DEF History!GridNext
<1>12. CASE UNCHANGED vars
  BY <1>1, <1>12, StutterTells
<1> QED BY <1>2, <1>3, <1>4, <1>5, <1>6, <1>7, <1>8, <1>9, <1>10, <1>11, <1>12 DEF Next

(* The stroke log is a history of documents wherever undo and redo stay     *)
(* clear of what an edit outside the log wrote: undo and redo bring back,   *)
(* to the bit, positions, masks of this and finer levels, painted layers    *)
(* and debts as they were before and after each stroke, whatever was        *)
(* evicted, removed and made again in between (grid_stroke_log.h:3).        *)
THEOREM HistoryHolds ==
  ASSUME ~SeekAcross
  PROVE  Spec => HistorySpec
<1>1. Init => Recounted /\ History!Init
  BY InitTells
<1>2. Inv /\ Inv' /\ Recounted /\ [Next]_vars => Recounted' /\ [History!GridNext]_(History!vars)
  BY StepTells
<1> QED BY <1>1, <1>2, Invariance, PTL DEF Spec, HistorySpec, History!GridSpec

-----------------------------------------------------------------------------
(* What a level owes and what it last handed down.                         *)

\* The channels that owe what they do not hand down, and a store's other ones.
Keepers == {"mask"} \cup {n \in DOMAIN Layers : Layers[n].persist}
Kinds(s) ==
  \A c \in DOMAIN s : (s[c].rule = "authored" /\ s[c].persist) <=> s[c].name \in Keepers

\* Levels are as they were when they were handed down, unless they owe.
HonestAt(s, g, l) == \A n \in Keepers : Owes(s, n, l) \/ ValueAt(s, n, l) = g[n][l]

\* A document says the same of the session's level.
Claims(D, g) ==
  \A n \in Keepers : D[n][2][L] \/ D[n][1] = IF n = "mask" THEN MaskFrom(g[n][L]) ELSE g[n][L]
AllClaim(p, g) == \A k \in DOMAIN p : Claims(p[k], g)

\* What is handed down is a value of its level.
Fits(v, l) == v \in [Sites -> Sample(l)] /\ Even(v)
Fit(g) ==
  /\ DOMAIN g = Names
  /\ \A n \in Names : DOMAIN g[n] = Levels /\ \A l \in Levels : Fits(g[n][l], l)

Trusted ==
  /\ Kinds(live.store) /\ Fit(given)
  /\ \A l \in 2 .. Depth : HonestAt(live.store, given, l)
  /\ L >= 2 => AllClaim(past, given) /\ AllClaim(future, given)

LEMMA KeepersAre ==
  /\ Keepers \subseteq Names /\ Keepers \subseteq DocNames /\ "mask" \in Keepers
  /\ "co" \notin Keepers /\ "disp" \notin Keepers
  /\ \A n \in Keepers : n # "mask" => n \in DOMAIN Layers /\ Layers[n].persist
BY LogAssumption DEF Keepers, Names, DocNames

\* A level shows what it did and owes what it did.
Unmoved(s, u, n, l) == ValueAt(u, n, l) = ValueAt(s, n, l) /\ (Owes(u, n, l) <=> Owes(s, n, l))
SameLevel(a, b) == b.val = a.val /\ (b.held = "none" <=> a.held = "none") /\ b.owes = a.owes

LEMMA UnmovedBy ==
  ASSUME NEW nm, Named(nm), NEW n \in Nat, NEW s \in Store(nm, n), NEW m \in Nat, NEW u \in Store(nm, m),
         NEW x, NEW l \in Levels,
         \A c \in DOMAIN nm : nm[c] = x => SameLevel(s[c].levels[l], u[c].levels[l])
  PROVE  Unmoved(s, u, x, l)
<1>1. CASE \A c \in DOMAIN nm : nm[c] # x
  <2>1. FindChannel(s, x) = 0 /\ FindChannel(u, x) = 0
    BY <1>1, FindIs
  <2> QED BY <2>1 DEF Unmoved, ValueAt, Owes
<1>2. ASSUME NEW c \in DOMAIN nm, nm[c] = x PROVE Unmoved(s, u, x, l)
  <2>1. FindChannel(s, x) = c /\ FindChannel(u, x) = c /\ c # 0
    BY <1>2, FindAt
  <2>2. SameLevel(s[c].levels[l], u[c].levels[l])
    BY <1>2
  <2>3. ValueAt(u, x, l) = ValueAt(s, x, l)
    BY <2>1, <2>2 DEF ValueAt, Allocated, SameLevel
  <2>4. s[c].levels[l].owes \in BOOLEAN /\ u[c].levels[l].owes \in BOOLEAN
    BY <1>2, StoreLevel
  <2> QED BY <2>1, <2>2, <2>3, <2>4 DEF Unmoved, Owes, SameLevel
<1> QED BY <1>1, <1>2

\* Values a store shows.
LEMMA ShownFits ==
  ASSUME NEW nm, Named(nm), NEW n \in Nat, NEW s \in Store(nm, n), Seamless(s), NEW x \in Names, NEW l \in Levels
  PROVE  Fits(ValueAt(s, x, l), l) /\ Fits(Seed(x, l), l)
<1>1. ValueAt(s, x, l) \in [Sites -> Sample(l)]
  BY ValueIs
<1>2. l \in Nat
  BY LogAssumption DEF Levels
<1>3. Seed(x, l) \in [Sites -> Sample(l)]
  BY <1>2, SeedIs
<1>4. Even(Seed(x, l))
  <2>1. CASE x \in DOMAIN Layers
    BY <2>1, BlankIs DEF Even
  <2>2. CASE x \notin DOMAIN Layers
    BY <2>2, BlankIs DEF Even, Seed
  <2> QED BY <2>1, <2>2
<1>5. Even(ValueAt(s, x, l))
  <2>1. CASE ValueAt(s, x, l) = Seed(x, l)
    BY <1>4, <2>1
  <2>2. ASSUME ValueAt(s, x, l) # Seed(x, l) PROVE Even(ValueAt(s, x, l))
    <3>1. FindChannel(s, x) # 0 /\ ValueAt(s, x, l) = s[FindChannel(s, x)].levels[l].val
      BY <2>2 DEF ValueAt
    <3>2. FindChannel(s, x) \in DOMAIN nm /\ DOMAIN s = DOMAIN nm
      BY <3>1, FindIs, StoreForm
    <3> QED BY <3>1, <3>2 DEF Even, Seamless
  <2> QED BY <2>1, <2>2
<1> QED BY <1>1, <1>3, <1>4, <1>5 DEF Fits

\* A mask is known by its vertices.
LEMMA MaskFromOne ==
  ASSUME NEW l, NEW a, Fits(a, l), NEW b, Fits(b, l), MaskFrom(a) = MaskFrom(b)
  PROVE  a = b
<1>1. SUFFICES ASSUME NEW x \in Sites PROVE a[x] = b[x]
  BY DEF Fits
<1>2. PICK v : v = x[2]
  OBVIOUS
<1>3. v \in Verts
  BY <1>2 DEF Sites
<1>4. PICK y : y = <<Canon[v], v>>
  OBVIOUS
<1>5. y \in Sites /\ y[2] = x[2]
  BY <1>2, <1>3, <1>4, LogAssumption DEF Sites
<1>6. a[x] = a[y] /\ b[x] = b[y]
  BY <1>5 DEF Fits, Even
<1>7. MaskFrom(a)[v] = a[y] /\ MaskFrom(b)[v] = b[y]
  BY <1>3, <1>4 DEF MaskFrom
<1> QED BY <1>6, <1>7

LEMMA ClaimsAre ==
  ASSUME NEW nm, Named(nm), NEW n \in Nat, NEW lv \in Lives(nm, n), Seamless(lv.store),
         lv.mask[L] = MaskOf(lv.store, L), NEW g, Fit(g)
  PROVE  Claims(Doc(lv), g) <=> HonestAt(lv.store, g, L)
<1>1. lv.store \in Store(nm, n) /\ L \in Levels /\ L \in L .. Depth
  BY LogAssumption DEF Lives, Levels
<1> DEFINE D == Doc(lv)
           Owed1(x) == D[x][2][L]
           Told1(x) == D[x][1] = IF x = "mask" THEN MaskFrom(g[x][L]) ELSE g[x][L]
<1>2. ASSUME NEW x \in Keepers PROVE Owed1(x) = Owes(lv.store, x, L)
  <2>1. x \in DocNames /\ x # "co"
    BY KeepersAre
  <2>2. D[x] = Content(lv, x)
    BY <2>1 DEF Doc
  <2>3. D[x][2] = [l \in L .. Depth |-> Owes(lv.store, x, l)]
    <3>1. PICK o : o = [l \in L .. Depth |-> Owes(lv.store, x, l)]
      OBVIOUS
    <3>2. CASE x = "mask"
      <4>1. PICK p : p = [l \in L + 1 .. Depth |-> ValueAt(lv.store, x, l)]
        OBVIOUS
      <4>2. Content(lv, x) = <<lv.mask[L], o, p>>
        BY <2>1, <3>1, <3>2, <4>1, ContentIs
      <4> QED BY <2>2, <3>1, <4>2
    <3>3. CASE x # "mask"
      <4>1. Content(lv, x) = <<ValueAt(lv.store, x, L), o>>
        BY <2>1, <3>1, <3>3, ContentIs
      <4> QED BY <2>2, <3>1, <4>1
    <3> QED BY <3>2, <3>3
  <2> QED BY <1>1, <2>3
<1>3. ASSUME NEW x \in Keepers PROVE Told1(x) <=> ValueAt(lv.store, x, L) = g[x][L]
  <2>1. x \in DocNames /\ x # "co" /\ x \in Names
    BY KeepersAre
  <2>2. D[x] = Content(lv, x)
    BY <2>1 DEF Doc
  <2>3. CASE x = "mask"
    <3>1. D[x][1] = MaskOf(lv.store, L)
      BY <2>1, <2>2, <2>3, ContentIs
    <3>2. MaskOf(lv.store, L) = MaskFrom(ValueAt(lv.store, x, L))
      BY <2>3 DEF MaskOf, MaskFrom
    <3>3. Fits(ValueAt(lv.store, x, L), L)
      BY <1>1, <2>1, ShownFits
    <3>4. Fits(g[x][L], L)
      BY <1>1, <2>1 DEF Fit
    <3>5. MaskFrom(ValueAt(lv.store, x, L)) = MaskFrom(g[x][L]) <=> ValueAt(lv.store, x, L) = g[x][L]
      BY <3>3, <3>4, MaskFromOne
    <3> QED BY <2>3, <3>1, <3>2, <3>5
  <2>4. CASE x # "mask"
    <3>1. D[x][1] = ValueAt(lv.store, x, L)
      BY <2>1, <2>2, <2>4, ContentIs
    <3> QED BY <2>4, <3>1
  <2> QED BY <2>3, <2>4
<1>4. Claims(D, g) <=> \A x \in Keepers : Owed1(x) \/ Told1(x)
  BY DEF Claims
<1> HIDE DEF D, Owed1, Told1
<1>5. (\A x \in Keepers : Owed1(x) \/ Told1(x))
        <=> \A x \in Keepers : Owes(lv.store, x, L) \/ ValueAt(lv.store, x, L) = g[x][L]
  BY <1>2, <1>3
<1> QED BY <1>4, <1>5 DEF HonestAt, D

\* The document of a state between strokes.
LEMMA ClaimsClosed ==
  ASSUME NEW nm, Named(nm), NEW n \in Nat, NEW lv \in Lives(nm, n), NEW ds, NEW sts, NEW top, NEW m \in Nat, m = Len(sts),
         Chain(ds, lv, sts, top, TRUE), Coherent(lv), NEW g, Fit(g)
  PROVE  Claims(Doc(lv), g) <=> HonestAt(lv.store, g, L)
<1>1. top + 1 \in 1 .. Len(sts) + 1
  BY DEF Chain
<1>2. Calm(Reads(lv))
  BY <1>1 DEF Chain
<1>3. lv.mask[L] = MaskOf(lv.store, L) /\ Seamless(lv.store)
  BY <1>2, CalmMask DEF Coherent
<1> QED BY <1>3, ClaimsAre

LEMMA ClaimsHere ==
  ASSUME Inv, NEW ds, Valued(ds), ~open, Fit(given)
  PROVE  Claims(Doc(live), given) <=> HonestAt(live.store, given, L)
<1>1. PICK nm : Named(nm) /\ live \in Lives(nm, used.toks) /\ used.toks \in Nat
  BY StoredAs
<1>2. Chain(ds, live, steps, cursor, TRUE) /\ Coherent(live)
  BY ClosedHas
<1>3. PICK m : m = Len(steps) /\ m \in Nat
  BY DEF Inv, Logged
<1> QED BY <1>1, <1>2, <1>3, ClaimsClosed

LEMMA ClaimsThere ==
  ASSUME Inv', NEW es, Valued(es)', open' = FALSE, Fit(given')
  PROVE  Claims(Doc(live'), given') <=> HonestAt(live'.store, given', L)
<1>1. PICK nm : Named(nm) /\ live' \in Lives(nm, used'.toks) /\ used'.toks \in Nat
  BY DEF Inv, Stored, Logged, Uses
<1>2. Chain(es, live', steps', cursor', TRUE) /\ Coherent(live')
  BY DEF Valued, Top
<1>3. PICK m : m = Len(steps') /\ m \in Nat
  <2>1. Logged'
    BY DEF Inv
  <2>2. steps' \in Seq(Step(used.toks)')
    BY <2>1 DEF Logged
  <2> QED BY <2>2
<1> QED BY <1>1, <1>2, <1>3, ClaimsClosed

\* What is handed down next is what was, what a level shows, or a seed.
LEMMA FitNext ==
  ASSUME NEW g, Fit(g), NEW h, DOMAIN h = Names, \A x \in Names : DOMAIN h[x] = Levels,
         \A x \in Names : \A l \in Levels : h[x][l] = g[x][l] \/ Fits(h[x][l], l)
  PROVE  Fit(h)
BY DEF Fit

\* Documents that claim the same, along a sequence of them.
LEMMA ClaimsLike ==
  ASSUME NEW g, NEW h, \A n \in Keepers : h[n][L] = g[n][L]
  PROVE  \A p : (\A D : Claims(D, g) => Claims(D, h)) /\ (AllClaim(p, g) => AllClaim(p, h))
BY DEF Claims, AllClaim

LEMMA ListedClaims ==
  ASSUME NEW g, NEW S, NEW p \in Seq(S), AllClaim(p, g)
  PROVE  /\ \A x : Claims(x, g) => AllClaim(Append(p, x), g) /\ AllClaim(<<x>> \o p, g)
         /\ p # <<>> => /\ AllClaim(Front(p), g) /\ Claims(Last(p), g)
                        /\ AllClaim(Tail(p), g) /\ Claims(Head(p), g)
<1>1. ASSUME NEW x, Claims(x, g) PROVE AllClaim(Append(p, x), g) /\ AllClaim(<<x>> \o p, g)
  <2>1. PICK T : T = S \cup {x}
    OBVIOUS
  <2>2. p \in Seq(T) /\ x \in T /\ <<x>> \in Seq(T)
    BY <2>1
  <2>3. PICK N : N = Len(p) /\ N \in Nat
    OBVIOUS
  <2>4. AllClaim(Append(p, x), g)
    BY <1>1, <2>2 DEF AllClaim
  <2>5. PICK q : q = <<x>> \o p
    OBVIOUS
  <2>6. DOMAIN q = 1 .. N + 1 /\ q[1] = x /\ \A k \in 1 .. N : q[k + 1] = p[k]
    BY <2>2, <2>3, <2>5
  <2>7. \A k \in 1 .. N + 1 : k = 1 \/ (k - 1 \in 1 .. N /\ k = (k - 1) + 1)
    BY <2>3
  <2>8. ASSUME NEW k \in 1 .. N + 1 PROVE Claims(q[k], g)
    <3>1. CASE k = 1
      BY <1>1, <2>6, <3>1
    <3>2. CASE k # 1
      <4>1. PICK i : i = k - 1 /\ i \in 1 .. N /\ k = i + 1
        BY <2>3, <2>7, <3>2
      <4>2. q[k] = p[i] /\ i \in DOMAIN p
        BY <2>3, <2>6, <4>1
      <4> QED BY <4>2 DEF AllClaim
    <3> QED BY <3>1, <3>2
  <2>9. AllClaim(q, g)
    BY <2>6, <2>8 DEF AllClaim
  <2> QED BY <2>4, <2>5, <2>9
<1>2. ASSUME p # <<>>
      PROVE  AllClaim(Front(p), g) /\ Claims(Last(p), g) /\ AllClaim(Tail(p), g) /\ Claims(Head(p), g)
  <2>1. PICK N : N = Len(p) /\ N \in Nat \ {0} /\ DOMAIN p = 1 .. N
    BY <1>2
  <2>2. PICK q : q = Front(p)
    OBVIOUS
  <2>3. \A k \in 1 .. N - 1 : q[k] = p[k]
    BY <2>1, <2>2, FrontHas
  <2>4. Len(q) = N - 1 /\ DOMAIN q = 1 .. N - 1
    <3>1. q \in Seq(S) /\ Len(q) = N - 1
      BY <2>1, <2>2, FrontHas
    <3> QED BY <3>1
  <2>5. AllClaim(Front(p), g)
    BY <2>1, <2>2, <2>3, <2>4 DEF AllClaim
  <2>6. Last(p) = p[N] /\ Head(p) = p[1] /\ N \in 1 .. N /\ 1 \in 1 .. N
    BY <2>1 DEF Last
  <2>7. DOMAIN Tail(p) = 1 .. N - 1 /\ \A k \in 1 .. N - 1 : Tail(p)[k] = p[k + 1] /\ k + 1 \in 1 .. N
    BY <1>2, <2>1
  <2> QED BY <2>1, <2>5, <2>6, <2>7 DEF AllClaim
<1> QED BY <1>1, <1>2

LEMMA NoClaims ==
  ASSUME NEW g
  PROVE  AllClaim(<<>>, g)
BY DEF AllClaim

\* The past and the future are sequences.
LEMMA PastsAre ==
  ASSUME Inv, NEW ds, NEW os, Remembered(ds, os), ~SeekAcross
  PROVE  \E S, T : past \in Seq(S) /\ future \in Seq(T)
<1>1. PICK A : A = Tale(ds, os, Later(live.store))
  OBVIOUS
<1>2. Halves(A, floor, Top, Len(steps), past, future)
  BY <1>1 DEF Remembered, Told
<1>3. PICK N : N = Len(steps) /\ N \in Nat /\ cursor \in 0 .. N /\ floor \in Nat /\ floor <= cursor
  BY DEF Inv, Logged
<1>4. Top \in Nat /\ floor <= Top /\ Top <= N
  BY <1>3 DEF Top
<1>5. PICK i, j : i = Top - floor /\ j = N - Top /\ i \in Nat /\ j \in Nat
  BY <1>3, <1>4
<1>6. PICK t : t = Top + 1 /\ t \in Nat
  BY <1>4
<1>7. past = Slice(A, floor, i) /\ future = Slice(A, t, j)
  BY <1>2, <1>3, <1>5, <1>6 DEF Halves
<1>8. PICK S : SliceOf(A, floor, i, S, past)
  BY <1>3, <1>5, <1>7, SliceHas
<1>9. PICK T : SliceOf(A, t, j, T, future)
  BY <1>5, <1>6, <1>7, SliceHas
<1> QED BY <1>8, <1>9 DEF SliceOf

LEMMA InitTrusts ==
  ASSUME Init
  PROVE  Trusted
<1>1. PICK ch : ch = NewChannel("disp", "float", "delta", TRUE, Depth, 1)
  OBVIOUS
<1>2. ch.name = "disp" /\ ch.rule = "delta"
  BY <1>1 DEF NewChannel
<1>3. live.store = <<ch>> /\ past = <<>> /\ future = <<>> /\ given = [n \in Names |-> [l \in Levels |-> Seed(n, l)]]
  <2>1. PICK p, m : live = [store |-> <<ch>>, pos |-> p, owes |-> FALSE, mask |-> m]
    BY <1>1 DEF Init
  <2> QED BY <2>1 DEF Init
<1>4. Kinds(live.store)
  BY <1>2, <1>3, KeepersAre DEF Kinds
<1>5. Fit(given)
  <2>1. \A l \in Levels : l \in Nat
    BY LogAssumption DEF Levels
  <2>2. ASSUME NEW x \in Names, NEW l \in Levels PROVE Fits(Seed(x, l), l)
    <3>1. Seed(x, l) \in [Sites -> Sample(l)]
      BY <2>1, <2>2, SeedIs
    <3>2. CASE x \in DOMAIN Layers
      BY <3>1, <3>2, BlankIs DEF Even, Fits
    <3>3. CASE x \notin DOMAIN Layers
      BY <3>1, <3>3, BlankIs DEF Even, Seed, Fits
    <3> QED BY <3>2, <3>3
  <2> QED BY <1>3, <2>2 DEF Fit
<1>6. ASSUME NEW l \in 2 .. Depth PROVE HonestAt(live.store, given, l)
  <2>1. SUFFICES ASSUME NEW n \in Keepers PROVE ValueAt(live.store, n, l) = given[n][l]
    BY DEF HonestAt
  <2>2. n \in Names /\ n # "disp" /\ l \in Levels
    BY LogAssumption, KeepersAre DEF Levels
  <2>3. FindChannel(live.store, n) = 0
    BY <1>2, <1>3, <2>2 DEF FindChannel
  <2>4. ValueAt(live.store, n, l) = Seed(n, l)
    BY <2>3 DEF ValueAt
  <2> QED BY <1>3, <2>2, <2>4
<1> QED BY <1>3, <1>4, <1>5, <1>6, NoClaims DEF Trusted

\* Steps of the history alone.
LEMMA StillTrusted ==
  ASSUME Trusted, live' = live, given' = given, L >= 2 => AllClaim(past', given) /\ AllClaim(future', given)
  PROVE  Trusted'
BY DEF Trusted, Kinds, Fit, HonestAt, AllClaim, Claims

LEMMA BeginStrokeTrusts ==
  ASSUME Inv, NEW ds, NEW os, Remembered(ds, os), Trusted, BeginStroke, ~SeekAcross
  PROVE  Trusted'
<1>1. /\ ~open /\ past' = Append(IF bound THEN past ELSE <<>>, Doc(live)) /\ future' = <<>>
      /\ live' = live /\ given' = given
  BY DEF BeginStroke
<1>2. PICK S : past \in Seq(S)
  BY PastsAre
<1>3. ASSUME L >= 2 PROVE AllClaim(past', given)
  <2>1. L \in 2 .. Depth
    BY <1>3, LogAssumption
  <2>2. Claims(Doc(live), given)
    BY <1>1, <2>1, ClaimsHere DEF Trusted, Remembered
  <2>3. PICK q : q = IF bound THEN past ELSE <<>>
    OBVIOUS
  <2>4. q \in Seq(S) /\ AllClaim(q, given)
    BY <1>2, <1>3, <2>3, NoClaims DEF Trusted
  <2>5. AllClaim(Append(q, Doc(live)), given)
    BY <2>2, <2>4, ListedClaims
  <2> QED BY <1>1, <2>3, <2>5
<1> QED BY <1>1, <1>3, NoClaims, StillTrusted

LEMMA DropOldestTrusts ==
  ASSUME Inv, NEW ds, NEW os, Remembered(ds, os), Trusted, DropOldest, ~SeekAcross
  PROVE  Trusted'
<1>1. /\ past' = (IF floor = 0 THEN Tail(past) ELSE past) /\ future' = future
      /\ live' = live /\ given' = given /\ ~open /\ cursor >= 1
  BY DEF DropOldest
<1>2. PICK S : past \in Seq(S)
  BY PastsAre
<1>3. floor = 0 => past # <<>>
  <2>1. PICK A : Halves(A, floor, cursor, Len(steps), past, future)
    BY <1>1, ClosedRecalls
  <2>2. ASSUME floor = 0 PROVE past # <<>>
    <3>1. past = Slice(A, 0, cursor) /\ cursor \in Nat
      <4>1. cursor \in Nat
        BY DEF Inv, Logged
      <4> QED BY <2>1, <2>2, <4>1 DEF Halves
    <3>2. \E T : SliceOf(A, 0, cursor, T, past)
      BY <3>1, SliceHas
    <3> QED BY <1>1, <3>1, <3>2 DEF SliceOf
  <2> QED BY <2>2
<1>4. L >= 2 => AllClaim(past', given)
  BY <1>1, <1>2, <1>3, ListedClaims DEF Trusted
<1> QED BY <1>1, <1>4, StillTrusted DEF Trusted

LEMMA SyncTrusts ==
  ASSUME Trusted, Sync
  PROVE  Trusted'
BY NoClaims, StillTrusted DEF Sync

LEMMA StutterTrusts ==
  ASSUME Trusted, UNCHANGED vars
  PROVE  Trusted'
BY StillTrusted DEF vars, Trusted

-----------------------------------------------------------------------------
(* Undo and redo, above and below the session's level.                     *)

\* Store u has the channels of s, what is below the session's level as it was.
Below(nm, s, u) ==
  /\ Frame(s, u)
  /\ \A c \in DOMAIN nm : \A l \in Levels : l < L => SameLevel(s[c].levels[l], u[c].levels[l])

LEMMA BelowThen ==
  ASSUME NEW nm, NEW n \in Nat, NEW s \in Store(nm, n), NEW t, NEW u, Below(nm, s, t), Below(nm, t, u)
  PROVE  Below(nm, s, u)
<1>1. DOMAIN s = DOMAIN nm
  BY StoreForm
<1>2. Frame(s, u)
  BY <1>1 DEF Below, Frame
<1> QED BY <1>2 DEF Below, SameLevel

LEMMA FrameKinds ==
  ASSUME NEW s, NEW u, Frame(s, u), Kinds(s)
  PROVE  Kinds(u)
BY DEF Frame, Kinds

\* What a replay leaves alone.
LEMMA DebtsBelow ==
  ASSUME NEW nm, Named(nm), NEW n \in Nat, NEW x \in Lives(nm, n), NEW owes \in BOOLEAN,
         NEW attrs \in SUBSET AllDebts, \A d \in attrs : d.id.level = L, NEW u, u = ApplyDebts(x, owes, attrs)
  PROVE  u \in Lives(nm, n) /\ Below(nm, x.store, u.store)
<1>1. /\ u \in Lives(nm, n) /\ u.pos = x.pos /\ u.mask = x.mask /\ u.owes = owes
      /\ Frame(x.store, u.store) /\ Alike(x.store, u.store)
      /\ \A c \in DOMAIN nm : \A l \in Levels :
           /\ u.store[c].levels[l].val = x.store[c].levels[l].val
           /\ u.store[c].levels[l].held = x.store[c].levels[l].held
           /\ u.store[c].levels[l].tok = x.store[c].levels[l].tok
           /\ u.store[c].levels[l].owes = DebtSet(x.store, attrs, c, l)
  BY DebtsHave
<1>2. ASSUME NEW c \in DOMAIN nm, NEW l \in Levels, l < L
      PROVE  u.store[c].levels[l].owes = x.store[c].levels[l].owes
  <2>1. l # L
    BY <1>2, LogAssumption DEF Levels
  <2>2. Kept(x.store, attrs, c, l) = {}
    BY <2>1 DEF Kept
  <2>3. DebtSet(x.store, attrs, c, l) = x.store[c].levels[l].owes
    BY <2>2 DEF DebtSet
  <2> QED BY <1>1, <2>3
<1> QED BY Zenon, <1>1, <1>2 DEF Below, SameLevel

LEMMA ReplayBelow ==
  ASSUME NEW nm, Named(nm), NEW n \in Nat, NEW lv \in Lives(nm, n), NEW step \in Step(n), SoundStep(step, n),
         Sound(lv.store), FinersSay(lv.store, step.finer, Later(lv.store)),
         NEW u, u \in {Undone(lv, step).live, Redone(lv, step).live}
  PROVE  u \in Lives(nm, n) /\ Below(nm, lv.store, u.store) /\ Later(u.store) = Later(lv.store)
<1>1. PICK w : w = ApplySwap(lv, step)
  OBVIOUS
<1>2. PICK owes, attrs : /\ u = ApplyDebts(w.live, owes, attrs) /\ owes \in BOOLEAN /\ attrs \in SUBSET AllDebts
                         /\ \A d \in attrs : d.id.level = L
  <2>1. /\ step.pre \in BOOLEAN /\ step.post \in BOOLEAN
        /\ step.preAttr \in SUBSET AllDebts /\ step.postAttr \in SUBSET AllDebts
    BY DEF Step
  <2>2. \A d \in step.preAttr \cup step.postAttr : d.id.level = L
    BY DEF SoundStep
  <2>3. u = ApplyDebts(w.live, step.pre, step.preAttr) \/ u = ApplyDebts(w.live, step.post, step.postAttr)
    BY <1>1 DEF Undone, Redone
  <2>4. CASE u = ApplyDebts(w.live, step.pre, step.preAttr)
    BY <2>1, <2>2, <2>4
  <2>5. CASE u = ApplyDebts(w.live, step.post, step.postAttr)
    BY <2>1, <2>2, <2>5
  <2> QED BY <2>3, <2>4, <2>5
<1>3. Resets(nm, lv, u, step, w.step, owes, attrs)
  BY <1>1, <1>2, ReplayResets
<1>4. w.live \in Lives(nm, n)
  BY <1>1, SwapResets
<1> DEFINE s == lv.store
           r == EnsureResident(s, {L})
           t == PutFiner(PutBlocks(r, step.blocks), step.finer)
<1>5. s \in Store(nm, n) /\ w.live.store \in Store(nm, n) /\ w.live.store = t
  BY <1>1, <1>4 DEF Lives, ApplySwap
<1>6. r = Reheld(s, {L}, "blob", "chunks")
  BY DEF EnsureResident
<1>7. Sound(r) /\ r \in Store(nm, n)
  BY <1>5, <1>6, ReheldSound DEF Held
<1>8. Below(nm, s, r)
  <2> HIDE DEF r, s
  <2>1. /\ Frame(s, r)
        /\ \A c \in DOMAIN nm : \A l \in Levels :
             /\ r[c].levels[l].val = s[c].levels[l].val /\ r[c].levels[l].owes = s[c].levels[l].owes
             /\ r[c].levels[l].held = IF l \in {L} /\ s[c].levels[l].held = "blob" THEN "chunks"
                                      ELSE s[c].levels[l].held
    BY <1>5, <1>6, ReheldHas
  <2> QED BY <2>1, LogAssumption DEF Below, SameLevel, Levels
<1>9. Below(nm, r, t)
  <2> HIDE DEF r, s
  <2>1. /\ Frame(r, t)
        /\ \A c \in DOMAIN nm : \A l \in Levels : <<nm[c], l>> \notin InStore => t[c].levels[l] = r[c].levels[l]
    BY <1>7, SwapStore
  <2>2. \A x : \A l \in Levels : l < L => <<x, l>> \notin InStore
    BY LogAssumption DEF InStore, Levels
  <2> HIDE DEF t
  <2> QED BY <2>1, <2>2 DEF Below, SameLevel
<1>10. Below(nm, w.live.store, u.store) /\ u \in Lives(nm, n)
  <2> HIDE DEF r, s, t
  <2> DEFINE x == w.live
  <2>1. x \in Lives(nm, n) /\ u = ApplyDebts(x, owes, attrs)
    BY <1>2, <1>4
  <2> HIDE DEF x
  <2>2. u \in Lives(nm, n) /\ Below(nm, x.store, u.store)
    BY <1>2, <2>1, DebtsBelow
  <2> QED BY <2>2 DEF x
<1>11. Below(nm, s, t)
  <2> HIDE DEF r, s, t
  <2> QED BY <1>5, <1>8, <1>9, BelowThen
<1>12. Below(nm, t, u.store)
  BY <1>5, <1>10
<1>13. Below(nm, s, u.store)
  <2> HIDE DEF r, s, t
  <2> QED BY <1>5, <1>11, <1>12, BelowThen
<1> QED BY <1>3, <1>10, <1>13 DEF Resets

\* What is handed down after a fold or a replay.
CarriedTo(s, u, g) ==
  [n \in Names |-> [l \in Levels |-> IF l > L /\ ValueAt(s, n, l) = g[n][l] THEN ValueAt(u, n, l) ELSE g[n][l]]]

\* Levels but the session's are as honest as they were.
LEMMA CarriesOn ==
  ASSUME NEW nm, Named(nm), NEW n \in Nat, NEW s \in Store(nm, n), NEW u \in Store(nm, n),
         Below(nm, s, u), Later(u) = Later(s), Kinds(s), Seamless(u), NEW g, Fit(g),
         \A l \in 2 .. Depth : HonestAt(s, g, l), NEW h, h = CarriedTo(s, u, g)
  PROVE  /\ Kinds(u) /\ Fit(h) /\ \A x \in Keepers : h[x][L] = g[x][L]
         /\ \A l \in 2 .. Depth : l # L => HonestAt(u, h, l)
<1>1. ASSUME NEW x \in Names, NEW l \in Levels
      PROVE  h[x][l] = IF l > L /\ ValueAt(s, x, l) = g[x][l] THEN ValueAt(u, x, l) ELSE g[x][l]
  BY DEF CarriedTo
<1>2. DOMAIN h = Names /\ \A x \in Names : DOMAIN h[x] = Levels
  BY DEF CarriedTo
<1>3. Fit(h)
  <2>1. ASSUME NEW x \in Names, NEW l \in Levels PROVE h[x][l] = g[x][l] \/ Fits(h[x][l], l)
    BY <1>1, <2>1, ShownFits
  <2> QED BY <1>2, <2>1, FitNext
<1>4. L \in Levels /\ L \in Nat /\ \A l \in 2 .. Depth : l \in Levels
  BY LogAssumption DEF Levels
<1>5. \A x \in Keepers : h[x][L] = g[x][L]
  BY <1>1, <1>4, KeepersAre
<1>6. Kinds(u)
  BY FrameKinds DEF Below
<1>7. ASSUME NEW l \in 2 .. Depth, l # L, NEW x \in Keepers
      PROVE  Owes(u, x, l) \/ ValueAt(u, x, l) = h[x][l]
  <2>1. x \in Names /\ l \in Levels /\ (Owes(s, x, l) \/ ValueAt(s, x, l) = g[x][l])
    BY <1>4, KeepersAre DEF HonestAt
  <2>2. CASE l < L
    <3>1. \A c \in DOMAIN nm : nm[c] = x => SameLevel(s[c].levels[l], u[c].levels[l])
      BY <2>1, <2>2 DEF Below
    <3>2. Unmoved(s, u, x, l)
      BY <2>1, <3>1, UnmovedBy
    <3> QED BY <1>1, <1>4, <2>1, <2>2, <3>2 DEF Unmoved
  <2>3. CASE l > L
    <3>1. l \in L + 1 .. Depth
      BY <1>4, <2>3
    <3>2. PICK p : p = <<x, l>>
      OBVIOUS
    <3>3. p \in Names \X (L + 1 .. Depth) /\ p[1] = x /\ p[2] = l
      BY <2>1, <3>1, <3>2
    <3>4. (p \in Later(u) <=> Owes(u, p[1], p[2])) /\ (p \in Later(s) <=> Owes(s, p[1], p[2]))
      BY Zenon, <3>3 DEF Later
    <3> QED BY <1>1, <2>1, <2>3, <3>3, <3>4
  <2> QED BY <1>4, <1>7, <2>2, <2>3
<1> QED BY <1>3, <1>5, <1>6, <1>7 DEF HonestAt

\* A replay brings back a document that claims as much as the one it leaves.
LEMMA ReplayTrusts ==
  ASSUME Inv, Inv', NEW es, Valued(es)', open' = FALSE, Trusted, NEW step \in Step(used.toks),
         SoundStep(step, used.toks), Sound(live.store), FinersSay(live.store, step.finer, Later(live.store)),
         live' \in {Undone(live, step).live, Redone(live, step).live},
         given' = CarriedTo(live.store, live'.store, given),
         L >= 2 => AllClaim(past', given) /\ AllClaim(future', given) /\ Claims(Doc(live'), given)
  PROVE  Trusted'
<1>1. PICK nm : Named(nm) /\ live \in Lives(nm, used.toks) /\ used.toks \in Nat
  BY StoredAs
<1>2. PICK u : u = live'
  OBVIOUS
<1>3. u \in {Undone(live, step).live, Redone(live, step).live}
  BY <1>2
<1>4. u \in Lives(nm, used.toks) /\ Below(nm, live.store, u.store) /\ Later(u.store) = Later(live.store)
  BY <1>1, <1>3, ReplayBelow
<1>5. Seamless(u.store)
  BY <1>2 DEF Valued, Coherent
<1>6. PICK h : h = given'
  OBVIOUS
<1>7. PICK s, t : s = live.store /\ t = u.store /\ s \in Store(nm, used.toks) /\ t \in Store(nm, used.toks)
  BY <1>1, <1>4 DEF Lives
<1>8. /\ Below(nm, s, t) /\ Later(t) = Later(s) /\ Kinds(s) /\ Seamless(t) /\ Fit(given)
      /\ h = CarriedTo(s, t, given)
  BY <1>2, <1>4, <1>5, <1>6, <1>7 DEF Trusted
<1>9. \A l \in 2 .. Depth : HonestAt(s, given, l)
  BY <1>7 DEF Trusted
<1>10. /\ Kinds(t) /\ Fit(h) /\ \A x \in Keepers : h[x][L] = given[x][L]
       /\ \A l \in 2 .. Depth : l # L => HonestAt(t, h, l)
  BY <1>1, <1>7, <1>8, <1>9, CarriesOn
<1>11. ASSUME L >= 2 PROVE AllClaim(past', h) /\ AllClaim(future', h) /\ HonestAt(t, h, L)
  <2>1. AllClaim(past', h) /\ AllClaim(future', h) /\ Claims(Doc(live'), h)
    BY <1>10, <1>11, ClaimsLike
  <2>2. Claims(Doc(live'), given') <=> HonestAt(live'.store, given', L)
    BY <1>6, <1>10, ClaimsThere
  <2> QED BY <1>2, <1>6, <1>7, <2>1, <2>2
<1>12. \A l \in 2 .. Depth : HonestAt(t, h, l)
  BY <1>10, <1>11, LogAssumption
<1> QED BY <1>2, <1>6, <1>7, <1>10, <1>11, <1>12 DEF Trusted, Kinds, Fit, HonestAt, AllClaim, Claims

\* What Carried() is.
LEMMA CarriedIs ==
  ASSUME NEW lv
  PROVE  Carried(lv) = CarriedTo(live.store, lv.store, given)
BY DEF Carried, CarriedTo

LEMMA UndoTrusts ==
  ASSUME Inv, Inv', NEW ds, NEW os, Remembered(ds, os), Recounted', Trusted, Undo, ~SeekAcross
  PROVE  Trusted'
<1>1. /\ ~open /\ cursor > floor /\ cursor > 0 /\ live' = Undone(live, steps[cursor]).live /\ open' = open
      /\ past' = (IF past = <<>> THEN past ELSE Front(past)) /\ future' = <<Doc(live)>> \o future
      /\ given' = Carried(Undone(live, steps[cursor]).live)
  BY DEF Undo
<1>2. /\ Debted(os, live, steps, cursor, floor, Len(steps)) /\ steps \in Seq(Step(used.toks))
      /\ Len(steps) \in Nat /\ cursor \in 0 .. Len(steps) /\ open = FALSE /\ Valued(ds)
  BY <1>1, ClosedRecalls
<1>3. cursor \in 1 .. Len(steps) /\ steps[cursor] \in Step(used.toks)
  BY <1>1, <1>2
<1>4. SoundStep(steps[cursor], used.toks) /\ Sound(live.store)
  BY <1>1, <1>2, <1>3, ClosedHas DEF Coherent
<1>5. FinersSay(live.store, steps[cursor].finer, Later(live.store))
  BY <1>2, <1>3 DEF Debted
<1>6. PICK es : Valued(es)'
  BY DEF Recounted, Remembered
<1>7. History!Undo
  BY UndoTells
<1>8. past # <<>> /\ Doc(live') = Last(past)
  <2>1. past # <<>> /\ Doc(live)' = History!Last(past)
    BY <1>7 DEF History!Undo
  <2> QED BY <2>1, HistoryEnds, DocNext
<1>9. PICK S, T : past \in Seq(S) /\ future \in Seq(T)
  BY PastsAre
<1>10. ASSUME L >= 2 PROVE AllClaim(past', given) /\ AllClaim(future', given) /\ Claims(Doc(live'), given)
  <2>1. Claims(Doc(live), given)
    <3>1. L \in 2 .. Depth
      BY <1>10, LogAssumption
    <3> QED BY <1>1, <1>2, <3>1, ClaimsHere DEF Trusted
  <2>2. AllClaim(past, given) /\ AllClaim(future, given)
    BY <1>10 DEF Trusted
  <2>3. AllClaim(Front(past), given) /\ Claims(Last(past), given)
    BY <1>8, <1>9, <2>2, ListedClaims
  <2>4. AllClaim(<<Doc(live)>> \o future, given)
    BY <1>9, <2>1, <2>2, ListedClaims
  <2> QED BY <1>1, <1>8, <2>3, <2>4
<1>11. given' = CarriedTo(live.store, live'.store, given)
  BY <1>1, CarriedIs
<1>12. PICK step : step = steps[cursor]
  OBVIOUS
<1>13. live' \in {Undone(live, step).live, Redone(live, step).live}
  BY <1>1, <1>12
<1> QED BY <1>1, <1>2, <1>3, <1>4, <1>5, <1>6, <1>10, <1>11, <1>12, <1>13, ReplayTrusts

LEMMA TailClaims ==
  ASSUME NEW g, NEW S, NEW p \in Seq(S), AllClaim(p, g), p # <<>>, NEW h, h = Head(p), NEW t, t = Tail(p)
  PROVE  AllClaim(t, g) /\ Claims(h, g)
<1>1. PICK N : N = Len(p) /\ N \in Nat \ {0} /\ DOMAIN p = 1 .. N
  OBVIOUS
<1>2. Head(p) = p[1] /\ 1 \in 1 .. N
  BY <1>1
<1>3. DOMAIN Tail(p) = 1 .. N - 1 /\ \A k \in 1 .. N - 1 : Tail(p)[k] = p[k + 1] /\ k + 1 \in 1 .. N
  BY <1>1
<1> QED BY <1>1, <1>2, <1>3 DEF AllClaim

LEMMA RedoTrusts ==
  ASSUME Inv, Inv', NEW ds, NEW os, Remembered(ds, os), Recounted', Trusted, Redo, ~SeekAcross
  PROVE  Trusted'
<1>1. /\ ~open /\ cursor < Len(steps) /\ live' = Redone(live, steps[cursor + 1]).live /\ open' = open
      /\ past' = Append(past, Doc(live)) /\ future' = Tail(future)
      /\ given' = Carried(Redone(live, steps[cursor + 1]).live)
  BY DEF Redo
<1>2. /\ Debted(os, live, steps, cursor, floor, Len(steps)) /\ steps \in Seq(Step(used.toks))
      /\ Len(steps) \in Nat /\ cursor \in 0 .. Len(steps) /\ open = FALSE /\ Valued(ds)
  BY <1>1, ClosedRecalls
<1>3. PICK i : i = cursor + 1
  OBVIOUS
<1>4. i \in 1 .. Len(steps) /\ steps[i] \in Step(used.toks)
  BY <1>1, <1>2, <1>3
<1>5. SoundStep(steps[i], used.toks) /\ Sound(live.store)
  BY <1>1, <1>2, <1>4, ClosedHas DEF Coherent
<1>6. FinersSay(live.store, steps[i].finer, Later(live.store))
  BY <1>2, <1>4 DEF Debted
<1>7. PICK es : Valued(es)'
  BY DEF Recounted, Remembered
<1>8. History!Redo
  BY RedoTells
<1>9. future # <<>> /\ Doc(live') = Head(future)
  BY <1>8, DocNext DEF History!Redo
<1>10. PICK S, T : past \in Seq(S) /\ future \in Seq(T)
  BY PastsAre
<1>11. ASSUME L >= 2 PROVE AllClaim(past', given) /\ AllClaim(future', given) /\ Claims(Doc(live'), given)
  <2>1. Claims(Doc(live), given)
    <3>1. L \in 2 .. Depth
      BY <1>11, LogAssumption
    <3> QED BY <1>1, <1>2, <3>1, ClaimsHere DEF Trusted
  <2>2. AllClaim(past, given) /\ AllClaim(future, given)
    BY <1>11 DEF Trusted
  <2>3. AllClaim(Tail(future), given) /\ Claims(Head(future), given)
    <3>1. PICK q, h, t : q = future /\ h = Head(q) /\ t = Tail(q)
      OBVIOUS
    <3>2. q \in Seq(T) /\ AllClaim(q, given) /\ q # <<>>
      BY <1>9, <1>10, <2>2, <3>1
    <3>3. AllClaim(t, given) /\ Claims(h, given)
      BY <3>1, <3>2, TailClaims
    <3> QED BY <3>1, <3>3
  <2>4. AllClaim(Append(past, Doc(live)), given)
    BY <1>10, <2>1, <2>2, ListedClaims
  <2> QED BY <1>1, <1>9, <2>3, <2>4
<1>12. given' = CarriedTo(live.store, live'.store, given)
  BY <1>1, CarriedIs
<1>13. PICK step : step = steps[i]
  OBVIOUS
<1>14. live' \in {Undone(live, step).live, Redone(live, step).live}
  BY <1>1, <1>3, <1>13
<1> QED BY <1>1, <1>2, <1>4, <1>5, <1>6, <1>7, <1>11, <1>12, <1>13, <1>14, ReplayTrusts

-----------------------------------------------------------------------------
(* A channel removed from what is handed down.                             *)

\* The documents of the past and the future have a content for every channel.
LEMMA PastDocs ==
  ASSUME Inv, NEW ds, NEW os, Remembered(ds, os), ~SeekAcross
  PROVE  /\ \A k \in DOMAIN past : DOMAIN past[k] = DocNames
         /\ \A k \in DOMAIN future : DOMAIN future[k] = DocNames
<1>1. PICK A : A = Tale(ds, os, Later(live.store))
  OBVIOUS
<1>2. Halves(A, floor, Top, Len(steps), past, future)
  BY <1>1 DEF Remembered, Told
<1>3. PICK N : N = Len(steps) /\ N \in Nat /\ cursor \in 0 .. N /\ floor \in Nat /\ floor <= cursor
  BY DEF Inv, Logged
<1>4. Top \in Nat /\ floor <= Top /\ Top <= N
  BY <1>3 DEF Top
<1>5. DOMAIN ds = 1 .. N + 1
  BY <1>1, <1>3, DocNow
<1>6. \A k \in 1 .. N + 1 : DOMAIN A[k] = DocNames
  <2>1. \A d, o, f : DOMAIN DocAt(d, o, f) = DocNames
    BY DEF DocAt
  <2>2. PICK F : F = Later(live.store)
    OBVIOUS
  <2>3. \A k \in 1 .. N + 1 : A[k] = DocAt(ds[k], os[k], F)
    BY <1>1, <1>3, <1>5, <2>2, TaleIs
  <2> QED BY <2>1, <2>3
<1>7. ASSUME NEW k \in DOMAIN past PROVE DOMAIN past[k] = DocNames
  <2>1. past = Slice(A, floor, Top - floor)
    BY <1>2 DEF Halves
  <2>2. k \in 1 .. Top - floor /\ past[k] = A[floor + k]
    BY <1>7, <2>1 DEF Slice
  <2>3. floor + k \in 1 .. N + 1
    BY <1>3, <1>4, <2>2
  <2> QED BY <1>6, <2>2, <2>3
<1>8. ASSUME NEW k \in DOMAIN future PROVE DOMAIN future[k] = DocNames
  <2>1. future = Slice(A, Top + 1, N - Top)
    BY <1>2, <1>3 DEF Halves
  <2>2. k \in 1 .. N - Top /\ future[k] = A[Top + 1 + k]
    BY <1>8, <2>1 DEF Slice
  <2>3. Top + 1 + k \in 1 .. N + 1
    BY <1>3, <1>4, <2>2
  <2> QED BY <1>6, <2>2, <2>3
<1> QED BY <1>7, <1>8

-----------------------------------------------------------------------------
(* A channel less owes nothing.                                            *)

LEMMA FewerShows ==
  ASSUME NEW s, NEW u, NEW name, Fewer(s, u, name), NEW l \in Levels
  PROVE  ValueAt(u, name, l) = Seed(name, l) /\ \A x : x # name => Unmoved(s, u, x, l)
BY FewerOwes DEF Fewer, ValueAt, Allocated, Unmoved

LEMMA FewerKinds ==
  ASSUME NEW nm, Named(nm), NEW n \in Nat, NEW s \in Store(nm, n), NEW nu, Named(nu), NEW m \in Nat,
         NEW u \in Store(nu, m), NEW name, Fewer(s, u, name), Kinds(s)
  PROVE  Kinds(u)
<1>1. SUFFICES ASSUME NEW c \in DOMAIN u
               PROVE  (u[c].rule = "authored" /\ u[c].persist) <=> u[c].name \in Keepers
  BY DEF Kinds
<1>2. PICK x : x = u[c].name
  OBVIOUS
<1>3. c \in DOMAIN nu /\ nu[c] = x /\ DOMAIN s = DOMAIN nm
  BY <1>2, StoreForm, StoreHas
<1>4. FindChannel(u, x) = c /\ c # 0
  BY <1>3, FindAt
<1>5. x # name
  BY <1>4 DEF Fewer
<1>6. FindChannel(s, x) # 0 /\ u[c] = s[FindChannel(s, x)]
  BY <1>4, <1>5 DEF Fewer
<1>7. FindChannel(s, x) \in DOMAIN s
  BY <1>3, <1>6, FindIs
<1> QED BY <1>6, <1>7 DEF Kinds

LEMMA WithoutClaims ==
  ASSUME NEW name \in DOMAIN Layers, NEW g, NEW h,
         \A x \in Keepers : h[x][L] = IF x = name THEN Seed(name, L) ELSE g[x][L],
         NEW p, \A k \in DOMAIN p : DOMAIN p[k] = DocNames, AllClaim(p, g)
  PROVE  AllClaim(History!AllWithout(p, name), h)
<1>1. PICK q : q = History!AllWithout(p, name)
  OBVIOUS
<1>2. DOMAIN q = DOMAIN p /\ \A k \in DOMAIN p : q[k] = History!Without(p[k], name)
  BY <1>1 DEF History!AllWithout
<1>3. name \in DocNames /\ name # "mask"
  BY LogAssumption DEF DocNames
<1>4. BlankDoc[name][1] = Seed(name, L)
  BY BlankLayer
<1>5. ASSUME NEW k \in DOMAIN p, NEW x \in Keepers
      PROVE  q[k][x][2][L] \/ q[k][x][1] = IF x = "mask" THEN MaskFrom(h[x][L]) ELSE h[x][L]
  <2>1. q[k] = [p[k] EXCEPT ![name] = BlankDoc[name]] /\ DOMAIN p[k] = DocNames /\ x \in DocNames
    BY <1>2, KeepersAre DEF History!Without
  <2>2. CASE x = name
    BY <1>3, <1>4, <2>1, <2>2
  <2>3. CASE x # name
    <3>1. q[k][x] = p[k][x] /\ h[x][L] = g[x][L]
      BY <2>1, <2>3
    <3>2. p[k][x][2][L] \/ p[k][x][1] = IF x = "mask" THEN MaskFrom(g[x][L]) ELSE g[x][L]
      BY DEF AllClaim, Claims
    <3> QED BY <3>1, <3>2
  <2> QED BY <2>2, <2>3
<1> QED BY <1>1, <1>2, <1>5 DEF AllClaim, Claims

LEMMA RemoveLayerTrusts ==
  ASSUME Inv, Inv', NEW ds, NEW os, Remembered(ds, os), Trusted, RemoveLayer, ~SeekAcross
  PROVE  Trusted'
<1>1. PICK name \in Removable :
        /\ Removes(name) /\ given' = [given EXCEPT ![name] = [l \in Levels |-> Seed(name, l)]]
        /\ past' = History!AllWithout(past, name) /\ future' = History!AllWithout(future, name)
  BY DEF RemoveLayer, Removes
<1>2. name \in DOMAIN Layers /\ name # "mask" /\ name \in Names
  BY LogAssumption DEF Names
<1>3. Fewer(live.store, live'.store, name)
  <2>1. Valued(ds)
    BY DEF Remembered
  <2>2. PICK es : es = [k \in 1 .. Len(steps) + 1 |-> Without(ds[k], name)]
    OBVIOUS
  <2> QED BY <1>1, <2>1, <2>2, RemoveLayerValues
<1>4. PICK nm, n, s : Named(nm) /\ n \in Nat /\ s \in Store(nm, n) /\ s = live.store
  <2>1. PICK nm : Named(nm) /\ live \in Lives(nm, used.toks) /\ used.toks \in Nat
    BY StoredAs
  <2> QED BY <2>1 DEF Lives
<1>5. PICK nu, m, u : Named(nu) /\ m \in Nat /\ u \in Store(nu, m) /\ u = live'.store
  <2>1. PICK nu : Named(nu) /\ live' \in Lives(nu, used'.toks) /\ used'.toks \in Nat
    BY DEF Inv, Stored, Logged, Uses
  <2> QED BY <2>1 DEF Lives
<1>6. Kinds(u)
  BY <1>3, <1>4, <1>5, FewerKinds DEF Trusted
<1>7. PICK g, h : g = given /\ h = given'
  OBVIOUS
<1>8. /\ Fit(g) /\ DOMAIN h = Names /\ h[name] = [l \in Levels |-> Seed(name, l)]
      /\ \A x \in Names : x # name => h[x] = g[x]
  BY <1>1, <1>2, <1>7 DEF Trusted, Fit
<1>9. Fit(h)
  <2>1. \A x \in Names : DOMAIN h[x] = Levels
    BY <1>8 DEF Fit
  <2>2. ASSUME NEW x \in Names, NEW l \in Levels PROVE h[x][l] = g[x][l] \/ Fits(h[x][l], l)
    <3>1. Fits(Seed(name, l), l)
      <4>1. l \in Nat
        BY LogAssumption DEF Levels
      <4>2. Seed(name, l) \in [Sites -> Sample(l)]
        BY <1>2, <4>1, SeedIs
      <4> QED BY <1>2, <4>2, BlankIs DEF Even, Fits
    <3> QED BY <1>8, <3>1
  <2> QED BY <1>8, <2>1, <2>2, FitNext
<1>10. L \in Levels /\ \A l \in 2 .. Depth : l \in Levels
  BY LogAssumption DEF Levels
<1>11. ASSUME NEW l \in 2 .. Depth PROVE HonestAt(u, h, l)
  <2>1. SUFFICES ASSUME NEW x \in Keepers PROVE Owes(u, x, l) \/ ValueAt(u, x, l) = h[x][l]
    BY DEF HonestAt
  <2>2. x \in Names /\ l \in Levels /\ HonestAt(s, g, l)
    BY <1>4, <1>7, <1>10, KeepersAre DEF Trusted
  <2>3. ValueAt(u, name, l) = Seed(name, l) /\ (x # name => Unmoved(s, u, x, l))
    BY <1>3, <1>4, <1>5, <2>2, FewerShows
  <2>4. CASE x = name
    BY <1>8, <2>2, <2>3, <2>4
  <2>5. CASE x # name
    <3>1. h[x][l] = g[x][l] /\ (Owes(s, x, l) \/ ValueAt(s, x, l) = g[x][l])
      BY <1>8, <2>2, <2>5 DEF HonestAt
    <3> QED BY <2>3, <2>5, <3>1 DEF Unmoved
  <2> QED BY <2>4, <2>5
<1>12. ASSUME L >= 2 PROVE AllClaim(past', h) /\ AllClaim(future', h)
  <2>1. \A x \in Keepers : h[x][L] = IF x = name THEN Seed(name, L) ELSE g[x][L]
    BY <1>8, <1>10, KeepersAre
  <2>2. AllClaim(past, g) /\ AllClaim(future, g)
    BY <1>7, <1>12 DEF Trusted
  <2> QED BY <1>1, <1>2, <2>1, <2>2, PastDocs, WithoutClaims
<1> QED BY <1>5, <1>6, <1>7, <1>9, <1>11, <1>12 DEF Trusted, Kinds, Fit, HonestAt, AllClaim, Claims

-----------------------------------------------------------------------------
(* A dab leaves the levels alone.                                          *)

\* A channel as it is made for a field: nothing but the session's level is painted.
Plain(ch) ==
  /\ (ch.rule = "authored" /\ ch.persist) <=> ch.name \in Keepers
  /\ \A l \in Levels : l # L => ch.levels[l].held = "none"

LEMMA FieldPlain ==
  ASSUME NEW n \in Nat, NEW name \in {"mask"} \cup DOMAIN Layers, NEW t,
         NEW b \in Channel(Depth, n), b = FieldChannel(name, t), NEW ch, ch = b \/ ch = Seeded(b)
  PROVE  Plain(ch)
<1>1. b.name = name /\ b.rule = "authored" /\ (b.persist <=> name \in Keepers)
  <2>1. "mask" \notin DOMAIN Layers
    BY LogAssumption
  <2>2. CASE name = "mask"
    BY <2>2 DEF FieldChannel, NewChannel, Keepers
  <2>3. CASE name # "mask"
    <3>1. name \in DOMAIN Layers /\ Layers[name].persist \in BOOLEAN
      BY <2>3, LogAssumption
    <3> QED BY <2>3, <3>1 DEF FieldChannel, NewChannel, Keepers
  <2> QED BY <2>2, <2>3
<1>2. \A l \in Levels : b.levels[l].held = "none"
  BY FieldLevels
<1>3. Plain(b)
  BY <1>1, <1>2 DEF Plain
<1>4. CASE ch # b
  <2>1. ch = [Touched(b, L) EXCEPT !.levels[L].val = Seed(b.name, L)]
    BY <1>4 DEF Seeded
  <2>2. PICK v : v = Seed(b.name, L)
    OBVIOUS
  <2>3. L \in 1 .. Depth /\ Depth \in Nat
    BY LogAssumption
  <2>4. Revalued(b, ch, L, v)
    BY <2>1, <2>2, <2>3, RetouchedHas
  <2>5. DOMAIN b.levels = Levels
    BY <2>3, ChannelLevels DEF Levels
  <2> QED BY <1>3, <2>4, <2>5 DEF Plain, Revalued
<1> QED BY <1>3, <1>4

\* The channels a store has more.
LEMMA EnsuredPlain ==
  ASSUME NEW nm, Named(nm), NEW tok \in Nat, NEW s \in Store(nm, tok),
         NEW ns \in SUBSET ({"mask"} \cup DOMAIN Layers),
         NEW u, u = EnsureChannels(s, ns, tok) \/ u = Ensured(s, ns, tok)
  PROVE  \A c \in DOMAIN u : c \notin DOMAIN nm => Plain(u[c])
<1>1. PICK w, m : w = EnsureChannels(s, ns, tok) /\ m = tok + (Len(w) - Len(s)) * (Depth + 1)
  OBVIOUS
<1>2. /\ m \in Nat
      /\ \E nu : /\ Named(nu) /\ w \in Store(nu, m) /\ Wider(nm, s, nu, w, ns, tok)
                 /\ \A n \in ns : \E c \in DOMAIN nu : nu[c] = n
  BY <1>1, ChannelsAdded
<1>3. PICK nu : Named(nu) /\ w \in Store(nu, m) /\ Wider(nm, s, nu, w, ns, tok)
  BY <1>2
<1>4. DOMAIN w = DOMAIN nu
  BY <1>2, <1>3, StoreForm
<1>5. DOMAIN u = DOMAIN w /\ \A c \in DOMAIN w : u[c] = w[c] \/ u[c] = Seeded(w[c])
  BY <1>1 DEF Ensured, EachChannel
<1>6. SUFFICES ASSUME NEW c \in DOMAIN nu, c \notin DOMAIN nm PROVE Plain(u[c])
  BY <1>4, <1>5
<1>7. PICK b, t, name : b = w[c] /\ t = w[c].tok /\ name = nu[c]
  OBVIOUS
<1>8. b = FieldChannel(name, t) /\ name \in {"mask"} \cup DOMAIN Layers
  <2>1. nu[c] \in ns /\ w[c] = FieldChannel(nu[c], w[c].tok)
    BY <1>3, <1>6 DEF Wider
  <2> QED BY <1>7, <2>1
<1>9. b \in Channel(Depth, m)
  BY <1>2, <1>3, <1>7, StoreHas
<1>10. u[c] = b \/ u[c] = Seeded(b)
  BY <1>4, <1>5, <1>7
<1> QED BY <1>2, <1>8, <1>9, <1>10, FieldPlain

\* A store with channels made shows what it did.
LEMMA MadeShows ==
  ASSUME NEW nm, Named(nm), NEW n \in Nat, NEW s \in Store(nm, n), NEW nu, Named(nu), NEW m \in Nat,
         NEW u \in Store(nu, m), NEW tok, Made(nm, s, nu, u, tok), Kinds(s),
         \A c \in DOMAIN u : c \notin DOMAIN nm => Plain(u[c])
  PROVE  Kinds(u) /\ \A x \in Names : \A l \in Levels : Unmoved(s, u, x, l)
<1>1. DOMAIN s = DOMAIN nm /\ DOMAIN u = DOMAIN nu
  BY StoreForm
<1>2. Kinds(u)
  <2>1. SUFFICES ASSUME NEW c \in DOMAIN u
                 PROVE  (u[c].rule = "authored" /\ u[c].persist) <=> u[c].name \in Keepers
    BY DEF Kinds
  <2>2. CASE c \in DOMAIN nm
    <3>1. u[c] = s[c] /\ c \in DOMAIN s
      BY <1>1, <2>2 DEF Made
    <3> QED BY <3>1 DEF Kinds
  <2>3. CASE c \notin DOMAIN nm
    BY <2>3 DEF Plain
  <2> QED BY <2>2, <2>3
<1>3. ASSUME NEW x \in Names, NEW l \in Levels PROVE ValueAt(u, x, l) = ValueAt(s, x, l)
  <2>1. CASE \A i \in DOMAIN nu : nu[i] # x
    <3>1. \A c \in DOMAIN nm : nm[c] # x
      BY <2>1 DEF Made
    <3>2. FindChannel(u, x) = 0 /\ FindChannel(s, x) = 0
      BY <2>1, <3>1, FindIs
    <3> QED BY <3>2 DEF ValueAt
  <2>2. ASSUME NEW i \in DOMAIN nu, nu[i] = x PROVE ValueAt(u, x, l) = ValueAt(s, x, l)
    <3>1. FindChannel(u, x) = i /\ i # 0
      BY <2>2, FindAt
    <3>2. CASE i \in DOMAIN nm
      <4>1. nm[i] = x /\ u[i] = s[i]
        BY <2>2, <3>2 DEF Made
      <4>2. FindChannel(s, x) = i
        BY <3>2, <4>1, FindAt
      <4> QED BY <3>1, <4>1, <4>2 DEF ValueAt, Allocated
    <3>3. CASE i \notin DOMAIN nm
      <4>1. \A c \in DOMAIN nm : nm[c] # x
        BY <2>2, <3>3 DEF Made, Named
      <4>2. FindChannel(s, x) = 0
        BY <4>1, FindIs
      <4>3. u[i].levels[l].held = "none" \/ u[i].levels[l].val = Seed(x, l)
        BY <1>1, <2>2, <3>3 DEF Plain, Made, Newborn
      <4> QED BY <3>1, <4>2, <4>3 DEF ValueAt, Allocated
    <3> QED BY <3>2, <3>3
  <2> QED BY <2>1, <2>2
<1> QED BY <1>2, <1>3, MadeOwes DEF Unmoved

\* Nothing moves.
LEMMA UnmovedTrusts ==
  ASSUME Trusted, Kinds(live'.store), \A x \in Names : \A l \in Levels : Unmoved(live.store, live'.store, x, l),
         given' = given, past' = past, future' = future
  PROVE  Trusted'
<1>1. ASSUME NEW l \in 2 .. Depth, NEW x \in Keepers
      PROVE  Owes(live'.store, x, l) \/ ValueAt(live'.store, x, l) = given[x][l]
  <2>1. l \in Levels /\ x \in Names
    BY KeepersAre, LogAssumption DEF Levels
  <2>2. Owes(live.store, x, l) \/ ValueAt(live.store, x, l) = given[x][l]
    BY DEF Trusted, HonestAt
  <2>3. Unmoved(live.store, live'.store, x, l)
    BY <2>1
  <2> QED BY <2>2, <2>3 DEF Unmoved
<1> QED BY <1>1 DEF Trusted, Kinds, Fit, HonestAt, AllClaim, Claims

LEMMA DabTrusts ==
  ASSUME Inv, NEW ds, NEW os, Remembered(ds, os), Trusted, Dab
  PROVE  Trusted'
<1>1. given' = given /\ past' = past /\ future' = future /\ open
  BY DEF Dab
<1>2. PICK fields \in Kernels, v \in Verts : \E u : Dabbed(fields, v, u)
  BY DabHas
<1>3. PICK u : Dabbed(fields, v, u)
  BY <1>2
<1>4. PICK ns, tok, s : ns = fields \cap (DOMAIN Layers \cup {"mask"}) /\ tok = used.toks /\ s = live.store
  OBVIOUS
<1>5. u = Ensured(s, ns, tok) /\ live'.store = u /\ ns \in SUBSET ({"mask"} \cup DOMAIN Layers)
  BY <1>3, <1>4 DEF Dabbed
<1>6. PICK nm : Named(nm) /\ s \in Store(nm, tok) /\ tok \in Nat
  BY <1>4, StoredAs
<1>7. Sound(s)
  <2>1. Valued(ds)
    BY DEF Remembered
  <2> QED BY <1>1, <1>4, <2>1, OpenHas DEF Coherent
<1>8. PICK m : m = tok + (Len(u) - Len(s)) * (Depth + 1)
  OBVIOUS
<1>9. /\ m \in Nat
      /\ \E nu : /\ Named(nu) /\ u \in Store(nu, m) /\ Made(nm, s, nu, u, tok)
                 /\ \A n \in ns : \E c \in DOMAIN nu : nu[c] = n
  BY <1>5, <1>6, <1>7, <1>8, EnsuredMade
<1>10. PICK nu : Named(nu) /\ u \in Store(nu, m) /\ Made(nm, s, nu, u, tok)
  BY <1>9
<1>11. \A c \in DOMAIN u : c \notin DOMAIN nm => Plain(u[c])
  BY <1>5, <1>6, EnsuredPlain
<1>12. Kinds(s)
  BY <1>4 DEF Trusted
<1>13. Kinds(u) /\ \A x \in Names : \A l \in Levels : Unmoved(s, u, x, l)
  BY <1>6, <1>9, <1>10, <1>11, <1>12, MadeShows
<1> QED BY <1>1, <1>4, <1>5, <1>13, UnmovedTrusts

-----------------------------------------------------------------------------
(* An edit of the mask outside the log.                                    *)

\* What an edit of the mask at level l leaves of it.
MaskOwed(s, u, l) ==
  /\ Frame(s, u) /\ \A x \in Names : \A k \in Levels : x # "mask" \/ k < l => Unmoved(s, u, x, k)
  /\ l >= 2 => Owes(u, "mask", l)
  /\ \A k \in Levels : k # l => (Owes(u, "mask", k) <=> Owes(s, "mask", k))

LEMMA RenewedShows ==
  ASSUME NEW nm, Named(nm), NEW n \in Nat, NEW s \in Store(nm, n), NEW u \in Store(nm, n),
         NEW c \in DOMAIN nm, nm[c] = "mask", NEW l \in Levels, NEW d, NEW vs,
         \A i \in DOMAIN nm : i # c => u[i] = s[i], Renewed(s[c], u[c], l, d, vs, Depth), Kinds(s)
  PROVE  MaskOwed(s, u, l)
<1>1. DOMAIN s = DOMAIN nm /\ DOMAIN u = DOMAIN nm /\ \A i \in DOMAIN nm : DOMAIN u[i].levels = DOMAIN s[i].levels
  BY StoreForm
<1>2. Frame(s, u)
  BY <1>1 DEF Frame, Renewed
<1>3. ASSUME NEW x \in Names, NEW k \in Levels, x # "mask" \/ k < l PROVE Unmoved(s, u, x, k)
  <2>1. SUFFICES ASSUME NEW i \in DOMAIN nm, nm[i] = x PROVE SameLevel(s[i].levels[k], u[i].levels[k])
    BY Zenon, UnmovedBy
  <2>2. CASE i = c
    <3>1. k < l /\ k \in 1 .. Depth
      BY <1>3, <2>1, <2>2 DEF Levels
    <3> QED BY <2>2, <3>1 DEF Renewed, SameLevel
  <2>3. CASE i # c
    BY <2>3 DEF SameLevel
  <2> QED BY <2>2, <2>3
<1>4. ASSUME l >= 2 PROVE Owes(u, "mask", l)
  <2>1. s[c].rule = "authored" /\ s[c].persist
    <3>1. s[c].name = "mask" /\ c \in DOMAIN s
      BY Zenon, <1>1, StoreHas
    <3> QED BY <3>1, KeepersAre DEF Kinds
  <2>2. u[c].levels[l].owes = (s[c].levels[l].owes \/ ~(l < 2 \/ s[c].rule # "authored" \/ ~s[c].persist))
    BY DEF Renewed
  <2>3. ~(l < 2)
    BY <1>4 DEF Levels
  <2> QED BY <2>1, <2>2, <2>3, OwesAt
<1>5. ASSUME NEW k \in Levels, k # l PROVE Owes(u, "mask", k) <=> Owes(s, "mask", k)
  <2>1. u[c].levels[k].owes = s[c].levels[k].owes
    BY <1>5 DEF Renewed, Levels
  <2> QED BY <2>1, OwesAt
<1> QED BY <1>2, <1>3, <1>4, <1>5 DEF MaskOwed

\* What the pass of the mask leaves of the level it is given, and of the others.
LEMMA FlushedShows ==
  ASSUME NEW nm, Named(nm), NEW n \in Nat, NEW lv \in Lives(nm, n), Seamless(lv.store), NEW l \in Levels,
         lv.mask[l] \in MaskAt(l), NEW vs, NEW c \in DOMAIN nm, nm[c] = "mask",
         NEW r, r = FlushMask(lv, l, vs), NEW s, s = lv.store, NEW u, u = r.store, Kinds(s)
  PROVE  r \in Lives(nm, n) /\ u \in Store(nm, n) /\ MaskOwed(s, u, l)
<1>1. /\ r \in Lives(nm, n) /\ r.pos = lv.pos /\ r.owes = lv.owes
      /\ \A i \in DOMAIN nm : i # c => r.store[i] = lv.store[i]
      /\ Renewed(lv.store[c], r.store[c], l, lv.mask[l], vs, Depth)
      /\ \A k \in Levels : r.mask[k] = IF k > l /\ lv.mask[k] # None THEN MaskOf(r.store, k) ELSE lv.mask[k]
  BY FlushMaskHas
<1>2. PICK d : d = lv.mask[l]
  OBVIOUS
<1>3. \A i \in DOMAIN nm : i # c => u[i] = s[i]
  BY <1>1
<1>4. Renewed(s[c], u[c], l, d, vs, Depth)
  BY <1>1, <1>2
<1>5. s \in Store(nm, n) /\ u \in Store(nm, n)
  BY <1>1 DEF Lives
<1> HIDE <1>1, <1>2
<1>6. MaskOwed(s, u, l)
  BY <1>3, <1>4, <1>5, RenewedShows
<1> QED BY <1>1, <1>5, <1>6

LEMMA EditMaskTrusts ==
  ASSUME Inv, Inv', NEW ds, NEW os, Remembered(ds, os), Trusted, EditMask, ~SeekAcross
  PROVE  Trusted'
<1>1. ~open /\ steps = <<>> /\ past' = past /\ future' = future
  BY DEF EditMask
<1>2. Valued(ds)
  BY DEF Remembered
<1>3. past = <<>> /\ future = <<>>
  <2>1. /\ Halves(Tale(ds, os, Later(live.store)), floor, cursor, Len(steps), past, future)
        /\ cursor \in 0 .. Len(steps) /\ floor \in 0 .. cursor
    BY <1>1, ClosedRecalls
  <2>2. cursor = 0 /\ floor = 0 /\ Len(steps) = 0
    BY <1>1, <2>1
  <2> QED BY <2>1, <2>2, NoHalves
<1>4. PICK l \in Levels, v \in Verts : \E s, b : Edited(l, v, s, b)
  BY EditMaskHas
<1>5. PICK s, b : Edited(l, v, s, b)
  BY <1>4
<1>6. PICK nm, nu, n, c : EditsFrom(nm, nu, n, c, l, v, s, b)
  BY <1>1, <1>2, <1>5, EditStarts
<1>7. PICK o, u, g, h, tok : o = live.store /\ u = live'.store /\ g = given /\ h = given' /\ tok = used.toks
  OBVIOUS
<1>8. /\ Named(nm) /\ o \in Store(nm, tok) /\ tok \in Nat /\ n \in Nat /\ Named(nu) /\ s \in Store(nu, n)
      /\ Made(nm, o, nu, s, tok) /\ c \in DOMAIN nu /\ nu[c] = "mask" /\ b \in Lives(nu, n)
      /\ b.store = s /\ Seamless(s) /\ b.mask[l] \in MaskAt(l)
  BY <1>6, <1>7 DEF EditsFrom
<1>9. s = EnsureChannels(o, {"mask"}, tok) /\ live' = FlushMask(b, l, {v}) /\ h = HandedOn(l, u)
  BY <1>5, <1>7 DEF Edited
<1>10. /\ Kinds(o) /\ Fit(g) /\ \A k \in 2 .. Depth : HonestAt(o, g, k)
  BY <1>7 DEF Trusted
<1>11. Kinds(s) /\ \A x \in Names : \A k \in Levels : Unmoved(o, s, x, k)
  <2>1. \A i \in DOMAIN s : i \notin DOMAIN nm => Plain(s[i])
    <3>1. PICK ns : ns = {"mask"}
      OBVIOUS
    <3>2. s = EnsureChannels(o, ns, tok) /\ ns \in SUBSET ({"mask"} \cup DOMAIN Layers)
      BY <1>9, <3>1
    <3> QED BY <1>8, <3>2, EnsuredPlain
  <2> QED BY <1>8, <1>10, <2>1, MadeShows
<1>12. PICK vs, r : vs = {v} /\ r = live'
  OBVIOUS
<1>13. r \in Lives(nu, n) /\ u \in Store(nu, n) /\ MaskOwed(s, u, l)
  <2>1. r = FlushMask(b, l, vs) /\ Seamless(b.store) /\ s = b.store /\ u = r.store
    BY <1>7, <1>8, <1>9, <1>12
  <2> QED BY <1>8, <1>11, <2>1, FlushedShows
<1>16. Kinds(u)
  BY <1>11, <1>13, FrameKinds DEF MaskOwed
<1>17. /\ DOMAIN h = Names /\ \A x \in Names : x # "mask" => h[x] = g[x]
       /\ DOMAIN h["mask"] = Levels
       /\ \A k \in Levels : h["mask"][k] = IF k > l /\ ValueAt(o, "mask", k) = g["mask"][k]
                                           THEN ValueAt(u, "mask", k) ELSE g["mask"][k]
  <2>1. "mask" \in Names /\ DOMAIN g = Names
    BY <1>10 DEF Names, Fit
  <2> QED BY <1>7, <1>9, <2>1 DEF HandedOn
<1>18. Seamless(u)
  <2>1. PICK es : es = Alone(live')
    OBVIOUS
  <2>2. Valued(es)'
    BY <1>2, <2>1, EditMaskValues
  <2> QED BY <1>7, <2>2 DEF Valued, Coherent
<1>19. Fit(h)
  <2>1. \A x \in Names : DOMAIN h[x] = Levels
    BY <1>10, <1>17 DEF Fit
  <2>2. ASSUME NEW x \in Names, NEW k \in Levels PROVE h[x][k] = g[x][k] \/ Fits(h[x][k], k)
    <3>1. Fits(ValueAt(u, x, k), k)
      BY <1>8, <1>13, <1>18, ShownFits
    <3> QED BY <1>17, <3>1
  <2> QED BY <1>10, <1>17, <2>1, <2>2, FitNext
<1>20. ASSUME NEW k \in 2 .. Depth, NEW x \in Keepers PROVE Owes(u, x, k) \/ ValueAt(u, x, k) = h[x][k]
  <2>1. k \in Levels /\ x \in Names /\ k \in Nat /\ l \in Nat /\ k >= 2
    BY KeepersAre, LogAssumption DEF Levels
  <2>2. Owes(o, x, k) \/ ValueAt(o, x, k) = g[x][k]
    BY <1>10 DEF HonestAt
  <2>3. Unmoved(o, s, x, k)
    BY <1>11, <2>1
  <2>4. CASE x # "mask"
    <3>1. Unmoved(s, u, x, k) /\ h[x] = g[x]
      BY <1>13, <1>17, <2>1, <2>4 DEF MaskOwed
    <3> QED BY <2>2, <2>3, <3>1 DEF Unmoved
  <2>5. CASE x = "mask" /\ k < l
    <3>1. Unmoved(s, u, x, k) /\ h[x][k] = g[x][k]
      BY <1>13, <1>17, <2>1, <2>5 DEF MaskOwed
    <3> QED BY <2>2, <2>3, <3>1 DEF Unmoved
  <2>6. CASE x = "mask" /\ k = l
    BY <1>13, <2>1, <2>6 DEF MaskOwed
  <2>7. CASE x = "mask" /\ k > l
    <3>1. Owes(u, x, k) <=> Owes(o, x, k)
      BY <1>13, <2>1, <2>3, <2>7 DEF Unmoved, MaskOwed
    <3> QED BY <1>17, <2>1, <2>2, <2>7, <3>1
  <2> QED BY <2>1, <2>4, <2>5, <2>6, <2>7
<1> QED BY <1>1, <1>3, <1>7, <1>16, <1>19, <1>20, NoClaims DEF Trusted, Kinds, Fit, HonestAt, AllClaim, Claims

-----------------------------------------------------------------------------
(* What the fold of a stroke leaves owing.                                 *)

\* What is below the session's level is as it was, and what was painted at it owes.
Painted(nm, s, u) ==
  /\ Below(nm, s, u)
  /\ L >= 2 => \A c \in DOMAIN nm : nm[c] \in Keepers =>
                 SameLevel(s[c].levels[L], u[c].levels[L]) \/ u[c].levels[L].owes

LEMMA PaintedThen ==
  ASSUME NEW nm, NEW n \in Nat, NEW s \in Store(nm, n), NEW t, NEW u, Painted(nm, s, t), Painted(nm, t, u)
  PROVE  Painted(nm, s, u)
<1>1. Below(nm, s, u)
  BY BelowThen DEF Painted
<1> QED BY <1>1 DEF Painted, SameLevel

\* A channel painted at the session's level, and what does not hand down its own edits.
Repainted(a, b) ==
  /\ b.name = a.name /\ b.tok = a.tok /\ b.type = a.type /\ b.rule = a.rule /\ b.persist = a.persist
  /\ DOMAIN b.levels = DOMAIN a.levels
  /\ \A l \in Levels : l < L => b.levels[l] = a.levels[l]
  /\ b = a \/ (L >= 2 => b.levels[L].owes) \/ a.name \notin Keepers

LEMMA PaintedBy ==
  ASSUME NEW nm, NEW n \in Nat, NEW s \in Store(nm, n), NEW m \in Nat, NEW u \in Store(nm, m),
         \A c \in DOMAIN nm : Repainted(s[c], u[c])
  PROVE  Painted(nm, s, u)
<1>1. DOMAIN s = DOMAIN nm /\ DOMAIN u = DOMAIN nm
  BY StoreForm
<1>2. Frame(s, u)
  BY <1>1 DEF Frame, Repainted
<1>3. ASSUME NEW c \in DOMAIN nm, NEW l \in Levels, l < L PROVE SameLevel(s[c].levels[l], u[c].levels[l])
  BY <1>3 DEF Repainted, SameLevel
<1>4. ASSUME L >= 2, NEW c \in DOMAIN nm, nm[c] \in Keepers
      PROVE  SameLevel(s[c].levels[L], u[c].levels[L]) \/ u[c].levels[L].owes
  <2>1. s[c].name = nm[c] /\ Repainted(s[c], u[c])
    BY StoreHas
  <2> QED BY <1>4, <2>1 DEF Repainted, SameLevel
<1> QED BY <1>2, <1>3, <1>4 DEF Painted, Below

LEMMA CoPaints ==
  ASSUME NEW nm, Named(nm), NEW n \in Nat, NEW w \in Folding(nm, n), stroke \in Strokes, Sound(w.live.store),
         NEW r, r = FoldCo(w)
  PROVE  Painted(nm, w.live.store, r.live.store)
<1> DEFINE s == w.live.store
           d == w.live.pos
           ch == Scattered(s[1], L, d, stroke.touched)
           u == [s EXCEPT ![1] = ch]
           lv == w.live
<1>1. /\ lv \in Lives(nm, n) /\ s \in Store(nm, n) /\ 1 \in DOMAIN nm /\ Depth \in Nat /\ L \in 1 .. Depth
  BY LogAssumption DEF Folding, Lives, Named
<1>2. r \in Folding(nm, n)
  BY FoldCoIs
<1>3. r.live.store = u
  <2>1. lv = [store |-> lv.store, pos |-> lv.pos, mask |-> lv.mask, owes |-> lv.owes]
    BY <1>1 DEF Lives
  <2>2. r.live = [lv EXCEPT !.store = u, !.mask = Dropped(lv.mask), !.owes = L >= 2]
    BY DEF FoldCo, Folding, Lives
  <2> HIDE DEF u, lv
  <2> QED BY <2>1, <2>2
<1>4. DOMAIN s = DOMAIN nm /\ \A c \in DOMAIN nm : DOMAIN s[c].levels = Levels
  BY <1>1, StoreForm DEF Levels
<1>5. s[1] \in Channel(Depth, n)
  BY <1>1, StoreHas
<1>6. Revalued(s[1], ch, L, Spread(d, stroke.touched, s[1].levels[L].val))
  BY <1>1, <1>5, ScatteredHas
<1>7. \A c \in DOMAIN nm : u[c] = IF c = 1 THEN ch ELSE s[c]
  BY <1>4
<1>8. s[1].name = "disp"
  BY DEF Sound
<1> HIDE DEF ch, u, s
<1>9. Repainted(s[1], ch)
  <2>1. \A l \in Levels : l < L => l # L
    BY LogAssumption DEF Levels
  <2> QED BY <1>1, <1>4, <1>6, <1>8, <2>1, KeepersAre DEF Revalued, Repainted
<1>10. \A c \in DOMAIN nm : Repainted(s[c], u[c])
  BY <1>7, <1>9 DEF Repainted
<1>11. u \in Store(nm, n)
  BY <1>2, <1>3 DEF Folding, Lives
<1>12. Painted(nm, s, u)
  BY <1>1, <1>10, <1>11, PaintedBy
<1> QED BY <1>3, <1>12 DEF s

\* A renewed channel of a store of the right kinds.
LEMMA RenewedPaints ==
  ASSUME NEW nm, Named(nm), NEW n \in Nat, NEW s \in Store(nm, n), NEW u \in Store(nm, n),
         NEW c \in DOMAIN nm, nm[c] = "mask", NEW d, NEW vs,
         \A i \in DOMAIN nm : i # c => u[i] = s[i], Renewed(s[c], u[c], L, d, vs, Depth), Kinds(s)
  PROVE  Painted(nm, s, u)
<1>1. L \in Levels /\ DOMAIN s = DOMAIN nm /\ \A i \in DOMAIN nm : DOMAIN u[i].levels = DOMAIN s[i].levels
  BY StoreForm, LogAssumption DEF Levels
<1>2. s[c].name = "mask"
  BY StoreHas
<1>3. s[c].rule = "authored" /\ s[c].persist
  BY <1>1, <1>2, KeepersAre DEF Kinds
<1>4. ASSUME L >= 2 PROVE u[c].levels[L].owes
  <2>1. ~(L < 2)
    BY <1>4, LogAssumption
  <2>2. u[c].levels[L].owes = (s[c].levels[L].owes \/ ~(L < 2 \/ s[c].rule # "authored" \/ ~s[c].persist))
    BY Zenon DEF Renewed
  <2> QED BY <1>3, <2>1, <2>2
<1>5. Repainted(s[c], u[c])
  <2>1. \A l \in Levels : l < L => u[c].levels[l] = s[c].levels[l]
    BY DEF Renewed, Levels
  <2> QED BY <1>1, <1>4, <2>1 DEF Renewed, Repainted
<1>6. \A i \in DOMAIN nm : Repainted(s[i], u[i])
  BY <1>5 DEF Repainted
<1> QED BY <1>6, PaintedBy

LEMMA MaskPaints ==
  ASSUME NEW nm, Named(nm), NEW n \in Nat, NEW w \in Folding(nm, n), stroke \in Strokes,
         Seamless(w.live.store), Kinds(w.live.store), NEW c \in DOMAIN nm, nm[c] = "mask", NEW r, r = FoldMask(w)
  PROVE  Painted(nm, w.live.store, r.live.store)
<1> DEFINE lv == w.live
           z == r.live
<1>1. /\ lv \in Lives(nm, n) /\ L \in Levels /\ lv.mask[L] \in MaskAt(L) /\ Seamless(lv.store)
  BY MasksAre DEF Folding, Lives
<1>2. z = FlushMask(lv, L, stroke.touched)
  BY DEF FoldMask
<1> HIDE DEF lv, z
<1>3. /\ z \in Lives(nm, n) /\ z.pos = lv.pos /\ z.owes = lv.owes
      /\ \A i \in DOMAIN nm : i # c => z.store[i] = lv.store[i]
      /\ Renewed(lv.store[c], z.store[c], L, lv.mask[L], stroke.touched, Depth)
      /\ \A k \in Levels : z.mask[k] = IF k > L /\ lv.mask[k] # None THEN MaskOf(z.store, k) ELSE lv.mask[k]
  BY <1>1, <1>2, FlushMaskHas
<1>4. PICK s, u, d, vs : s = lv.store /\ u = z.store /\ d = lv.mask[L] /\ vs = stroke.touched
  OBVIOUS
<1>5. s \in Store(nm, n) /\ u \in Store(nm, n)
  BY <1>1, <1>3, <1>4 DEF Lives
<1>6. (\A i \in DOMAIN nm : i # c => u[i] = s[i]) /\ Renewed(s[c], u[c], L, d, vs, Depth)
  BY <1>3, <1>4
<1>7. Kinds(s)
  BY <1>4 DEF lv
<1>8. Painted(nm, s, u)
  BY <1>5, <1>6, <1>7, RenewedPaints
<1> QED BY <1>4, <1>8 DEF lv, z

LEMMA LayersPaint ==
  ASSUME NEW nm, Named(nm), NEW n \in Nat, NEW w \in Folding(nm, n), stroke \in Strokes, Kinds(w.live.store),
         NEW ns \in SUBSET (stroke.wrote \cap DOMAIN Layers), NEW r, r = FoldLayers(w, ns)
  PROVE  Painted(nm, w.live.store, r.live.store)
<1> DEFINE s == w.live.store
           lv == w.live
           cs == {c \in DOMAIN s : s[c].name \in ns}
           T(c) == Scattered(s[c], L, stroke.column[s[c].name], stroke.touched)
           g == [c \in DOMAIN nm |-> IF s[c].name \notin ns THEN s[c] ELSE NoteEdit(T(c), L)]
           u == [c \in DOMAIN s |-> g[c]]
<1>1. /\ lv \in Lives(nm, n) /\ s \in Store(nm, n) /\ Depth \in Nat /\ L \in 1 .. Depth /\ L \in Levels
  BY LogAssumption DEF Folding, Lives, Levels
<1>2. r \in Folding(nm, n)
  BY FoldLayersIs
<1>3. DOMAIN s = DOMAIN nm /\ \A c \in DOMAIN nm : s[c] \in Channel(Depth, n) /\ DOMAIN s[c].levels = Levels
  BY <1>1, StoreForm, StoreHas DEF Levels
<1>4. r.live.store = u
  <2>1. lv = [store |-> lv.store, pos |-> lv.pos, mask |-> lv.mask, owes |-> lv.owes]
    BY Zenon, <1>1 DEF Lives
  <2>2. r.live = [lv EXCEPT !.store = u]
    BY <1>3 DEF FoldLayers, EachChannel
  <2> HIDE DEF u
  <2> QED BY <2>1, <2>2
<1>5. DOMAIN u = DOMAIN nm /\ \A c \in DOMAIN nm : u[c] = IF c \in cs THEN NoteEdit(T(c), L) ELSE s[c]
  BY <1>3
<1>6. ASSUME NEW c \in cs PROVE Repainted(s[c], u[c])
  <2> DEFINE ch == s[c]
             d == stroke.column[s[c].name]
             q == T(c)
             v == u[c]
  <2>1. ch \in Channel(Depth, n) /\ q = Scattered(ch, L, d, stroke.touched) /\ v = NoteEdit(q, L)
        /\ DOMAIN ch.levels = Levels
    BY <1>3, <1>5
  <2>2. d \in [Verts -> Sample(L)]
    BY StrokeHas DEF MaskAt
  <2>3. (ch.rule = "authored" /\ ch.persist) <=> ch.name \in Keepers
    BY <1>1 DEF Kinds
  <2> HIDE DEF ch, d, q, v
  <2>4. q \in Channel(Depth, n)
    BY <1>1, <2>1, <2>2, StrokeHas, ScatteredIs
  <2>5. Revalued(ch, q, L, Spread(d, stroke.touched, ch.levels[L].val))
    BY <1>1, <2>1, ScatteredHas
  <2>6. /\ v.name = q.name /\ v.tok = q.tok /\ v.type = q.type /\ v.rule = q.rule /\ v.persist = q.persist
        /\ DOMAIN v.levels = 1 .. Depth
        /\ v.levels[L].tok = q.levels[L].tok /\ v.levels[L].val = q.levels[L].val
        /\ v.levels[L].held = q.levels[L].held
        /\ \A k \in 1 .. Depth : k # L => v.levels[k] = q.levels[k]
        /\ v.levels[L].owes = (q.levels[L].owes \/ ~(L < 2 \/ q.rule # "authored" \/ ~q.persist))
    BY <1>1, <2>1, <2>4, NoteEditHas
  <2>7. \A l \in Levels : l < L => v.levels[l] = ch.levels[l]
    <3>1. \A l \in Levels : l < L => l # L /\ l \in 1 .. Depth
      BY LogAssumption DEF Levels
    <3> QED BY <2>1, <2>5, <2>6, <3>1 DEF Revalued
  <2>8. ASSUME ch.name \in Keepers, L >= 2 PROVE v.levels[L].owes
    <3>1. q.rule = ch.rule /\ q.persist = ch.persist
      BY <2>5 DEF Revalued
    <3>2. ~(L < 2)
      BY <2>8, LogAssumption
    <3>3. v.levels[L].owes = (q.levels[L].owes \/ ~(L < 2 \/ q.rule # "authored" \/ ~q.persist))
      BY <2>6
    <3> QED BY <2>3, <2>8, <3>1, <3>2, <3>3
  <2>9. Repainted(ch, v)
    <3>1. DOMAIN v.levels = DOMAIN ch.levels
      BY <2>1, <2>6 DEF Levels
    <3> QED BY <2>5, <2>6, <2>7, <2>8, <3>1 DEF Revalued, Repainted
  <2> QED BY Zenon, <2>9 DEF v, ch
<1> HIDE DEF cs, u, s, g
<1>7. ASSUME NEW c \in DOMAIN nm PROVE Repainted(s[c], u[c])
  <2>1. CASE c \in cs
    BY <1>6, <2>1
  <2>2. CASE c \notin cs
    <3>1. u[c] = s[c]
      BY <1>5, <2>2
    <3> QED BY <3>1 DEF Repainted
  <2> QED BY <2>1, <2>2
<1>8. u \in Store(nm, n)
  BY <1>2, <1>4 DEF Folding, Lives
<1>9. Painted(nm, s, u)
  BY <1>1, <1>7, <1>8, PaintedBy
<1> QED BY <1>4, <1>9 DEF s

LEMMA FoldPaints ==
  ASSUME NEW nm, Named(nm), NEW n \in Nat, NEW d, Reading(d), NEW vs, NEW w \in Folding(nm, n), stroke \in Strokes,
         "mask" \in stroke.wrote => \E c \in DOMAIN nm : nm[c] = "mask",
         Folded(n, d, w.live, w.step, vs, {}), Kinds(w.live.store), NEW r, r = Fold(w)
  PROVE  Painted(nm, w.live.store, r.live.store)
<1> DEFINE co == IF "co" \in stroke.wrote THEN FoldCo(w) ELSE w
           mask == IF "mask" \in stroke.wrote THEN FoldMask(co) ELSE co
           ns == stroke.wrote \cap DOMAIN Layers
<1>1. r = FoldLayers(mask, ns)
  BY DEF Fold
<1>2. PICK s : s = w.live.store /\ s \in Store(nm, n) /\ Sound(s) /\ Seamless(s) /\ Kinds(s)
  BY DEF Folding, Lives, Folded, Coherent
<1>3. Painted(nm, s, s)
  BY DEF Painted, Below, Frame, SameLevel
<1> HIDE DEF ns
<1>4. co \in Folding(nm, n) /\ Painted(nm, s, co.live.store) /\ Seamless(co.live.store)
  <2>1. CASE "co" \in stroke.wrote
    <3>1. co = FoldCo(w)
      BY <2>1
    <3> HIDE DEF co
    <3>2. FoldedTo(nm, n, d, w, co, vs, w.step.finer, {1})
      BY <3>1, FoldCoTo
    <3>3. Painted(nm, w.live.store, co.live.store)
      BY <1>2, <3>1, CoPaints
    <3> QED BY <1>2, <3>2, <3>3 DEF FoldedTo, Folded, Coherent
  <2>2. CASE "co" \notin stroke.wrote
    <3>1. co = w
      BY <2>2
    <3> HIDE DEF co
    <3> QED BY <1>2, <1>3, <3>1
  <2> QED BY <2>1, <2>2
<1> HIDE DEF co
<1>5. PICK t : t = co.live.store /\ t \in Store(nm, n) /\ Painted(nm, s, t) /\ Kinds(t)
  <2>1. Kinds(co.live.store)
    BY <1>2, <1>4, FrameKinds DEF Painted, Below
  <2> QED BY <1>4, <2>1 DEF Folding, Lives
<1>6. mask \in Folding(nm, n) /\ Painted(nm, s, mask.live.store)
  <2>1. CASE "mask" \in stroke.wrote
    <3>1. mask = FoldMask(co)
      BY <2>1
    <3> HIDE DEF mask
    <3>2. PICK c \in DOMAIN nm : nm[c] = "mask"
      BY <2>1
    <3>3. mask \in Folding(nm, n)
      BY <1>4, <3>1, <3>2, FoldMaskIs
    <3>4. Painted(nm, co.live.store, mask.live.store)
      BY <1>4, <1>5, <3>1, <3>2, MaskPaints
    <3>5. PICK u : u = mask.live.store
      OBVIOUS
    <3>6. Painted(nm, t, u)
      BY <1>5, <3>4, <3>5
    <3>7. Painted(nm, s, u)
      BY <1>2, <1>5, <3>6, PaintedThen
    <3> QED BY <3>3, <3>5, <3>7
  <2>2. CASE "mask" \notin stroke.wrote
    <3>1. mask = co
      BY <2>2
    <3> HIDE DEF mask
    <3> QED BY <1>4, <3>1
  <2> QED BY <2>1, <2>2
<1> HIDE DEF mask
<1>7. PICK u : u = mask.live.store /\ u \in Store(nm, n) /\ Painted(nm, s, u) /\ Kinds(u)
  <2>1. Kinds(mask.live.store)
    BY <1>2, <1>6, FrameKinds DEF Painted, Below
  <2> QED BY <1>6, <2>1 DEF Folding, Lives
<1>8. ns \in SUBSET (stroke.wrote \cap DOMAIN Layers)
  BY DEF ns
<1>9. Painted(nm, mask.live.store, r.live.store)
  BY <1>1, <1>6, <1>7, <1>8, LayersPaint
<1>10. PICK z : z = r.live.store
  OBVIOUS
<1>11. Painted(nm, u, z)
  BY <1>7, <1>9, <1>10
<1>12. Painted(nm, s, z)
  BY <1>2, <1>7, <1>11, PaintedThen
<1> QED BY <1>2, <1>10, <1>12

\* Where the fold of a stroke ends.
LEMMA EndStrokePaints ==
  ASSUME Inv, NEW ds, NEW os, Remembered(ds, os), EndStroke, ~SeekAcross, NEW nm, Named(nm),
         live \in Lives(nm, used.toks), "mask" \in stroke.wrote => \E c \in DOMAIN nm : nm[c] = "mask",
         Kinds(live.store)
  PROVE  Painted(nm, live.store, live'.store)
<1> DEFINE N == Len(steps)
           n == used.toks
           k == steps[N]
           w0 == [live |-> live, step |-> k]
           w == Fold(w0)
           vs == IF "mask" \in stroke.wrote THEN stroke.touched ELSE {}
           d == ds[N]
<1>1. open /\ open' = FALSE
  BY DEF EndStroke
<1>2. /\ Begun(os[N], live, k, stroke) /\ steps \in Seq(Step(n)) /\ N \in Nat \ {0} /\ Valued(ds)
  BY <1>1, OpenRecalls
<1>3. Last(steps) = k /\ k \in Step(n) /\ live' = w.live /\ n \in Nat
  BY <1>2 DEF Last, EndStroke, Inv, Logged, Uses
<1>4. stroke \in Strokes
  BY <1>1 DEF Inv, Logged
<1>5. /\ Chain(ds, live, steps, N, FALSE) /\ Coherent(live) /\ SoundStep(k, n)
      /\ Capturing(d, live, k, stroke)
  <2>1. /\ Chain(ds, live, steps, N, FALSE) /\ Coherent(live) /\ \A j \in 1 .. N : SoundStep(steps[j], n)
        /\ Capturing(d, live, k, stroke)
    BY <1>1, <1>2, OpenHas
  <2>2. N \in 1 .. N
    BY <1>2
  <2> QED BY <2>1, <2>2
<1>6. Reading(d) /\ Calm(d) /\ Leads(live.store, k, d, Reads(live))
  <2>1. N \in 1 .. N /\ N \in 1 .. N + 1 /\ N # N + 1 /\ N <= N
    BY <1>2
  <2> QED BY <1>5, <2>1 DEF Chain
<1> DEFINE lv == live
<1>7. Folded(n, d, live, k, vs, {})
  <2>1. /\ lv \in Lives(nm, n) /\ Coherent(lv) /\ Capturing(d, lv, k, stroke) /\ Leads(lv.store, k, d, Reads(lv))
    BY <1>5, <1>6
  <2> HIDE DEF lv, n, k, d
  <2>2. Folded(n, d, lv, k, vs, {})
    BY <1>3, <1>5, <1>6, <2>1, FoldStarts
  <2> QED BY <2>2 DEF lv
<1>8. w0 \in Folding(nm, n) /\ w0.live = live /\ w0.step = k
  BY <1>3 DEF Folding
<1>9. w = Fold(w0)
  OBVIOUS
<1> HIDE DEF w0
<1>10. Folded(n, d, w0.live, w0.step, vs, {}) /\ Kinds(w0.live.store)
  BY <1>7, <1>8
<1>11. Painted(nm, w0.live.store, w.live.store)
  <2> HIDE DEF w, vs, d, n, k
  <2> QED BY <1>3, <1>4, <1>6, <1>8, <1>9, <1>10, FoldPaints
<1> QED BY <1>3, <1>8, <1>11

LEMMA PaintedHonest ==
  ASSUME NEW nm, Named(nm), NEW n \in Nat, NEW s \in Store(nm, n), NEW u \in Store(nm, n), Painted(nm, s, u), L >= 2,
         NEW g, HonestAt(s, g, L), NEW h, \A x \in Keepers : h[x][L] = g[x][L]
  PROVE  HonestAt(u, h, L)
<1>1. L \in Levels
  BY LogAssumption DEF Levels
<1>2. ASSUME NEW x \in Keepers PROVE Unmoved(s, u, x, L) \/ Owes(u, x, L)
  <2>1. CASE \A c \in DOMAIN nm : nm[c] = x => SameLevel(s[c].levels[L], u[c].levels[L])
    BY <1>1, <2>1, UnmovedBy
  <2>2. ASSUME NEW c \in DOMAIN nm, nm[c] = x, ~SameLevel(s[c].levels[L], u[c].levels[L]) PROVE Owes(u, x, L)
    <3>1. u[c].levels[L].owes
      BY <2>2 DEF Painted
    <3> QED BY <1>1, <2>2, <3>1, OwesAt
  <2> QED BY <2>1, <2>2
<1> QED BY <1>2 DEF HonestAt, Unmoved

LEMMA EndStrokeTrusts ==
  ASSUME Inv, Inv', NEW ds, NEW os, Remembered(ds, os), Recounted', Trusted, EndStroke, ~SeekAcross,
         History!Close \/ History!Abandon
  PROVE  Trusted'
<1>1. PICK nm : /\ Named(nm) /\ live \in Lives(nm, used.toks) /\ used.toks \in Nat
                /\ (open /\ "mask" \in stroke.wrote => \E c \in DOMAIN nm : nm[c] = "mask")
  BY StoredAs
<1>2. open /\ future' = future /\ (past' = past \/ past' = Front(past)) /\ given' = Carried(live') /\ used' = used
  BY DEF EndStroke
<1>3. PICK u, s, h, n : u = live'.store /\ s = live.store /\ h = given' /\ n = used.toks
  OBVIOUS
<1>4. Painted(nm, s, u)
  BY <1>1, <1>2, <1>3, EndStrokePaints DEF Trusted
<1>5. s \in Store(nm, n) /\ n \in Nat
  BY <1>1, <1>3 DEF Lives
<1>6. u \in Store(nm, n)
  <2>1. PICK nu : Named(nu) /\ live' \in Lives(nu, used'.toks)
    BY DEF Inv, Stored
  <2>2. u \in Store(nu, n)
    BY <1>2, <1>3, <2>1 DEF Lives
  <2>3. DOMAIN u = DOMAIN s /\ \A c \in DOMAIN s : u[c].name = s[c].name
    BY <1>4 DEF Painted, Below, Frame
  <2>4. DOMAIN nu = DOMAIN nm /\ \A c \in DOMAIN nm : nu[c] = nm[c]
    BY <1>5, <2>2, <2>3, StoreForm, StoreHas
  <2>5. nu = nm
    BY <1>1, <2>1, <2>4 DEF Named
  <2> QED BY <2>2, <2>5
<1>7. PICK st : EndsIn(st)
  BY EndStrokeEnds
<1>8. Later(u) = Later(s)
  BY <1>3, <1>7 DEF EndsIn
<1>9. Seamless(u)
  BY <1>3 DEF Recounted, Remembered, Valued, Coherent
<1>10. h = CarriedTo(s, u, given)
  BY <1>2, <1>3, CarriedIs
<1>11. Kinds(s) /\ Fit(given) /\ \A l \in 2 .. Depth : HonestAt(s, given, l)
  BY <1>3 DEF Trusted
<1>12. /\ Kinds(u) /\ Fit(h) /\ \A x \in Keepers : h[x][L] = given[x][L]
       /\ \A l \in 2 .. Depth : l # L => HonestAt(u, h, l)
  BY <1>1, <1>4, <1>5, <1>6, <1>8, <1>9, <1>10, <1>11, CarriesOn DEF Painted
<1>13. ASSUME L >= 2 PROVE HonestAt(u, h, L) /\ AllClaim(past', h) /\ AllClaim(future', h)
  <2>1. L \in 2 .. Depth
    BY <1>13, LogAssumption
  <2>2. HonestAt(u, h, L)
    BY <1>1, <1>4, <1>5, <1>6, <1>11, <1>12, <1>13, <2>1, PaintedHonest
  <2>3. AllClaim(past, given) /\ AllClaim(future, given)
    BY <1>13 DEF Trusted
  <2>4. AllClaim(past', given)
    <3>1. CASE past' = past
      BY <2>3, <3>1
    <3>2. CASE past' # past
      <4>1. past # <<>> /\ past' = Front(past)
        BY <1>2, <3>2, HistoryEnds DEF History!Close, History!Abandon
      <4>2. PICK S : past \in Seq(S)
        BY PastsAre
      <4> QED BY <2>3, <4>1, <4>2, ListedClaims
    <3> QED BY <3>1, <3>2
  <2>5. AllClaim(past', h) /\ AllClaim(future', h)
    BY <1>2, <1>12, <2>3, <2>4, ClaimsLike
  <2> QED BY <2>2, <2>5
<1>14. \A l \in 2 .. Depth : HonestAt(u, h, l)
  BY <1>12, <1>13, LogAssumption
<1> QED BY <1>3, <1>12, <1>13, <1>14 DEF Trusted, Kinds, Fit, HonestAt, AllClaim, Claims

-----------------------------------------------------------------------------
(* A switch of the level settles what it owes.                             *)

\* What a switch of the level makes of the levels f of a channel.
Settles(f, g) ==
  /\ ~f[L].owes => \A k \in Levels : SameLevel(f[k], g[k])
  /\ f[L].owes => /\ \A k \in Levels : k # L /\ k # L - 1 => SameLevel(f[k], g[k])
                  /\ g[L].val = f[L].val /\ (g[L].held = "none" <=> f[L].held = "none")
                  /\ L > 2 => SameLevel(f[L - 1], g[L - 1]) \/ g[L - 1].owes

LEMMA SettlingHas ==
  ASSUME NEW nm, Named(nm), NEW n \in Nat, NEW lv \in Lives(nm, n), L >= 2, NEW r, r = Settling(lv)
  PROVE  /\ r \in Lives(nm, n) /\ Frame(lv.store, r.store)
         /\ \A c \in DOMAIN nm : Settles(lv.store[c].levels, r.store[c].levels)
         /\ r = lv => \A x \in Names : ~Owes(lv.store, x, L)
<1>1. L \in Levels /\ L - 1 \in Levels /\ L \in Nat
  BY LogAssumption DEF Levels
<1>2. PICK s : s = lv.store /\ s \in Store(nm, n)
  BY DEF Lives
<1>3. \A c \in DOMAIN nm : s[c].name \in Names /\ s[c].name = nm[c]
  BY <1>2, StoreHas DEF Named
<1>4. CASE \E x \in Names : Owes(s, x, L)
  <2>1. r = SettledDown(lv, L)
    BY <1>2, <1>4 DEF Settling
  <2>2. /\ r \in Lives(nm, n) /\ Frame(lv.store, r.store)
        /\ \A c \in DOMAIN nm : /\ ~lv.store[c].levels[L].owes => r.store[c] = lv.store[c]
                                /\ lv.store[c].levels[L].owes
                                     => Settled(lv.store[c].levels, r.store[c].levels, L)
    BY <2>1, SettledDownHas
  <2>3. PICK t : t = r.store
    OBVIOUS
  <2>4. ASSUME NEW c \in DOMAIN nm PROVE Settles(s[c].levels, t[c].levels)
    <3>1. PICK f, g : f = s[c].levels /\ g = t[c].levels
      OBVIOUS
    <3>2. (~f[L].owes => g = f) /\ (f[L].owes => Settled(f, g, L)) /\ DOMAIN f = Levels
      BY <1>2, <2>2, <2>3, <3>1, StoreForm DEF Levels
    <3>3. CASE ~f[L].owes
      BY <3>1, <3>2, <3>3 DEF Settles, SameLevel
    <3>4. CASE f[L].owes
      <4>1. \A k \in Levels : k # L /\ k # L - 1 => SameLevel(f[k], g[k])
        BY <3>2, <3>4 DEF Settled, SameLevel
      <4>2. L > 2 => SameLevel(f[L - 1], g[L - 1]) \/ g[L - 1].owes
        <5>1. g[L - 1].owes = (f[L - 1].owes \/ (L > 2 /\ f[L].held # "none"))
          BY <3>2, <3>4 DEF Settled
        <5>2. f[L - 1].owes \in BOOLEAN
          BY <1>1, <1>2, <3>1, StoreLevel
        <5>3. \/ g[L - 1].val = f[L - 1].val /\ g[L - 1].held = f[L - 1].held
              \/ f[L].held # "none"
          BY <3>2, <3>4 DEF Settled
        <5>4. CASE L > 2 /\ f[L].held # "none"
          BY <5>1, <5>4
        <5>5. CASE L > 2 /\ ~(f[L].held # "none")
          BY <5>1, <5>2, <5>3, <5>5 DEF SameLevel
        <5> QED BY <5>4, <5>5
      <4> QED BY <3>1, <3>2, <3>4, <4>1, <4>2 DEF Settles, Settled
    <3> QED BY <3>3, <3>4
  <2>5. r # lv
    <3>1. PICK x \in Names : Owes(s, x, L)
      BY <1>4
    <3>2. PICK c \in DOMAIN nm : s[c].levels[L].owes
      <4>1. FindChannel(s, x) \in DOMAIN nm
        BY <1>2, <3>1, FindIs DEF Owes
      <4> QED BY <3>1, <4>1 DEF Owes
    <3>3. t[c].levels[L].owes = FALSE
      BY <1>2, <2>2, <2>3, <3>2 DEF Settled
    <3> QED BY <1>2, <2>3, <3>2, <3>3
  <2> QED BY <1>2, <2>2, <2>3, <2>4, <2>5
<1>5. CASE ~\E x \in Names : Owes(s, x, L)
  <2>1. r = lv
    BY <1>2, <1>5 DEF Settling
  <2>2. \A c \in DOMAIN nm : ~s[c].levels[L].owes
    BY <1>1, <1>2, <1>3, <1>5, OwesAt
  <2> QED BY <1>2, <1>5, <2>1, <2>2 DEF Settles, SameLevel, Frame
<1> QED BY <1>4, <1>5

\* What an eviction leaves as it was.
Alive(nm, s, t) == Frame(s, t) /\ \A c \in DOMAIN nm : \A l \in Levels : SameLevel(s[c].levels[l], t[c].levels[l])

LEMMA EvictedAlive ==
  ASSUME NEW nm, NEW n \in Nat, NEW s \in Store(nm, n), NEW ls, NEW t, t = Reheld(s, ls, "chunks", "blob")
  PROVE  Alive(nm, s, t)
<1>1. /\ Frame(s, t) /\ Alike(s, t)
      /\ \A c \in DOMAIN nm : \A l \in Levels :
           /\ t[c].levels[l].val = s[c].levels[l].val /\ t[c].levels[l].owes = s[c].levels[l].owes
           /\ t[c].levels[l].tok = s[c].levels[l].tok
           /\ t[c].levels[l].held = IF l \in ls /\ s[c].levels[l].held = "chunks" THEN "blob"
                                    ELSE s[c].levels[l].held
  BY ReheldHas
<1> QED BY <1>1 DEF Alive, SameLevel

LEMMA SwitchSettles ==
  ASSUME Inv, L >= 2, NEW nm, Named(nm), live \in Lives(nm, used.toks), NEW r, r = Settling(live),
         NEW low \in 1 .. Depth + 1, NEW high \in 1 .. Depth + 1, live' = Stowed(r, low, high)
  PROVE  /\ live'.store \in Store(nm, used.toks) /\ Frame(live.store, live'.store)
         /\ \A c \in DOMAIN nm : Settles(live.store[c].levels, live'.store[c].levels)
         /\ r = live => \A x \in Names : ~Owes(live.store, x, L)
<1> DEFINE n == used.toks
           a == EvictFrom(r.store, low, L - 1)
           b == EvictFrom(a, high, L)
<1>1. n \in Nat /\ L \in Nat /\ L \in Levels /\ L - 1 \in Levels
  BY LogAssumption DEF Inv, Logged, Uses, Levels
<1>2. PICK lv : lv = live
  OBVIOUS
<1>3. /\ r \in Lives(nm, n) /\ Frame(lv.store, r.store)
      /\ \A c \in DOMAIN nm : Settles(lv.store[c].levels, r.store[c].levels)
      /\ r = lv => \A x \in Names : ~Owes(lv.store, x, L)
  <2>1. lv \in Lives(nm, n) /\ r = Settling(lv)
    BY <1>2
  <2> HIDE DEF n
  <2> QED BY <1>1, <2>1, SettlingHas
<1>4. r.store \in Store(nm, n) /\ r = [store |-> r.store, pos |-> r.pos, owes |-> r.owes, mask |-> r.mask]
  BY <1>3 DEF Lives
<1>5. a \in Store(nm, n) /\ a = Reheld(r.store, (low .. Depth) \ {L - 1}, "chunks", "blob")
  BY <1>1, <1>4, EvictedIs DEF EvictFrom, EvictLevels
<1> HIDE DEF a
<1>6. b \in Store(nm, n) /\ b = Reheld(a, (high .. Depth) \ {L}, "chunks", "blob")
  BY <1>1, <1>5, EvictedIs DEF EvictFrom, EvictLevels
<1>7. live'.store = b
  BY <1>4 DEF a, Stowed
<1> HIDE DEF b, n
<1>8. PICK s, t, ls, ms : s = lv.store /\ t = r.store /\ ls = (low .. Depth) \ {L - 1} /\ ms = (high .. Depth) \ {L}
  OBVIOUS
<1>9. t \in Store(nm, n) /\ s \in Store(nm, n) /\ DOMAIN s = DOMAIN nm
  <2>1. t \in Store(nm, n) /\ s \in Store(nm, n)
    BY <1>2, <1>4, <1>8 DEF Lives, n
  <2> QED BY <1>1, <2>1, StoreForm
<1>10. Alive(nm, t, a)
  <2>1. a = Reheld(t, ls, "chunks", "blob")
    BY <1>5, <1>8
  <2> QED BY <1>1, <1>9, <2>1, EvictedAlive
<1>11. Alive(nm, a, b)
  <2>1. b = Reheld(a, ms, "chunks", "blob") /\ a \in Store(nm, n) /\ n \in Nat
    BY <1>1, <1>5, <1>6, <1>8
  <2> QED BY <2>1, EvictedAlive
<1>12. Frame(s, b)
  <2>1. Frame(s, t)
    BY <1>3, <1>8
  <2> QED BY <1>9, <1>10, <1>11, <2>1 DEF Alive, Frame
<1>13. ASSUME NEW c \in DOMAIN nm PROVE Settles(s[c].levels, b[c].levels)
  <2>1. PICK f, g, h : f = s[c].levels /\ g = t[c].levels /\ h = b[c].levels
    OBVIOUS
  <2>2. Settles(f, g)
    BY <1>3, <1>8, <2>1
  <2>3. \A l \in Levels : SameLevel(g[l], h[l])
    BY <1>10, <1>11, <2>1 DEF Alive, SameLevel
  <2>4. Settles(f, h)
    BY <1>1, <2>2, <2>3 DEF Settles, SameLevel
  <2> QED BY <2>1, <2>4
<1> QED BY <1>2, <1>3, <1>6, <1>7, <1>8, <1>12, <1>13 DEF n

LEMMA SwitchTrusts ==
  ASSUME Inv, Inv', NEW ds, NEW os, Remembered(ds, os), Recounted', Trusted, Switch
  PROVE  Trusted'
<1>1. PICK r : r = Settling(live)
  OBVIOUS
<1>2. PICK low \in 1 .. Depth + 1, high \in 1 .. Depth + 1 :
        live' = Stowed(r, low, high)
  BY <1>1 DEF Switch, Settling, Stowed
<1>3. /\ L >= 2
      /\ given' = [n \in Names |-> [l \in Levels |->
           IF l = L /\ Owes(live.store, n, L) THEN ValueAt(live.store, n, L) ELSE given[n][l]]]
      /\ live.owes \/ r # live => past' = <<>> /\ future' = <<>>
      /\ ~(live.owes \/ r # live) => past' = past /\ future' = future
  BY <1>1 DEF Switch, Settling
<1>4. PICK nm : Named(nm) /\ live \in Lives(nm, used.toks) /\ used.toks \in Nat
  BY StoredAs
<1>5. /\ live'.store \in Store(nm, used.toks) /\ Frame(live.store, live'.store)
      /\ \A c \in DOMAIN nm : Settles(live.store[c].levels, live'.store[c].levels)
      /\ r = live => \A x \in Names : ~Owes(live.store, x, L)
  BY <1>1, <1>2, <1>3, <1>4, SwitchSettles
<1>6. PICK s, u, g, h, n : s = live.store /\ u = live'.store /\ g = given /\ h = given' /\ n = used.toks
  OBVIOUS
<1>7. s \in Store(nm, n) /\ u \in Store(nm, n) /\ n \in Nat /\ Frame(s, u)
  BY <1>4, <1>5, <1>6 DEF Lives
<1>8. \A c \in DOMAIN nm : Settles(s[c].levels, u[c].levels)
  BY <1>5, <1>6
<1>9. Kinds(s) /\ Fit(g) /\ \A l \in 2 .. Depth : HonestAt(s, g, l)
  BY <1>6 DEF Trusted
<1>10. Kinds(u)
  BY <1>7, <1>9, FrameKinds
<1>11. /\ DOMAIN h = Names /\ \A x \in Names : DOMAIN h[x] = Levels
       /\ \A x \in Names : \A l \in Levels :
            h[x][l] = IF l = L /\ Owes(s, x, L) THEN ValueAt(s, x, L) ELSE g[x][l]
  BY <1>3, <1>6
<1>12. L \in Levels /\ L \in Nat /\ \A l \in 2 .. Depth : l \in Levels /\ l \in Nat /\ l >= 2
  BY LogAssumption DEF Levels
<1>13. Fit(h)
  <2>1. Seamless(s)
    BY <1>6 DEF Remembered, Valued, Coherent
  <2>2. \A x \in Names : \A l \in Levels : h[x][l] = g[x][l] \/ Fits(h[x][l], l)
    BY <1>4, <1>7, <1>11, <1>12, <2>1, ShownFits
  <2> QED BY <1>9, <1>11, <2>2, FitNext
<1>14. ASSUME NEW l \in 2 .. Depth, NEW x \in Keepers PROVE Owes(u, x, l) \/ ValueAt(u, x, l) = h[x][l]
  <2>1. l \in Levels /\ x \in Names /\ (Owes(s, x, l) \/ ValueAt(s, x, l) = g[x][l])
    BY <1>9, <1>12, KeepersAre DEF HonestAt
  <2>2. CASE \A c \in DOMAIN nm : nm[c] = x => SameLevel(s[c].levels[l], u[c].levels[l])
    <3>1. Unmoved(s, u, x, l)
      BY <1>4, <1>7, <2>1, <2>2, UnmovedBy
    <3> QED BY <1>11, <2>1, <3>1 DEF Unmoved
  <2>3. ASSUME NEW c \in DOMAIN nm, nm[c] = x, ~SameLevel(s[c].levels[l], u[c].levels[l])
        PROVE  Owes(u, x, l) \/ ValueAt(u, x, l) = h[x][l]
    <3>1. s[c].levels[L].owes /\ (l = L \/ l = L - 1)
      BY <1>8, <2>1, <2>3 DEF Settles
    <3>2. CASE l = L
      <4>1. Owes(s, x, L)
        BY <1>4, <1>7, <1>12, <2>3, <3>1, OwesAt
      <4>2. h[x][l] = ValueAt(s, x, L)
        BY <1>11, <2>1, <3>2, <4>1
      <4>3. FindChannel(s, x) = c /\ FindChannel(u, x) = c
        BY <1>4, <1>7, <2>3, FindAt
      <4>4. u[c].levels[L].val = s[c].levels[L].val /\ (u[c].levels[L].held = "none" <=> s[c].levels[L].held = "none")
        BY <1>8, <3>1 DEF Settles
      <4>5. ValueAt(u, x, L) = ValueAt(s, x, L)
        BY <4>3, <4>4 DEF ValueAt, Allocated
      <4> QED BY <3>2, <4>2, <4>5
    <3>3. CASE l = L - 1
      <4>1. L > 2
        BY <1>12, <3>3
      <4>2. u[c].levels[l].owes
        BY <1>8, <2>3, <3>1, <3>3, <4>1 DEF Settles
      <4> QED BY <1>4, <1>7, <2>1, <2>3, <4>2, OwesAt
    <3> QED BY <3>1, <3>2, <3>3
  <2> QED BY <2>2, <2>3
<1>15. AllClaim(past', h) /\ AllClaim(future', h)
  <2>1. CASE live.owes \/ r # live
    BY <1>3, <2>1, NoClaims
  <2>2. CASE ~(live.owes \/ r # live)
    <3>1. \A x \in Keepers : h[x][L] = g[x][L]
      BY <1>5, <1>6, <1>11, <1>12, <2>2, KeepersAre
    <3>2. AllClaim(past, g) /\ AllClaim(future, g)
      BY <1>3, <1>6 DEF Trusted
    <3>3. AllClaim(past, h) /\ AllClaim(future, h)
      BY <3>1, <3>2, ClaimsLike
    <3> QED BY <1>3, <2>2, <3>3
  <2> QED BY <2>1, <2>2
<1> QED BY <1>6, <1>10, <1>13, <1>14, <1>15 DEF Trusted, Kinds, Fit, HonestAt, AllClaim, Claims

-----------------------------------------------------------------------------
(* Levels are as they were handed down, unless they owe.                   *)

\* What the levels owe, and what the documents say of it, at each step.
LEMMA StepTrusts ==
  ASSUME ~SeekAcross
  PROVE  Inv /\ Inv' /\ Recounted /\ Recounted' /\ Trusted /\ [Next]_vars => Trusted'
<1> SUFFICES ASSUME Inv, Inv', Recounted, Recounted', Trusted, [Next]_vars
             PROVE  Trusted'
  OBVIOUS
<1>1. PICK ds, os : Remembered(ds, os)
  BY DEF Recounted
<1>2. CASE BeginStroke
  BY <1>1, <1>2, BeginStrokeTrusts
<1>3. CASE Dab
  BY <1>1, <1>3, DabTrusts
<1>4. CASE EndStroke
  <2>1. History!Close \/ History!Abandon
    BY <1>1, <1>4, EndStrokeTells
  <2> QED BY <1>1, <1>4, <2>1, EndStrokeTrusts
<1>5. CASE Undo
  BY <1>1, <1>5, UndoTrusts
<1>6. CASE Redo
  BY <1>1, <1>6, RedoTrusts
<1>7. CASE DropOldest
  BY <1>1, <1>7, DropOldestTrusts
<1>8. CASE Sync
  BY <1>8, SyncTrusts
<1>9. CASE RemoveLayer
  BY <1>1, <1>9, RemoveLayerTrusts
<1>10. CASE EditMask
  BY <1>1, <1>10, EditMaskTrusts
<1>11. CASE Switch
  BY <1>1, <1>11, SwitchTrusts
<1>12. CASE UNCHANGED vars
  BY <1>12, StutterTrusts
<1> QED BY <1>2, <1>3, <1>4, <1>5, <1>6, <1>7, <1>8, <1>9, <1>10, <1>11, <1>12 DEF Next

LEMMA TrustedHonest == Inv /\ Trusted => DebtHonest
<1> SUFFICES ASSUME Inv, Trusted, NEW c \in DOMAIN live.store, NEW l \in Levels, l >= 2,
                    live.store[c].rule = "authored", live.store[c].persist, ~live.store[c].levels[l].owes
             PROVE  ValueAt(live.store, live.store[c].name, l) = given[live.store[c].name][l]
  BY DEF DebtHonest
<1>1. PICK nm : Named(nm) /\ live.store \in Store(nm, used.toks) /\ used.toks \in Nat
  BY StoredAs
<1>2. PICK s : s = live.store
  OBVIOUS
<1>3. s[c].name \in Keepers /\ l \in 2 .. Depth
  BY <1>2, LogAssumption DEF Trusted, Kinds, Levels
<1>4. c \in DOMAIN nm /\ s[c].name = nm[c]
  BY <1>1, <1>2, StoreForm, StoreHas
<1>5. ~Owes(s, nm[c], l)
  BY <1>1, <1>2, <1>4, OwesAt
<1>6. HonestAt(s, given, l)
  BY <1>2, <1>3 DEF Trusted
<1> QED BY <1>2, <1>3, <1>4, <1>5, <1>6 DEF HonestAt

(* A level that owes nothing is as it was when it was last handed down to   *)
(* the coarser one, whatever was painted, undone and settled in between:    *)
(* an edit leaves a debt where it lands (noteAttrEdit in                    *)
(* multires_propagate.cc), and a replay brings back the debts of the        *)
(* content it brings back.                                                  *)
THEOREM DebtsHonest ==
  ASSUME ~SeekAcross
  PROVE  Spec => []DebtHonest
<1>1. Init => Recounted /\ History!Init
  BY InitTells
<1>2. Inv /\ Inv' /\ Recounted /\ [Next]_vars => Recounted' /\ [History!GridNext]_(History!vars)
  BY StepTells
<1>3. Init => Trusted
  BY InitTrusts
<1>4. Inv /\ Inv' /\ Recounted /\ Recounted' /\ Trusted /\ [Next]_vars => Trusted'
  BY StepTrusts
<1>5. Inv /\ Trusted => DebtHonest
  BY TrustedHonest
<1> QED BY <1>1, <1>2, <1>3, <1>4, <1>5, Invariance, PTL DEF Spec
=============================================================================
