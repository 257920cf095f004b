------------------------- MODULE MultiresRefinement -------------------------
(***************************************************************************)
(* That the multires stack implements the plain stack of levels, where a   *)
(* session copies every dab to the resident slot, for any number of        *)
(* levels, vertices, layers and slots and any subdivision, fit, budget and *)
(* host.                                                                   *)
(*                                                                         *)
(* View(s) is the document the object s holds, without the edit in a slot. *)
(* A lemma for each operation says what it does to View(s), given that s   *)
(* is in order (Good of MultiresProofs): caches, slots and domains come    *)
(* and go without a change, and a refit, a fold or an import gives the     *)
(* levels the detail the plain stack gives them.  The document with the    *)
(* edit of a slot is the one the object has once the edit is folded, so    *)
(* that an operation that folds first still starts from it.                *)
(*                                                                         *)
(* Extra is what Inv leaves open and the steps need: an edit is one that   *)
(* shows, an open stroke knows what its level owed, and level 1 never      *)
(* owes.  Then each action is a step of the plain stack or stutters.       *)
(***************************************************************************)
EXTENDS MultiresProofs

-----------------------------------------------------------------------------
(* The operators of the plain stack are those of the object.               *)

LEMMA SameTotal ==
  ASSUME NEW d, NEW S
  PROVE  Promise!Total(d, S) = Total(d, S)
BY DEF Promise!Total, Total, Promise!MapThenSumSet, MapThenSumSet, Promise!MapThenFoldSet, MapThenFoldSet

LEMMA SameMixed ==
  ASSUME NEW on
  PROVE  Promise!Mixed(on) = Mixed(on)
BY DEF Promise!Mixed, Mixed, Promise!Base, Base

LEMMA SamePlus ==
  ASSUME NEW p, NEW q
  PROVE  Promise!Plus(p, q) = Plus(p, q) /\ Promise!Minus(p, q) = Minus(p, q)
BY DEF Promise!Plus, Plus, Promise!Minus, Minus

LEMMA SameSurface ==
  ASSUME NEW disp, NEW on, NEW l
  PROVE  Promise!Surface(disp, on, l) = Surface(disp, on, l)
BY DEF Promise!Surface, Surface, Promise!Plus, Plus, Promise!Mixed, Mixed, Promise!Base, Base,
  Promise!Total, Total, Promise!MapThenSumSet, MapThenSumSet, Promise!MapThenFoldSet, MapThenFoldSet

LEMMA SameExpress ==
  ASSUME NEW d, NEW on, NEW c, NEW b, NEW p, NEW vs
  PROVE  Promise!Express(d, on, c, b, p, vs) = Express(d, on, c, b, p, vs)
BY SameTotal, SameMixed, SamePlus DEF Promise!Express, Express

LEMMA ShownIs ==
  ASSUME NEW d, NEW l
  PROVE  /\ Promise!Shown(d, l) = Surface(d.detail, d.on, l)
         /\ Promise!Underlying(d, l) = Stencil[Surface(d.detail, d.on, l - 1)]
BY SameSurface DEF Promise!Shown, Promise!Underlying

-----------------------------------------------------------------------------
(* The document the object holds, without the edit of a slot.              *)

View(s) == [detail |-> s.disp, on |-> s.on, target |-> s.target, owes |-> s.debt,
            level |-> s.active]
Docs(n) == [detail : [1 .. n -> Detail], on : [Layers -> BOOLEAN], target : Channels,
            owes : SUBSET (2 .. n), level : 0 .. n]

LEMMA DocFields ==
  ASSUME NEW n \in Nat, NEW d \in Docs(n)
  PROVE  /\ d.detail \in [1 .. n -> Detail] /\ d.on \in [Layers -> BOOLEAN] /\ d.target \in Channels
         /\ d.owes \in SUBSET (2 .. n) /\ d.level \in 0 .. n
         /\ Len(d.detail) = n
<1>1. d.detail \in [1 .. n -> Detail]
  BY DEF Docs
<1>2. d.detail \in Seq(Detail) /\ Len(d.detail) = n
  BY <1>1
<1> QED BY <1>2 DEF Docs

\* Documents are equal when their parts are.
LEMMA DocsEqual ==
  ASSUME NEW n \in Nat, NEW d \in Docs(n), NEW e \in Docs(n), d.on = e.on, d.target = e.target,
         d.owes = e.owes, d.level = e.level, \A k \in 1 .. n : d.detail[k] = e.detail[k]
  PROVE  d = e
<1>1. d.detail = e.detail
  BY DocFields
<1> QED BY <1>1 DEF Docs

LEMMA ViewFields ==
  ASSUME NEW n \in Nat, NEW s \in Stack(n)
  PROVE  /\ View(s) \in Docs(n) /\ View(s).detail = s.disp /\ View(s).on = s.on
         /\ View(s).target = s.target /\ View(s).owes = s.debt /\ View(s).level = s.active
<1>1. /\ s.disp \in [1 .. n -> Detail] /\ s.on \in [Layers -> BOOLEAN] /\ s.target \in Channels
      /\ s.debt \in SUBSET (2 .. n) /\ s.active \in 0 .. n
  BY StackFields
<1> QED BY <1>1 DEF View, Docs

\* Nothing of the document differs.
SameView(s, t) == t.disp = s.disp /\ t.on = s.on /\ t.target = s.target /\ t.debt = s.debt
                  /\ t.active = s.active

LEMMA ViewSame ==
  ASSUME NEW s, NEW t, SameView(s, t)
  PROVE  View(t) = View(s)
BY DEF View, SameView

-----------------------------------------------------------------------------
(* A level that is given a surface.                                        *)

LEMMA ModCancel ==
  ASSUME NEW m \in Nat \ {0}, NEW b \in Int, NEW r \in Nat, NEW x \in 0 .. m - 1,
         NEW y \in 0 .. m - 1, (b + ((x + r) % m)) % m = (b + ((y + r) % m)) % m
  PROVE  x = y
<1> DEFINE u == (x + r) % m
           v == (y + r) % m
           p == (b + u) % m
           q == (b + v) % m
<1>1. x + r \in Int /\ y + r \in Int
  OBVIOUS
<1>2. u \in 0 .. m - 1 /\ \E k \in Int : x + r = u + k * m
  <2> HIDE DEF u
  <2> QED BY <1>1, ModParts DEF u
<1>3. v \in 0 .. m - 1 /\ \E k \in Int : y + r = v + k * m
  <2> HIDE DEF v
  <2> QED BY <1>1, ModParts DEF v
<1> HIDE DEF u, v
<1>4. p \in 0 .. m - 1 /\ \E k \in Int : b + u = p + k * m
  <2>1. b + u \in Int
    BY <1>2
  <2> HIDE DEF p
  <2> QED BY <2>1, ModParts DEF p
<1>5. q \in 0 .. m - 1 /\ \E k \in Int : b + v = q + k * m
  <2>1. b + v \in Int
    BY <1>3
  <2> HIDE DEF q
  <2> QED BY <2>1, ModParts DEF q
<1>6. p = q
  BY DEF u, v
<1> HIDE DEF p, q
<1>7. PICK i \in Int : b + u = p + i * m
  BY <1>4
<1>8. PICK j \in Int : b + v = q + j * m
  BY <1>5
<1>9. u = v
  <2>1. i - j \in Int /\ (i - j) * m = i * m - j * m
    BY <1>7, <1>8
  <2>2. u = v + (i - j) * m
    BY <1>2, <1>3, <1>4, <1>6, <1>7, <1>8, <2>1
  <2> QED BY <1>2, <1>3, <2>1, <2>2, ModSame
<1>10. PICK i2 \in Int : x + r = u + i2 * m
  BY <1>2
<1>11. PICK j2 \in Int : y + r = v + j2 * m
  BY <1>3
<1>12. i2 - j2 \in Int /\ (i2 - j2) * m = i2 * m - j2 * m
  BY <1>10, <1>11
<1>13. x = y + (i2 - j2) * m
  BY <1>2, <1>3, <1>9, <1>10, <1>11, <1>12
<1> QED BY <1>12, <1>13, ModSame

\* What the other channels give and the surface determine what c takes.
LEMMA Determined ==
  ASSUME NEW on, NEW c \in Mixed(on), NEW b \in Pos, NEW d \in Detail, NEW e \in Detail,
         \A x \in Channels \ {c} : d[x] = e[x],
         Plus(b, Total(d, Mixed(on))) = Plus(b, Total(e, Mixed(on)))
  PROVE  d = e
<1> DEFINE S == Mixed(on)
<1>1. S \in SUBSET Channels /\ c \in S /\ c \in Channels /\ M \in Nat \ {0}
  BY ConstantFacts
<1>2. ASSUME NEW v \in Verts PROVE d[c][v] = e[c][v]
  <2> HIDE DEF S
  <2>1. PICK r \in Nat : /\ Total(d, S \ {c})[v] = r % M
                         /\ Total(d, S)[v] = (d[c][v] + r) % M
    BY <1>1, TotalSplit
  <2>2. PICK q \in Nat : /\ Total(e, S \ {c})[v] = q % M
                         /\ Total(e, S)[v] = (e[c][v] + q) % M
    BY <1>1, TotalSplit
  <2>3. Total(d, S \ {c}) = Total(e, S \ {c})
    <3>1. S \ {c} \in SUBSET Channels /\ \A x \in S \ {c} : d[x] = e[x]
      BY <1>1
    <3> QED BY <3>1, TotalSame
  <2>4. b[v] \in Int /\ d[c][v] \in 0 .. M - 1 /\ e[c][v] \in 0 .. M - 1
    BY <1>1 DEF Pos, Detail
  <2>5. (b[v] + Total(d, S)[v]) % M = (b[v] + Total(e, S)[v]) % M
    <3>1. Plus(b, Total(d, S))[v] = Plus(b, Total(e, S))[v]
      BY DEF S
    <3> QED BY <3>1 DEF Plus
  <2>6. (e[c][v] + q) % M = (e[c][v] + r) % M
    <3>1. r % M = q % M
      BY <2>1, <2>2, <2>3
    <3> DEFINE w == e[c][v]
    <3>2. w \in Int /\ r \in Int /\ q \in Int
      BY <2>4
    <3> HIDE DEF w
    <3>3. (w + q) % M = (w + r) % M
      BY <1>1, <3>1, <3>2, ModAdd
    <3> QED BY <3>3 DEF w
  <2> DEFINE x == d[c][v]
             y == e[c][v]
             z == b[v]
  <2>7. (z + ((x + r) % M)) % M = (z + ((y + r) % M)) % M
    BY <2>1, <2>2, <2>5, <2>6
  <2>8. z \in Int /\ x \in 0 .. M - 1 /\ y \in 0 .. M - 1
    BY <2>4
  <2> HIDE DEF x, y, z
  <2>9. x = y
    BY <1>1, <2>7, <2>8, ModCancel
  <2> QED BY <2>9 DEF x, y
<1>3. d[c] = e[c]
  <2>1. d[c] \in Pos /\ e[c] \in Pos
    BY <1>1 DEF Detail
  <2> QED BY <1>2, <2>1 DEF Pos
<1>4. \A x \in Channels : d[x] = e[x]
  BY <1>3
<1> QED BY <1>4 DEF Detail

\* e is d, but that channel c of level l makes the level show p.
Gives(d, e, n, l, c, p) ==
  /\ e \in Docs(n) /\ e.on = d.on /\ e.target = d.target /\ e.owes = d.owes
  /\ e.level = d.level /\ \A k \in 1 .. n : k # l => e.detail[k] = d.detail[k]
  /\ \A x \in Channels \ {c} : e.detail[l][x] = d.detail[l][x]
  /\ Plus(Stencil[Surface(d.detail, d.on, l - 1)], Total(e.detail[l], Mixed(d.on))) = p

LEMMA GivenFields ==
  ASSUME NEW n \in Nat, NEW d \in Docs(n), NEW l \in 1 .. n, NEW c \in Mixed(d.on), NEW p \in Pos
  PROVE  Gives(d, Promise!Given(d, l, c, p), n, l, c, p)
<1> DEFINE a == l - 1
           b == Stencil[Surface(d.detail, d.on, a)]
           f == Express(d.detail[l], d.on, c, b, p, Verts)
           e == Promise!Given(d, l, c, p)
           g == [d.detail EXCEPT ![l] = f]
<1>1. d.detail \in [1 .. n -> Detail]
  BY DocFields
<1>2. Layered(d.detail, l) /\ d.detail[l] \in Detail /\ l \in Nat \ {0}
  BY <1>1 DEF Layered
<1>3. b \in Pos
  <2>1. Surface(d.detail, d.on, a) \in Pos
    BY <1>2, SurfaceStep
  <2> HIDE DEF a
  <2> QED BY <2>1, ConstantFacts
<1>4. f \in Detail /\ (\A x \in Channels \ {c} : f[x] = d.detail[l][x])
      /\ Plus(b, Total(f, Mixed(d.on))) = p
  <2> DEFINE o == d.on
             q == d.detail[l]
             vs == Verts
  <2>1. q \in Detail /\ c \in Mixed(o) /\ vs \in SUBSET Verts
        /\ \A v \in Verts \ vs : p[v] = Plus(b, Total(q, Mixed(o)))[v]
    BY <1>2
  <2> HIDE DEF o, q, b, vs
  <2>2. LET h == Express(q, o, c, b, p, vs)
        IN  /\ h \in Detail /\ \A x \in Channels \ {c} : h[x] = q[x]
            /\ Plus(b, Total(h, Mixed(o))) = p
    BY <1>3, <2>1, Expression
  <2> QED BY <2>2 DEF o, q, vs
<1>5. e = [d EXCEPT !.detail = g]
  <2>1. e = [d EXCEPT !.detail[l] = f]
    BY SameExpress, ShownIs DEF Promise!Given
  <2> HIDE DEF f, e
  <2> QED BY <1>1, <2>1 DEF Docs
<1> HIDE DEF f, e
<1>6. g \in [1 .. n -> Detail] /\ g[l] = f /\ \A k \in 1 .. n : k # l => g[k] = d.detail[k]
  BY <1>1, <1>4
<1> HIDE DEF g
<1>7. e \in Docs(n) /\ e.detail = g /\ e.on = d.on /\ e.target = d.target /\ e.owes = d.owes
      /\ e.level = d.level
  BY <1>5, <1>6 DEF Docs
<1> QED BY <1>4, <1>6, <1>7 DEF Gives, b, a, e

\* The object holds what the plain stack is given.
LEMMA GivenIs ==
  ASSUME NEW n, NEW s, Shaped(s, n), NEW t, t \in Stack(n), NEW l \in 1 .. n, NEW c \in Mixed(s.on),
         NEW p \in Pos, t.on = s.on, t.target = s.target, t.debt = s.debt, t.active = s.active,
         \A k \in 1 .. n : k # l => t.disp[k] = s.disp[k],
         \A x \in Channels \ {c} : t.disp[l][x] = s.disp[l][x], Surf(t, l) = p
  PROVE  View(t) = Promise!Given(View(s), l, c, p)
<1> DEFINE d == View(s)
           e == Promise!Given(d, l, c, p)
           a == l - 1
           b == Under(s, l)
           f == e.detail[l]
<1>1. n \in Nat /\ s \in Stack(n) /\ a \in 0 .. n /\ b \in Pos /\ l \in 1 .. n
      /\ c \in Channels
  BY ShapedFacts, ConstantFacts
<1>2. d \in Docs(n) /\ d.detail = s.disp /\ d.on = s.on /\ d.target = s.target /\ d.owes = s.debt
      /\ d.level = s.active
  BY <1>1, ViewFields
<1>3. View(t) \in Docs(n) /\ View(t).detail = t.disp /\ View(t).on = t.on
      /\ View(t).target = t.target /\ View(t).owes = t.debt /\ View(t).level = t.active
  BY <1>1, ViewFields
<1>4. Stencil[Surface(d.detail, d.on, l - 1)] = b
  BY <1>2 DEF Under, Surf
<1> HIDE DEF d, b
<1>5. /\ e \in Docs(n) /\ e.on = d.on /\ e.target = d.target /\ e.owes = d.owes
      /\ e.level = d.level /\ (\A k \in 1 .. n : k # l => e.detail[k] = d.detail[k])
      /\ (\A x \in Channels \ {c} : f[x] = d.detail[l][x])
      /\ Plus(b, Total(f, Mixed(d.on))) = p
  <2>1. c \in Mixed(d.on) /\ n \in Nat
    BY <1>1, <1>2
  <2>2. Gives(d, e, n, l, c, p)
    BY <1>2, <2>1, GivenFields
  <2> HIDE DEF e
  <2> QED BY <1>4, <2>2 DEF Gives
<1> HIDE DEF e
<1>6. f = t.disp[l]
  <2> DEFINE x == t.disp[l]
             o == s.on
  <2>1. f \in Detail
    BY <1>1, <1>5, DocFields
  <2>2. x \in Detail
    BY <1>1, StackFields
  <2>3. Plus(b, Total(x, Mixed(o))) = p
    <3>1. Surf(t, a) = Surf(s, a)
      <4>1. \A k \in 1 .. a : t.disp[k] = s.disp[k]
        BY <1>1
      <4> HIDE DEF a
      <4> QED BY <1>1, <4>1, SurfSame
    <3>2. Layered(t.disp, l) /\ l \in Nat \ {0}
      BY <1>1, StackFields DEF Layered
    <3>3. Surf(t, l) = Plus(Under(t, l), Total(t.disp[l], Mixed(t.on)))
      BY <3>2, SurfaceStep DEF Surf, Under
    <3> QED BY <3>1, <3>3 DEF Under, b, a
  <2>4. \A y \in Channels \ {c} : f[y] = x[y]
    BY <1>2, <1>5
  <2>5. Plus(b, Total(f, Mixed(o))) = Plus(b, Total(x, Mixed(o))) /\ c \in Mixed(o)
    BY <1>2, <1>5, <2>3
  <2> HIDE DEF f, x, o
  <2>6. f = x
    BY <1>1, <2>1, <2>2, <2>4, <2>5, Determined
  <2> QED BY <2>6 DEF x
<1>7. View(t) = e
  <2>1. \A k \in 1 .. n : View(t).detail[k] = e.detail[k]
    BY <1>2, <1>3, <1>5, <1>6
  <2> QED BY <1>1, <1>2, <1>3, <1>5, <2>1, DocsEqual
<1> QED BY <1>7 DEF e, d

-----------------------------------------------------------------------------
(* What leaves the document alone.                                         *)

LEMMA SameViewTwice ==
  ASSUME NEW s, NEW t, NEW u, SameView(s, t), SameView(t, u)
  PROVE  SameView(s, u)
BY DEF SameView

LEMMA InvalidatingView ==
  ASSUME NEW n, NEW s, Shaped(s, n), NEW a \in 0 .. n
  PROVE  SameView(s, InvalidateAbove(s, a))
<1> DEFINE x == DropDomains(s, a)
           c == [k \in DOMAIN x.cache |-> IF k > a THEN Dropped ELSE x.cache[k]]
           y == [x EXCEPT !.cache = c]
           gone == a + 1 .. MaxLevels
           q == Kept(y.slots, {i \in DOMAIN y.slots : y.slots[i].level \notin gone})
           t == [y EXCEPT !.slots = q]
<1>1. InvalidateAbove(s, a) = t
  BY DEF InvalidateAbove, Evicted
<1>2. n \in Nat /\ a \in Int
  BY ShapedFacts
<1>3. Shaped(x, n) /\ Frame(s, x) /\ x.disp = s.disp /\ x.debt = s.debt
  BY <1>2, Dropping
<1>4. x \in Stack(n)
  BY <1>3, ShapedFacts
<1> HIDE DEF x, c, q
<1>5. SameView(x, t)
  BY <1>4 DEF Stack, SameView
<1> QED BY <1>1, <1>3, <1>5 DEF SameView, Frame

LEMMA EvictingView ==
  ASSUME NEW n \in Nat, NEW s \in Stack(n), NEW gone
  PROVE  SameView(s, Evicted(s, gone))
<1> DEFINE q == Kept(s.slots, {i \in DOMAIN s.slots : s.slots[i].level \notin gone})
<1>1. Evicted(s, gone) = [s EXCEPT !.slots = q]
  BY DEF Evicted
<1> HIDE DEF q
<1> QED BY <1>1 DEF Stack, SameView

\* The document and the slot of a level are as they were, and so are the
\* positions that are valid.
Leaves(s, t, n, a) ==
  /\ SameView(s, t) /\ (Resident(s, a) => Resident(t, a) /\ SlotMesh(t, a) = SlotMesh(s, a))
  /\ \A k \in 1 .. n : s.cache[k].valid => t.cache[k].pos = s.cache[k].pos

LEMMA MaterializeLeaves ==
  ASSUME NEW n, NEW s, NEW D, Good(s, n, D), NEW l \in 1 .. n
  PROVE  /\ Leaves(s, Materialize(s, l), n, s.active)
         /\ s.active = l => Resident(Materialize(s, l), l)
<1> DEFINE t == Materialize(s, l)
           b == s.active
<1>1. Shaped(s, n) /\ n \in Nat /\ s \in Stack(n) /\ Distinct(s.slots) /\ l \in Nat
      /\ Len(s.slots) <= Room
  BY ShapedFacts DEF Good, UpTo
<1>2. CASE Resident(s, l)
  <2> DEFINE p == SlotMesh(s, l)
             gone == {l}
             u == Evicted(s, gone)
             w == Added(u, l, p)
  <2>1. t = w
    BY <1>2 DEF Materialize, Added
  <2>2. p \in Pos
    BY <1>1, <1>2, SlotOf
  <2>3. l \in gone /\ \A k : k \in gone => k = l
    OBVIOUS
  <2> HIDE DEF p, t, gone
  <2>4. /\ u \in Stack(n) /\ OnlySlots(s, u) /\ Distinct(u.slots)
        /\ \A k : Resident(u, k) <=> Resident(s, k) /\ k \notin gone
        /\ \A k : Resident(u, k) => SlotMesh(u, k) = SlotMesh(s, k)
    BY <1>1, EvictedSlots
  <2> HIDE DEF u
  <2>5. ~Resident(u, l)
    BY <1>2, <2>3, <2>4
  <2>6. /\ w \in Stack(n) /\ OnlySlots(u, w)
        /\ \A k : Resident(w, k) <=> Resident(u, k) \/ k = l
        /\ \A k : Resident(u, k) => SlotMesh(w, k) = SlotMesh(u, k)
        /\ SlotMesh(w, l) = p
    BY <1>1, <2>2, <2>4, <2>5, AppendSlots
  <2> HIDE DEF w
  <2>7. Resident(s, b) => Resident(w, b) /\ SlotMesh(w, b) = SlotMesh(s, b)
    <3>1. CASE b = l
      BY <2>6, <3>1 DEF p
    <3>2. CASE b # l
      BY <2>3, <2>4, <2>6, <3>2
    <3> QED BY <3>1, <3>2
  <2>8. SameView(s, w) /\ w.cache = s.cache
    BY <2>4, <2>6 DEF OnlySlots, SameView
  <2> QED BY <2>1, <2>6, <2>7, <2>8 DEF Leaves, t
<1>3. CASE ~Resident(s, l)
  <2> DEFINE u == EnsureChain(s, l)
             w == Pinned(u, l)
             p == w.cache[l].pos
             x == Added(w, l, p)
             y == x.stale \ {l}
             z == [x EXCEPT !.stale = y]
             e == EvictOverBudget(z)
  <2>1. t = e
    <3>1. t = Loaded(w, l)
      BY <1>3 DEF Materialize
    <3>2. Loaded(w, l) = EvictOverBudget([w EXCEPT !.slots = Append(@, [level |-> l, mesh |-> p]),
                                                 !.stale = @ \ {l}])
      BY DEF Loaded
    <3>3. [w EXCEPT !.slots = Append(@, [level |-> l, mesh |-> p]), !.stale = @ \ {l}] = z
      BY DEF Added
    <3> QED BY <3>1, <3>2, <3>3
  <2>2. Good(u, n, D) /\ Chained(s, u, n, l)
    BY ChainGood
  <2> HIDE DEF t, u
  <2>3. u.cache[l].valid /\ ~Resident(u, l) /\ SameView(s, u) /\ u.slots = s.slots
        /\ \A k \in 1 .. n : s.cache[k].valid => u.cache[k].pos = s.cache[k].pos
    BY <1>1, <1>3, <2>2, SlotsSame DEF Chained, OnlyCache, SameView
  <2>4. /\ Good(w, n, D) /\ w.cache[l].valid /\ ~Resident(w, l) /\ SameView(u, w)
        /\ w.slots = u.slots /\ \A k \in 1 .. n : w.cache[k].pos = u.cache[k].pos
    <3>1. CASE u.cache[l].posIsBase
      <4> DEFINE y0 == EnsureBase(u, l)
      <4>1. w = y0
        BY <3>1 DEF Pinned
      <4>2. /\ Good(y0, n, D) /\ OnlyCache(u, y0) /\ SameElse(u, y0, n, l) /\ y0.cache[l].valid
            /\ y0.cache[l].pos = u.cache[l].pos
        BY <2>2, <2>3, BaseGood
      <4> HIDE DEF y0, w
      <4> QED BY <2>3, <4>1, <4>2, SlotsSame DEF OnlyCache, SameElse, SameView
    <3>2. CASE ~u.cache[l].posIsBase
      <4>1. w = u
        BY <3>2 DEF Pinned
      <4> QED BY <2>2, <2>3, <4>1 DEF SameView
    <3> QED BY <3>1, <3>2
  <2> HIDE DEF w
  <2>5. w \in Stack(n) /\ Distinct(w.slots) /\ p \in Pos /\ Len(w.slots) <= Room
    <3>1. Shaped(w, n)
      BY <2>4 DEF Good, UpTo
    <3>2. w \in Stack(n) /\ Distinct(w.slots) /\ Len(w.slots) <= Room
      BY <3>1, ShapedFacts
    <3>3. w.cache \in [1 .. n -> PosCache]
      BY <1>1, <3>2, StackFields
    <3>4. w.cache[l] \in PosCache
      BY <3>3
    <3>5. p \in Pos
      <4> DEFINE c == w.cache[l]
      <4>1. c \in PosCache
        BY <3>4
      <4> HIDE DEF c
      <4>2. c.pos \in Pos
        BY <4>1 DEF PosCache
      <4> QED BY <4>2 DEF c
    <3> QED BY <3>2, <3>5
  <2> HIDE DEF p
  <2>6. /\ x \in Stack(n) /\ OnlySlots(w, x) /\ Distinct(x.slots)
        /\ Len(x.slots) = Len(w.slots) + 1
        /\ \A k : Resident(x, k) <=> Resident(w, k) \/ k = l
        /\ \A k : Resident(w, k) => SlotMesh(x, k) = SlotMesh(w, k)
    BY <1>1, <2>4, <2>5, AppendSlots
  <2> HIDE DEF x
  <2>7. /\ z \in Stack(n) /\ z.slots = x.slots /\ z.cache = x.cache /\ SameView(x, z)
    BY <2>6 DEF Stack, SameView
  <2> HIDE DEF z, y
  <2>8. Distinct(z.slots) /\ Len(z.slots) <= Room + 1
    <3>1. Distinct(z.slots) /\ Len(z.slots) = Len(w.slots) + 1
      BY <2>6, <2>7
    <3>2. Len(w.slots) \in Nat
      BY <2>5 DEF Distinct
    <3> QED BY <2>5, <3>1, <3>2, RoomFor
  <2>9. /\ OnlySlots(z, e)
        /\ \A k : Resident(e, k) => Resident(z, k) /\ SlotMesh(e, k) = SlotMesh(z, k)
        /\ Resident(z, z.active) => Resident(e, z.active)
    BY <1>1, <2>7, <2>8, EvictingOver
  <2> HIDE DEF e
  <2>10. /\ \A k : Resident(z, k) <=> Resident(x, k)
         /\ \A k : SlotMesh(z, k) = SlotMesh(x, k)
         /\ \A k : Resident(w, k) <=> Resident(s, k)
         /\ \A k : SlotMesh(w, k) = SlotMesh(s, k)
    BY <2>3, <2>4, <2>7, SlotsSame
  <2>11. z.active = b /\ SameView(s, e)
    BY <2>3, <2>4, <2>6, <2>7, <2>9 DEF SameView, OnlySlots
  <2>12. Resident(s, b) => Resident(e, b) /\ SlotMesh(e, b) = SlotMesh(s, b)
    BY <2>6, <2>9, <2>10, <2>11
  <2>13. \A k \in 1 .. n : s.cache[k].valid => e.cache[k].pos = s.cache[k].pos
    BY <2>3, <2>4, <2>6, <2>7, <2>9 DEF OnlySlots
  <2>14. b = l => Resident(e, l)
    BY <2>6, <2>9, <2>10, <2>11
  <2> QED BY <2>1, <2>11, <2>12, <2>13, <2>14 DEF Leaves, t
<1> QED BY <1>2, <1>3

LEMMA DomainLeaves ==
  ASSUME NEW n, NEW s, NEW D, Good(s, n, D), NEW l \in 1 .. n
  PROVE  Leaves(s, GridDomain(s, l), n, s.active)
<1> DEFINE t == GridDomain(s, l)
<1>1. /\ Good(t, n, D) /\ Frame(s, t) /\ t.disp = s.disp /\ t.slots = s.slots
      /\ t.debt = s.debt
      /\ \A k \in 1 .. n : s.cache[k].valid => t.cache[k].valid /\ t.cache[k].pos = s.cache[k].pos
  BY DomainGood
<1> HIDE DEF t
<1>2. SameView(s, t)
  BY <1>1 DEF Frame, SameView
<1> QED BY <1>1, <1>2, SlotsSame DEF Leaves, t

-----------------------------------------------------------------------------
(* Slots that are not edited.                                              *)

LEMMA CleanSlot ==
  ASSUME Unmirrored = {}, NEW n, NEW s, NEW D, Good(s, n, D), NEW k, Resident(s, k)
  PROVE  /\ k \in 1 .. n /\ k \notin s.stale /\ s.cache[k].valid /\ s.cache[k].pos = Surf(s, k)
         /\ SlotMesh(s, k) \in Pos /\ (k \notin D => SlotMesh(s, k) = Surf(s, k))
<1>1. Shaped(s, n)
  BY DEF Good, UpTo
<1>2. k \in 1 .. n /\ SlotMesh(s, k) \in Pos
  BY <1>1, ShapedFacts, SlotOf
<1> QED BY <1>2, GoodFacts

LEMMA WritebackClean ==
  ASSUME Unmirrored = {}, NEW n, NEW s, NEW D, Good(s, n, D), NEW l, l \notin D
  PROVE  Writeback(s, l) = s
<1>1. CASE ~Resident(s, l)
  BY <1>1 DEF Writeback
<1>2. CASE Resident(s, l)
  <2>1. l \notin s.stale /\ SlotMesh(s, l) = s.cache[l].pos
    BY <1>2, CleanSlot
  <2>2. Differing(s, l, SlotMesh(s, l)) = {}
    BY <2>1 DEF Differing
  <2> QED BY <1>2, <2>1, <2>2 DEF Writeback, Folded
<1> QED BY <1>1, <1>2

-----------------------------------------------------------------------------
(* The debt.                                                               *)

LEMMA WithDebt ==
  ASSUME NEW n \in Nat, NEW s \in Stack(n), NEW b \in SUBSET (2 .. n)
  PROVE  View([s EXCEPT !.debt = b]) = [View(s) EXCEPT !.owes = b]
BY DEF Stack, View

LEMMA OwingView ==
  ASSUME NEW n \in Nat, NEW s \in Stack(n), NEW l \in 1 .. n
  PROVE  View(Owing(s, l)) = Promise!Owing(View(s), l)
<1> DEFINE b == s.debt \union {l}
<1>1. CASE l >= 2
  <2>1. Owing(s, l) = [s EXCEPT !.debt = b]
    BY <1>1 DEF Owing
  <2>2. Promise!Owing(View(s), l) = [View(s) EXCEPT !.owes = b]
    BY <1>1 DEF Promise!Owing, View
  <2>3. b \in SUBSET (2 .. n)
    BY <1>1, StackFields
  <2> HIDE DEF b
  <2> QED BY <2>1, <2>2, <2>3, WithDebt
<1>2. CASE ~(l >= 2)
  BY <1>2 DEF Owing, Promise!Owing
<1> QED BY <1>1, <1>2

LEMMA PaidView ==
  ASSUME NEW n \in Nat, NEW s \in Stack(n), NEW l
  PROVE  View(Paid(s, l)) = Promise!Paid(View(s), l)
<1> DEFINE b == s.debt \ {l}
<1>1. Paid(s, l) = [s EXCEPT !.debt = b]
  BY DEF Paid
<1>2. Promise!Paid(View(s), l) = [View(s) EXCEPT !.owes = b]
  BY DEF Promise!Paid, View
<1>3. b \in SUBSET (2 .. n)
  BY StackFields
<1> HIDE DEF b
<1> QED BY <1>1, <1>2, <1>3, WithDebt

-----------------------------------------------------------------------------
(* Detail stored.                                                          *)

LEMMA OnlyCacheView ==
  ASSUME NEW s, NEW t, OnlyCache(s, t)
  PROVE  View(t) = View(s)
BY DEF OnlyCache, View

LEMMA StoredView ==
  ASSUME NEW n, NEW s, Shaped(s, n), NEW t, NEW l \in 1 .. n, NEW c \in Mixed(s.on),
         NEW p \in Pos, Stored(s, t, n, l, p, c)
  PROVE  View(t) = Promise!Given(View(s), l, c, p)
<1>1. /\ t \in Stack(n) /\ t.on = s.on /\ t.target = s.target /\ t.debt = s.debt
      /\ t.active = s.active /\ \A k \in 1 .. n : k # l => t.disp[k] = s.disp[k]
  BY DEF Stored, OnlyStore
<1>2. \A x \in Channels \ {c} : t.disp[l][x] = s.disp[l][x]
  BY DEF Stored
<1>3. Surf(t, l) = p
  BY DEF Stored
<1> QED BY <1>1, <1>2, <1>3, GivenIs

\* A level takes new positions.
LEMMA MovedView ==
  ASSUME NEW n, NEW s, NEW D, Good(s, n, D), NEW l \in 1 .. n, s.cache[l].valid,
         NEW p \in Pos, NEW vs, NEW c \in Mixed(s.on), Elsewhere(s, l, p, vs)
  PROVE  View(Moved(s, l, p, vs, c)) = Promise!Given(View(s), l, c, p)
<1> DEFINE a == l - 1
           w == DropDomains(s, a)
           u == StoreDisp(w, l, p, vs, c)
           t == [u EXCEPT !.cache[l].pos = p]
<1>1. /\ Shaped(s, n) /\ n \in Nat /\ l \in 0 .. n /\ a \in 0 .. n /\ a \in Int /\ a = l - 1
  BY ShapedFacts DEF Good, UpTo
<1>2. Moved(s, l, p, vs, c) = t
  BY DEF Moved
<1> HIDE DEF a
<1>3. /\ Shaped(w, n) /\ Frame(s, w) /\ w.disp = s.disp /\ w.cache = s.cache
      /\ w.debt = s.debt
  BY <1>1, Dropping
<1> HIDE DEF w
<1>4. /\ \A k \in 0 .. n : Surf(w, k) = Surf(s, k)
      /\ c \in Mixed(w.on)
  BY <1>1, <1>3, SurfSame DEF Frame
<1>5. Surf(w, l) = Surf(s, l) /\ Under(w, l) = Under(s, l) /\ Surf(w, a) = Surf(s, a)
  BY <1>1, <1>4 DEF Under
<1>6. RightBase(w, l)
  <2>1. /\ RightBase(s, l)
        /\ l > 1 => s.cache[a].valid /\ s.cache[a].pos = Surf(s, a)
    BY <1>1, HeldBase
  <2> QED BY <1>1, <1>3, <1>5, <2>1 DEF RightBase
<1>7. Shaped(u, n) /\ Stored(w, u, n, l, p, c)
  <2>1. vs \in SUBSET Verts /\ \A v \in Verts \ vs : p[v] = Surf(w, l)[v]
    BY <1>5 DEF Elsewhere
  <2> QED BY <1>3, <1>4, <1>6, <2>1, Storing
<1> HIDE DEF u
<1>8. OnlyCache(u, t)
  BY <1>7, Placing
<1> HIDE DEF t
<1>9. View(t) = View(u) /\ View(w) = View(s)
  BY <1>3, <1>8, OnlyCacheView DEF Frame, View
<1>10. View(u) = Promise!Given(View(w), l, c, p)
  BY <1>3, <1>4, <1>7, StoredView
<1> QED BY <1>2, <1>9, <1>10

LEMMA MixedBase ==
  ASSUME NEW s
  PROVE  Base \in Mixed(s.on)
BY ConstantFacts

\* The edit of a slot is folded.
LEMMA FoldedView ==
  ASSUME NEW n, NEW s, NEW D, Good(s, n, D), NEW l \in 1 .. n, s.cache[l].valid,
         Resident(s, l), SlotMesh(s, l) # s.cache[l].pos
  PROVE  View(Folded(s, l, SlotMesh(s, l), Differing(s, l, SlotMesh(s, l))))
           = Promise!Owing(Promise!Given(View(s), l, s.target, SlotMesh(s, l)), l)
<1> DEFINE p == SlotMesh(s, l)
           vs == Differing(s, l, p)
           c == s.target
           u == StoreDisp(s, l, p, vs, c)
           a == l - 1
           w == DropDomains(u, a)
           x == [w EXCEPT !.cache[l].pos = p]
           y == InvalidateAbove(x, l)
           t == Folded(s, l, p, vs)
<1>1. /\ Shaped(s, n) /\ n \in Nat /\ l \in 0 .. n /\ a \in 0 .. n /\ a \in Int
      /\ Distinct(s.slots) /\ c \in Mixed(s.on) /\ a = l - 1
  BY ShapedFacts DEF Good, UpTo
<1> HIDE DEF a
<1>2. p \in Pos
  BY <1>1, SlotOf
<1>3. RightBase(s, l) /\ s.cache[l].pos = Surf(s, l)
  BY <1>1, HeldBase
<1> HIDE DEF p
<1>4. vs # {}
  BY <1>1, <1>2, NoDifference DEF p
<1>5. vs \in SUBSET Verts /\ \A v \in Verts \ vs : p[v] = Surf(s, l)[v]
  BY <1>3 DEF Differing
<1>6. t = Owing(y, l)
  BY <1>4 DEF Folded, a
<1> HIDE DEF vs, c, t
<1>7. Shaped(u, n) /\ Stored(s, u, n, l, p, c)
  BY <1>1, <1>2, <1>3, <1>5, Storing
<1> HIDE DEF u
<1>8. Shaped(w, n) /\ View(w) = View(u)
  <2>1. Shaped(w, n) /\ Frame(u, w) /\ w.disp = u.disp /\ w.debt = u.debt
    BY <1>1, <1>7, Dropping
  <2> HIDE DEF w
  <2> QED BY <2>1 DEF Frame, View
<1> HIDE DEF w
<1>9. Shaped(x, n) /\ View(x) = View(w)
  <2>1. Shaped(x, n) /\ OnlyCache(w, x)
    BY <1>2, <1>8, Placing
  <2> HIDE DEF x
  <2> QED BY <2>1, OnlyCacheView
<1> HIDE DEF x
<1>10. y \in Stack(n) /\ View(y) = View(x)
  <2>1. Shaped(y, n)
    BY <1>1, <1>9, InvalidatingShape
  <2>2. SameView(x, y)
    BY <1>1, <1>9, InvalidatingView
  <2> HIDE DEF y
  <2> QED BY <2>1, <2>2, ShapedFacts, ViewSame
<1> HIDE DEF y
<1>11. View(u) = Promise!Given(View(s), l, c, p)
  BY <1>1, <1>2, <1>7, StoredView
<1>12. View(Owing(y, l)) = Promise!Owing(View(y), l)
  BY <1>1, <1>10, OwingView
<1> QED BY <1>6, <1>8, <1>9, <1>10, <1>11, <1>12 DEF t, vs, p, c

-----------------------------------------------------------------------------
(* Levels refitted.                                                        *)

LEMMA LoweredView ==
  ASSUME NEW n, NEW s, NEW D, Good(s, n, D), NEW l \in 2 .. n, s.cache[l].valid, NEW p \in Pos
  PROVE  View(Lowered(s, l, p)) = Promise!Given(View(s), l - 1, Base, p)
<1> DEFINE m == l - 1
           vs == Differing(s, m, p)
           c == Base
           u == Moved(s, m, p, vs, c)
           t == [u EXCEPT !.cache[l].base = NoBase, !.cache[l].posIsBase = FALSE]
<1>1. /\ Shaped(s, n) /\ n \in Nat /\ l \in 1 .. n /\ l > 1 /\ m \in 1 .. n /\ m = l - 1 /\ m # l
      /\ m \in 0 .. n /\ l \in 0 .. n
  BY ShapedFacts DEF Good, UpTo
<1>2. s.cache[m].valid /\ s.cache[m].pos = Surf(s, m)
  BY <1>1, HeldBase
<1>3. Lowered(s, l, p) = t
  <2>1. l - 2 = m - 1
    BY <1>1
  <2> QED BY <2>1 DEF Lowered, Moved
<1>4. c \in Mixed(s.on) /\ Elsewhere(s, m, p, vs)
  BY <1>2, ConstantFacts DEF Differing, Elsewhere
<1> HIDE DEF m, vs, c
<1>5. View(u) = Promise!Given(View(s), m, c, p)
  BY <1>1, <1>2, <1>4, MovedView
<1>6. Shaped(u, n)
  <2>1. Lifted(s, u, n, D, m, p)
    BY <1>1, <1>2, <1>4, MovedUpTo
  <2> HIDE DEF u
  <2> QED BY <2>1 DEF Lifted
<1> HIDE DEF u
<1>7. OnlyCache(u, t)
  BY <1>1, <1>6, Rebasing
<1> HIDE DEF t
<1>8. View(t) = View(u)
  BY <1>7, OnlyCacheView
<1> QED BY <1>3, <1>5, <1>8 DEF m, c

LEMMA RestoredView ==
  ASSUME NEW n, NEW s, NEW D, Good(s, n, D), NEW l \in 2 .. n, s.cache[l].valid, NEW p \in Pos
  PROVE  View(Restored(Lowered(s, l, p), l, s.cache[l].pos)) = Promise!Refitted(View(s), l, p)
<1> DEFINE m == l - 1
           E == D \union {m}
           fine == s.cache[l].pos
           c == Base
           vs == Verts
           x == Lowered(s, l, p)
           y == StoreDisp(x, l, fine, vs, c)
           z == [y EXCEPT !.cache[l].pos = fine]
<1>1. /\ Shaped(s, n) /\ n \in Nat /\ l \in 1 .. n /\ m \in 1 .. n /\ m = l - 1 /\ m # l
      /\ s.cache[l] \in PosCache
  <2>1. Shaped(s, n) /\ n \in Nat /\ s \in Stack(n)
    BY ShapedFacts DEF Good, UpTo
  <2>2. s.cache \in [1 .. n -> PosCache]
    BY <2>1, StackFields
  <2> QED BY <2>1, <2>2
<1>2. fine = Surf(s, l) /\ fine \in Pos
  BY <1>1, GoodFacts DEF PosCache
<1>3. Promise!Shown(View(s), l) = fine
  <2>1. View(s).detail = s.disp /\ View(s).on = s.on
    BY DEF View
  <2> QED BY <1>2, <2>1, ShownIs DEF Surf
<1> HIDE DEF fine
<1>4. Restored(x, l, fine) = z
  BY DEF Restored
<1>5. /\ Shaped(x, n) /\ UpTo(x, n, m, E) /\ Rest(s, x)
      /\ Untouched(s, x, n, l - 2)
      /\ Surf(x, m) = p /\ x.cache[m].pos = p /\ x.cache[m].valid
      /\ x.cache[l].pos = fine /\ x.cache[l].valid
      /\ x.cache[l].base = NoBase /\ ~x.cache[l].posIsBase /\ x.disp[l] = s.disp[l]
  BY LoweredUpTo DEF fine
<1>6. View(x) = Promise!Given(View(s), m, c, p)
  BY LoweredView
<1> HIDE DEF x
<1>7. RightBase(x, l)
  BY <1>1, <1>5 DEF RightBase
<1>8. c \in Mixed(x.on) /\ vs \in SUBSET Verts /\ \A v \in Verts \ vs : fine[v] = Surf(x, l)[v]
  BY ConstantFacts
<1> HIDE DEF c, vs, m, E
<1>9. Shaped(y, n) /\ Stored(x, y, n, l, fine, c)
  BY <1>1, <1>2, <1>5, <1>7, <1>8, Storing
<1> HIDE DEF y
<1>10. OnlyCache(y, z)
  BY <1>1, <1>2, <1>9, Placing
<1> HIDE DEF z
<1>11. View(z) = View(y)
  BY <1>10, OnlyCacheView
<1>12. View(y) = Promise!Given(View(x), l, c, fine)
  BY <1>2, <1>5, <1>8, <1>9, StoredView
<1>13. Promise!Refitted(View(s), l, p)
         = Promise!Given(Promise!Given(View(s), m, c, p), l, c, fine)
  BY <1>1, <1>3 DEF Promise!Refitted, Promise!Base, Base, c
<1> QED BY <1>4, <1>6, <1>11, <1>12, <1>13 DEF x, fine

LEMMA FittedView ==
  ASSUME NEW n, NEW s, NEW D, Good(s, n, D), NEW l \in 2 .. n, s.cache[l].valid, l \notin D,
         NEW p \in Pos
  PROVE  View(Fitted(s, l, p))
           = Promise!Owing(Promise!Paid(Promise!Refitted(View(s), l, p), l), l - 1)
<1> DEFINE m == l - 1
           E == D \union {m}
           z == Restored(Lowered(s, l, p), l, s.cache[l].pos)
           i == InvalidateAbove(z, l)
           e == Evicted(i, {m})
           t == Shown(e, m)
           w == Paid(t, l)
<1>1. /\ Shaped(s, n) /\ n \in Nat /\ l \in 1 .. n /\ l \in 0 .. n /\ m \in 1 .. n /\ m = l - 1
  BY ShapedFacts DEF Good, UpTo
<1>2. Fitted(s, l, p) = Owing(w, m)
  BY DEF Fitted, CommitFit
<1>3. UpTo(z, n, l, E)
  BY RestoredUpTo
<1>4. View(z) = Promise!Refitted(View(s), l, p)
  BY RestoredView
<1> HIDE DEF z, E, m
<1>5. Good(i, n, E) /\ Shaped(z, n)
  BY <1>1, <1>3, Invalidating DEF UpTo
<1>6. View(i) = View(z)
  BY <1>1, <1>5, InvalidatingView, ViewSame
<1> HIDE DEF i
<1>7. Good(e, n, D)
  BY <1>5, EvictingOne DEF E
<1>8. View(e) = View(i)
  <2>1. n \in Nat /\ i \in Stack(n)
    BY <1>1, <1>5, ShapedFacts DEF Good, UpTo
  <2> QED BY <2>1, EvictingView, ViewSame
<1> HIDE DEF e
<1>9. Good(t, n, D) /\ View(t) = View(e)
  <2>1. CASE e.active = m
    <3> DEFINE x == Materialize(e, m)
    <3>1. t = x
      BY <2>1 DEF Shown
    <3>2. Good(x, n, D) /\ Leaves(e, x, n, e.active)
      BY <1>1, <1>7, MaterializeGood, MaterializeLeaves
    <3> HIDE DEF x, t
    <3> QED BY <3>1, <3>2, ViewSame DEF Leaves
  <2>2. CASE e.active # m
    BY <1>7, <2>2 DEF Shown
  <2> QED BY <2>1, <2>2
<1> HIDE DEF t
<1>10. t \in Stack(n) /\ w \in Stack(n)
  <2>1. Good(w, n, D)
    BY <1>9, PaidGood
  <2> HIDE DEF w
  <2> QED BY <1>9, <2>1, ShapedFacts DEF Good, UpTo
<1>11. View(w) = Promise!Paid(View(t), l)
  BY <1>1, <1>10, PaidView
<1> HIDE DEF w
<1>12. View(Owing(w, m)) = Promise!Owing(View(w), m)
  BY <1>1, <1>10, OwingView
<1> QED BY <1>2, <1>4, <1>6, <1>8, <1>9, <1>11, <1>12 DEF m

LEMMA ViewShown ==
  ASSUME NEW s, NEW l
  PROVE  Promise!Shown(View(s), l) = Surf(s, l)
<1>1. View(s).detail = s.disp /\ View(s).on = s.on
  BY DEF View
<1> QED BY <1>1, ShownIs DEF Surf

\* A level is pushed down, or fitted, as in the plain stack.
LEMMA PropagateView ==
  ASSUME Unmirrored = {}, NEW n, NEW s, NEW D, Good(s, n, D), NEW l \in 2 .. n, l \notin D
  PROVE  View(PropagateDown(s, l)) = Promise!PushedDown(View(s), l)
<1> DEFINE u == EnsureChain(s, l)
           q == u.cache[l].pos
           p == FullWeight[q]
           t == PushedDown(u, l, p)
<1>1. PropagateDown(s, l) = t
  BY WritebackClean DEF PropagateDown, Weighted, Current
<1>2. l \in 1 .. n /\ n \in Nat /\ l - 1 \in 1 .. n /\ l - 1 \in 1 .. l /\ l \in 1 .. l
  BY ShapedFacts DEF Good, UpTo
<1>3. Good(u, n, D) /\ Chained(s, u, n, l)
  BY <1>2, ChainGood
<1> HIDE DEF u
<1>4. View(u) = View(s)
  BY <1>3, OnlyCacheView DEF Chained
<1>5. u.cache[l].valid /\ u.cache[l - 1].valid
  BY <1>2, <1>3 DEF Chained
<1>6. q = Surf(u, l) /\ u.cache[l - 1].pos = Surf(u, l - 1)
  BY <1>2, <1>3, <1>5, GoodFacts
<1>7. Shaped(u, n) /\ u \in Stack(n) /\ q \in Pos
  <2>1. Shaped(u, n)
    BY <1>3 DEF Good, UpTo
  <2>2. l \in 0 .. n
    BY <1>2
  <2> QED BY <1>6, <2>1, <2>2, ShapedFacts
<1>8. p \in Pos
  BY <1>7, ConstantFacts
<1>9. Promise!PushedDown(View(s), l) = Promise!Moved(View(u), l, p)
  BY <1>4, <1>6, ViewShown DEF Promise!PushedDown
<1>10. Promise!Shown(View(u), l - 1) = u.cache[l - 1].pos
  BY <1>6, ViewShown
<1> HIDE DEF q, p
<1>11. CASE p = u.cache[l - 1].pos
  <2>1. t = Paid(u, l)
    BY <1>11 DEF PushedDown
  <2>2. Promise!Moved(View(u), l, p) = Promise!Paid(View(u), l)
    BY <1>10, <1>11 DEF Promise!Moved
  <2>3. View(Paid(u, l)) = Promise!Paid(View(u), l)
    BY <1>2, <1>7, PaidView
  <2> QED BY <1>1, <1>9, <2>1, <2>2, <2>3
<1>12. CASE p # u.cache[l - 1].pos
  <2>1. t = Fitted(u, l, p)
    BY <1>12 DEF PushedDown
  <2>2. Promise!Moved(View(u), l, p)
          = Promise!Owing(Promise!Paid(Promise!Refitted(View(u), l, p), l), l - 1)
    BY <1>10, <1>12 DEF Promise!Moved
  <2>3. View(Fitted(u, l, p))
          = Promise!Owing(Promise!Paid(Promise!Refitted(View(u), l, p), l), l - 1)
    BY <1>3, <1>5, <1>8, FittedView
  <2> QED BY <1>1, <1>9, <2>1, <2>2, <2>3
<1> QED BY <1>11, <1>12

-----------------------------------------------------------------------------
(* What a refit keeps.                                                     *)

\* A level that shows what it did carries the ones above it along.
LEMMA SurfaceAbove ==
  ASSUME NEW n \in Nat, NEW disp \in [1 .. n -> Detail], NEW other \in [1 .. n -> Detail], NEW on,
         NEW l \in 1 .. n, Surface(other, on, l) = Surface(disp, on, l),
         \A k \in 1 .. n : k > l => other[k] = disp[k]
  PROVE  \A k \in l .. n : Surface(other, on, k) = Surface(disp, on, k)
<1> DEFINE m == n - l
           P == {j \in 0 .. m : Surface(other, on, l + j) = Surface(disp, on, l + j)}
<1>1. m \in Nat /\ m = n - l
  OBVIOUS
<1> HIDE DEF m
<1>2. 0 \in P
  <2>1. l + 0 = l
    OBVIOUS
  <2> QED BY <1>1, <2>1
<1>3. ASSUME NEW j \in 1 .. m, j - 1 \in P PROVE j \in P
  <2> DEFINE k == l + j
  <2>1. k \in Nat \ {0} /\ k \in 1 .. n /\ k > l /\ k - 1 = l + (j - 1) /\ j \in 0 .. m
    BY <1>1
  <2>2. Layered(disp, k) /\ Layered(other, k)
    BY <2>1 DEF Layered
  <2>3. Surface(other, on, k - 1) = Surface(disp, on, k - 1)
    BY <1>3, <2>1
  <2>4. other[k] = disp[k]
    BY <2>1
  <2> HIDE DEF k
  <2>5. Surface(other, on, k) = Surface(disp, on, k)
    BY <2>1, <2>2, <2>3, <2>4, SurfaceStep
  <2> QED BY <2>1, <2>5 DEF k
<1> HIDE DEF P
<1>4. \A j \in 0 .. m : j \in P
  BY <1>1, <1>2, <1>3, NextIn
<1>5. ASSUME NEW k \in l .. n PROVE Surface(other, on, k) = Surface(disp, on, k)
  <2> DEFINE j == k - l
  <2>1. j \in 0 .. m /\ k = l + j
    BY <1>1
  <2> HIDE DEF j
  <2> QED BY <1>4, <2>1 DEF P
<1> QED BY <1>5

\* e is a document in which the levels from l on show what they do in d.
KeepsAbove(d, e, n, l) ==
  /\ e \in Docs(n) /\ e.on = d.on /\ e.target = d.target /\ e.level = d.level
  /\ \A k \in l .. n : Promise!Shown(e, k) = Promise!Shown(d, k)

LEMMA RefittedKeeps ==
  ASSUME NEW n \in Nat, NEW d \in Docs(n), NEW l \in 2 .. n, NEW p \in Pos
  PROVE  KeepsAbove(d, Promise!Refitted(d, l, p), n, l)
<1> DEFINE m == l - 1
           c == Base
           fine == Promise!Shown(d, l)
           x == Promise!Given(d, m, c, p)
           y == Promise!Given(x, l, c, fine)
<1>1. l \in 1 .. n /\ m \in 1 .. n /\ m # l /\ m = l - 1 /\ l \in Nat \ {0} /\ m \in Nat
  OBVIOUS
<1>2. Promise!Refitted(d, l, p) = y
  BY DEF Promise!Refitted, Promise!Base, Base
<1>3. fine = Surface(d.detail, d.on, l)
  BY ShownIs
<1>4. d.detail \in [1 .. n -> Detail]
  BY DocFields
<1>5. fine \in Pos
  <2>1. Layered(d.detail, l)
    BY <1>4 DEF Layered
  <2> QED BY <1>1, <1>3, <2>1, SurfaceStep
<1> HIDE DEF m, c, fine
<1>6. c \in Mixed(d.on)
  BY ConstantFacts DEF c
<1>7. Gives(d, x, n, m, c, p)
  BY <1>1, <1>6, GivenFields
<1> HIDE DEF x
<1>8. x \in Docs(n) /\ x.on = d.on /\ x.target = d.target /\ x.level = d.level
      /\ \A k \in 1 .. n : k # m => x.detail[k] = d.detail[k]
  BY <1>7 DEF Gives
<1>9. c \in Mixed(x.on)
  BY ConstantFacts DEF c
<1>10. Gives(x, y, n, l, c, fine)
  BY <1>1, <1>5, <1>8, <1>9, GivenFields
<1> HIDE DEF y
<1>11. /\ y \in Docs(n) /\ y.on = x.on /\ y.target = x.target /\ y.level = x.level
       /\ \A k \in 1 .. n : k # l => y.detail[k] = x.detail[k]
       /\ Plus(Stencil[Surface(x.detail, x.on, m)], Total(y.detail[l], Mixed(x.on))) = fine
  BY <1>1, <1>10 DEF Gives
<1>12. y.detail \in [1 .. n -> Detail] /\ x.detail \in [1 .. n -> Detail]
  BY <1>8, <1>11, DocFields
<1>13. Surface(y.detail, d.on, l) = Surface(d.detail, d.on, l)
  <2> DEFINE o == d.on
  <2>1. Surface(y.detail, o, m) = Surface(x.detail, o, m)
    <3>1. Layered(x.detail, m) /\ \A k \in 1 .. m : y.detail[k] = x.detail[k]
      BY <1>1, <1>11, <1>12 DEF Layered
    <3> HIDE DEF o
    <3> QED BY <1>1, <3>1, SurfaceSame
  <2>2. Layered(y.detail, l)
    BY <1>12 DEF Layered
  <2>3. Surface(y.detail, o, l) = Plus(Stencil[Surface(y.detail, o, l - 1)], Total(y.detail[l], Mixed(o)))
    <3> HIDE DEF o
    <3> QED BY <1>1, <2>2, SurfaceStep
  <2> QED BY <1>1, <1>3, <1>8, <1>11, <2>1, <2>3
<1>14. \A k \in 1 .. n : k > l => y.detail[k] = d.detail[k]
  BY <1>1, <1>8, <1>11
<1>15. \A k \in l .. n : Surface(y.detail, d.on, k) = Surface(d.detail, d.on, k)
  <2> DEFINE o == d.on
             f == d.detail
             g == y.detail
  <2>1. f \in [1 .. n -> Detail] /\ g \in [1 .. n -> Detail] /\ Surface(g, o, l) = Surface(f, o, l)
        /\ \A k \in 1 .. n : k > l => g[k] = f[k]
    BY <1>4, <1>12, <1>13, <1>14
  <2> HIDE DEF f, g, o
  <2>2. \A k \in l .. n : Surface(g, o, k) = Surface(f, o, k)
    BY <1>1, <2>1, SurfaceAbove
  <2> QED BY <2>2 DEF f, g, o
<1> QED BY <1>2, <1>8, <1>11, <1>15, ShownIs DEF KeepsAbove

LEMMA DebtKeeps ==
  ASSUME NEW n \in Nat, NEW d, NEW e \in Docs(n), NEW l \in 2 .. n, KeepsAbove(d, e, n, l)
  PROVE  KeepsAbove(d, Promise!Paid(e, l), n, l)
         /\ KeepsAbove(d, Promise!Owing(Promise!Paid(e, l), l - 1), n, l)
<1> DEFINE b == e.owes \ {l}
           f == [e EXCEPT !.owes = b]
           g == IF l - 1 >= 2 THEN b \union {l - 1} ELSE b
           h == [e EXCEPT !.owes = g]
<1>1. Promise!Paid(e, l) = f /\ Promise!Owing(f, l - 1) = h
  <2>1. Promise!Paid(e, l) = f
    BY DEF Promise!Paid
  <2>2. f.owes = b /\ f = [e EXCEPT !.owes = b]
    BY DEF Docs
  <2>3. CASE l - 1 >= 2
    <3>1. Promise!Owing(f, l - 1) = [f EXCEPT !.owes = @ \union {l - 1}]
      BY <2>3 DEF Promise!Owing
    <3>2. [f EXCEPT !.owes = @ \union {l - 1}] = [f EXCEPT !.owes = b \union {l - 1}]
      BY <2>2
    <3>3. [f EXCEPT !.owes = b \union {l - 1}] = h
      BY <2>3 DEF Docs
    <3> QED BY <2>1, <3>1, <3>2, <3>3
  <2>4. CASE ~(l - 1 >= 2)
    BY <2>1, <2>4 DEF Promise!Owing
  <2> QED BY <2>3, <2>4
<1>2. b \in SUBSET (2 .. n) /\ g \in SUBSET (2 .. n)
  BY DocFields
<1> HIDE DEF b, g
<1>3. /\ f \in Docs(n) /\ f.on = e.on /\ f.target = e.target /\ f.level = e.level
      /\ f.detail = e.detail
      /\ h \in Docs(n) /\ h.on = e.on /\ h.target = e.target /\ h.level = e.level
      /\ h.detail = e.detail
  BY <1>2 DEF Docs
<1> HIDE DEF f, h
<1>4. \A k : Promise!Shown(f, k) = Promise!Shown(e, k) /\ Promise!Shown(h, k) = Promise!Shown(e, k)
  BY <1>3, ShownIs
<1> QED BY <1>1, <1>3, <1>4 DEF KeepsAbove

LEMMA PushedKeeps ==
  ASSUME NEW n \in Nat, NEW d \in Docs(n), NEW l \in 2 .. n
  PROVE  KeepsAbove(d, Promise!PushedDown(d, l), n, l)
<1> DEFINE q == Promise!Shown(d, l)
           p == FullWeight[q]
           r == Promise!Refitted(d, l, p)
<1>1. p \in Pos
  <2>1. d.detail \in [1 .. n -> Detail] /\ q = Surface(d.detail, d.on, l) /\ l \in Nat \ {0}
    BY DocFields, ShownIs
  <2>2. Layered(d.detail, l)
    BY <2>1 DEF Layered
  <2>3. q \in Pos
    BY <2>1, <2>2, SurfaceStep
  <2> QED BY <2>3, ConstantFacts
<1>2. Promise!PushedDown(d, l) = Promise!Moved(d, l, p)
  BY DEF Promise!PushedDown
<1> HIDE DEF p
<1>3. KeepsAbove(d, r, n, l)
  BY <1>1, RefittedKeeps
<1>4. r \in Docs(n)
  BY <1>3 DEF KeepsAbove
<1>5. KeepsAbove(d, d, n, l)
  BY DEF KeepsAbove
<1>6. Promise!Moved(d, l, p) = IF p = Promise!Shown(d, l - 1) THEN Promise!Paid(d, l)
                               ELSE Promise!Owing(Promise!Paid(r, l), l - 1)
  BY DEF Promise!Moved
<1> HIDE DEF r
<1> QED BY <1>2, <1>3, <1>4, <1>5, <1>6, DebtKeeps

LEMMA RefittedView ==
  ASSUME Unmirrored = {}, NEW n, NEW s, NEW D, Good(s, n, D), NEW l \in 2 .. n, l \notin D
  PROVE  View(Refitted(s, l))
           = Promise!LeftAlone(View(s), l, LeastSquares[Promise!Shown(View(s), l)])
<1> DEFINE u == EnsureChain(s, l)
           q == u.cache[l].pos
           p == LeastSquares[q]
           t == LeastSquared(u, l, p)
<1>1. Refitted(s, l) = t
  BY WritebackClean DEF Refitted, Solved, Current
<1>2. l \in 1 .. n /\ n \in Nat /\ l - 1 \in 1 .. n /\ l - 1 \in 1 .. l /\ l \in 1 .. l
  BY ShapedFacts DEF Good, UpTo
<1>3. Good(u, n, D) /\ Chained(s, u, n, l)
  BY <1>2, ChainGood
<1> HIDE DEF u
<1>4. View(u) = View(s)
  BY <1>3, OnlyCacheView DEF Chained
<1>5. u.cache[l].valid /\ u.cache[l - 1].valid
  BY <1>2, <1>3 DEF Chained
<1>6. q = Surf(u, l) /\ u.cache[l - 1].pos = Surf(u, l - 1)
  BY <1>2, <1>3, <1>5, GoodFacts
<1>7. Shaped(u, n) /\ u \in Stack(n) /\ q \in Pos
  <2>1. Shaped(u, n)
    BY <1>3 DEF Good, UpTo
  <2>2. l \in 0 .. n
    BY <1>2
  <2> QED BY <1>6, <2>1, <2>2, ShapedFacts
<1>8. p \in Pos
  BY <1>7, ConstantFacts
<1>9. Promise!LeftAlone(View(s), l, LeastSquares[Promise!Shown(View(s), l)])
        = Promise!LeftAlone(View(u), l, p)
  BY <1>4, <1>6, ViewShown
<1>10. Promise!Shown(View(u), l - 1) = u.cache[l - 1].pos
  BY <1>6, ViewShown
<1> HIDE DEF q, p
<1>11. CASE p = u.cache[l - 1].pos
  <2>1. t = u
    BY <1>11 DEF LeastSquared
  <2>2. Promise!LeftAlone(View(u), l, p) = View(u)
    BY <1>10, <1>11 DEF Promise!LeftAlone
  <2> QED BY <1>1, <1>9, <2>1, <2>2
<1>12. CASE p # u.cache[l - 1].pos
  <2>1. t = Fitted(u, l, p)
    BY <1>12 DEF LeastSquared
  <2>2. Promise!LeftAlone(View(u), l, p)
          = Promise!Owing(Promise!Paid(Promise!Refitted(View(u), l, p), l), l - 1)
    BY <1>10, <1>12 DEF Promise!LeftAlone, Promise!Moved
  <2>3. View(Fitted(u, l, p))
          = Promise!Owing(Promise!Paid(Promise!Refitted(View(u), l, p), l), l - 1)
    BY <1>3, <1>5, <1>8, FittedView
  <2> QED BY <1>1, <1>9, <2>1, <2>2, <2>3
<1> QED BY <1>11, <1>12

LEMMA PropagateShows ==
  ASSUME Unmirrored = {}, NEW n, NEW s, NEW D, Good(s, n, D), NEW l \in 2 .. n, l \notin D
  PROVE  \A k \in l .. n : Surf(PropagateDown(s, l), k) = Surf(s, k)
<1>1. n \in Nat /\ s \in Stack(n)
  BY ShapedFacts DEF Good, UpTo
<1> DEFINE d == View(s)
<1>2. d \in Docs(n)
  BY <1>1, ViewFields
<1> HIDE DEF d
<1>3. KeepsAbove(d, Promise!PushedDown(d, l), n, l)
  BY <1>1, <1>2, PushedKeeps
<1>4. View(PropagateDown(s, l)) = Promise!PushedDown(d, l)
  BY PropagateView DEF d
<1> QED BY <1>3, <1>4, ViewShown DEF KeepsAbove, d

\* One level of a cascade.
CascadeStep(u, l, lazily) == IF lazily /\ l \notin u.debt THEN u ELSE PropagateDown(u, l)
PushStep(e, l, all) == IF all \/ l \in e.owes THEN Promise!PushedDown(e, l) ELSE e

LEMMA StepView ==
  ASSUME Unmirrored = {}, NEW n, NEW s, Good(s, n, {}), NEW l \in 2 .. n, NEW lazily \in BOOLEAN
  PROVE  /\ View(CascadeStep(s, l, lazily)) = PushStep(View(s), l, ~lazily)
         /\ Good(CascadeStep(s, l, lazily), n, {})
         /\ \A k \in l .. n : Surf(CascadeStep(s, l, lazily), k) = Surf(s, k)
<1> DEFINE D == {}
           t == PropagateDown(s, l)
<1>1. Good(s, n, D) /\ l \notin D
  OBVIOUS
<1>2. View(s).owes = s.debt
  BY DEF View
<1>3. CASE lazily /\ l \notin s.debt
  BY <1>2, <1>3 DEF CascadeStep, PushStep
<1>4. CASE ~(lazily /\ l \notin s.debt)
  <2> HIDE DEF D, t
  <2>1. Good(t, n, D \ {l})
    BY <1>1, PropagateGood DEF t
  <2>2. D \ {l} = {}
    BY DEF D
  <2>3. View(t) = Promise!PushedDown(View(s), l) /\ \A k \in l .. n : Surf(t, k) = Surf(s, k)
    BY <1>1, PropagateView, PropagateShows DEF t
  <2>4. CascadeStep(s, l, lazily) = t
    BY <1>4 DEF CascadeStep, t
  <2>5. PushStep(View(s), l, ~lazily) = Promise!PushedDown(View(s), l)
    BY <1>2, <1>4 DEF PushStep
  <2>6. Good(t, n, {})
    BY <2>1, <2>2
  <2> QED BY <2>3, <2>4, <2>5, <2>6
<1> QED BY <1>3, <1>4

\* The levels that are pushed down.
LEMMA CascadeView ==
  ASSUME Unmirrored = {}, NEW n, NEW s, Good(s, n, {}), NEW from \in 1 .. n, NEW to \in 1 .. from,
         NEW lazily \in BOOLEAN
  PROVE  /\ View(Cascade(s, from, to, lazily)) = Promise!Pushed(View(s), from, to, ~lazily)
         /\ Surf(Cascade(s, from, to, lazily), from) = Surf(s, from)
<1> DEFINE step(u, l) == IF lazily /\ l \notin u.debt THEN u ELSE PropagateDown(u, l)
           r == from - to
           at(k) == from + 1 - k
           S == {u \in Stack(n) : Good(u, n, {}) /\ Surf(u, from) = Surf(s, from)}
           g == [k \in 1 .. r |-> [u \in S |-> step(u, at(k))]]
           F(h) == [k \in 0 .. r |-> IF k = 0 THEN s ELSE step(h[k - 1], at(k))]
           f == CHOOSE h : h = F(h)
           push(e, l) == IF ~lazily \/ l \in e.owes THEN Promise!PushedDown(e, l) ELSE e
           A(h) == [k \in 0 .. r |-> IF k = 0 THEN View(s) ELSE push(h[k - 1], at(k))]
           a == CHOOSE h : h = A(h)
<1>1. n \in Nat /\ s \in Stack(n) /\ from \in Int /\ to \in Int /\ from >= to
  BY ShapedFacts DEF Good, UpTo
<1>2. r \in Nat /\ \A k \in 1 .. r : at(k) \in 2 .. n /\ k - 1 \in 0 .. r /\ from \in at(k) .. n
  BY <1>1
<1>3. Cascade(s, from, to, lazily) = f[r]
  <2>1. Max({to, 1}) = to
    BY <1>1, MaxOfTwo
  <2>2. Max({from - to, 0}) = r
    <3>1. r \in Int /\ r >= 0
      BY <1>1
    <3> HIDE DEF r
    <3>2. Max({r, 0}) = r
      BY <3>1, MaxOfTwo
    <3> QED BY <3>2 DEF r
  <2> QED BY <2>1, <2>2 DEF Cascade
<1>4. Promise!Pushed(View(s), from, to, ~lazily) = a[r]
  BY DEF Promise!Pushed
<1> HIDE DEF r, at
<1>5. \A k \in 1 .. r, u \in S : step(u, at(k)) \in S /\ View(step(u, at(k))) = push(View(u), at(k))
  <2> TAKE k \in 1 .. r, u \in S
  <2> DEFINE l == at(k)
             t == CascadeStep(u, l, lazily)
  <2>1. l \in 2 .. n /\ from \in l .. n
    BY <1>2
  <2> HIDE DEF l
  <2>2. Good(u, n, {}) /\ Surf(u, from) = Surf(s, from)
    OBVIOUS
  <2>3. /\ View(t) = PushStep(View(u), l, ~lazily) /\ Good(t, n, {})
        /\ \A j \in l .. n : Surf(t, j) = Surf(u, j)
    BY <2>1, <2>2, StepView
  <2>4. step(u, l) = t /\ push(View(u), l) = PushStep(View(u), l, ~lazily)
    BY DEF CascadeStep, PushStep
  <2> HIDE DEF t
  <2>5. t \in Stack(n) /\ Surf(t, from) = Surf(s, from)
    BY <2>1, <2>2, <2>3, ShapedFacts DEF Good, UpTo
  <2>6. t \in S
    BY <2>3, <2>5
  <2> QED BY <2>3, <2>4, <2>6 DEF l
<1>6. s \in S
  BY <1>1
<1> HIDE DEF step, push
<1>7. Rounds(r, S, g)
  <2> HIDE DEF S
  <2> QED BY <1>5 DEF Rounds
<1>8. \A k \in 1 .. r, u \in S : g[k][u] = step(u, at(k))
  OBVIOUS
<1> HIDE DEF g, S
<1>9. PICK h : IsRun(h, r, S, s, g)
  BY <1>2, <1>6, <1>7, RunExists
<1>10. h \in [0 .. r -> S] /\ h[0] = s /\ \A k \in 1 .. r : h[k] = step(h[k - 1], at(k))
  <2>1. h \in [0 .. r -> S] /\ h[0] = s /\ \A k \in 1 .. r : h[k] = g[k][h[k - 1]]
    BY <1>9 DEF IsRun
  <2> QED BY <1>2, <1>8, <2>1
<1>11. \A k \in 0 .. r : k = 0 \/ k \in 1 .. r
  BY <1>2
<1>12. f = F(f)
  <2>1. h = F(h)
    <3>1. h = [k \in 0 .. r |-> h[k]]
      BY <1>10
    <3>2. ASSUME NEW k \in 0 .. r
          PROVE  h[k] = IF k = 0 THEN s ELSE step(h[k - 1], at(k))
      BY <1>10, <1>11
    <3> QED BY <3>1, <3>2
  <2>2. \E x : x = F(x)
    BY <2>1
  <2> QED BY <2>2
<1>13. a = A(a)
  <2> DEFINE v == [k \in 0 .. r |-> View(h[k])]
  <2>1. v = A(v)
    <3>1. ASSUME NEW k \in 0 .. r
          PROVE  View(h[k]) = IF k = 0 THEN View(s) ELSE push(v[k - 1], at(k))
      <4>1. CASE k = 0
        BY <1>10, <4>1
      <4>2. CASE k \in 1 .. r
        <5>1. h[k - 1] \in S /\ v[k - 1] = View(h[k - 1]) /\ k # 0
          BY <1>2, <1>10, <4>2
        <5>2. View(step(h[k - 1], at(k))) = push(View(h[k - 1]), at(k))
          BY <1>5, <4>2, <5>1
        <5> QED BY <1>10, <4>2, <5>1, <5>2
      <4> QED BY <1>11, <4>1, <4>2
    <3> QED BY <3>1
  <2> HIDE DEF v
  <2>2. \E x : x = A(x)
    BY <2>1
  <2> QED BY <2>2
<1> HIDE DEF f, a
<1>14. f[0] = s /\ \A k \in 1 .. r : f[k] = step(f[k - 1], at(k))
  <2>1. 0 \in 0 .. r /\ \A k \in 1 .. r : k \in 0 .. r /\ k # 0
    BY <1>2
  <2> QED BY <1>12, <2>1
<1>15. a[0] = View(s) /\ \A k \in 1 .. r : a[k] = push(a[k - 1], at(k))
  <2>1. 0 \in 0 .. r /\ \A k \in 1 .. r : k \in 0 .. r /\ k # 0
    BY <1>2
  <2> QED BY <1>13, <2>1
<1>16. f[r] \in S /\ a[r] = View(f[r])
  <2> DEFINE P == {k \in 0 .. r : f[k] \in S /\ a[k] = View(f[k])}
  <2>1. 0 \in P
    BY <1>2, <1>6, <1>14, <1>15
  <2>2. ASSUME NEW k \in 1 .. r, k - 1 \in P PROVE k \in P
    BY <1>2, <1>5, <1>14, <1>15, <2>2
  <2> HIDE DEF P
  <2>3. \A k \in 0 .. r : k \in P
    BY <1>2, <2>1, <2>2, NextIn
  <2>4. r \in 0 .. r
    BY <1>2
  <2> QED BY <2>3, <2>4 DEF P
<1> QED BY <1>3, <1>4, <1>16 DEF S

\* Levels above the one the cascade starts from are not visited.
LEMMA CascadeNone ==
  ASSUME NEW s, NEW from \in Nat \ {0}, NEW to \in Nat, from <= to, NEW lazily \in BOOLEAN
  PROVE  Cascade(s, from, to, lazily) = s
<1> DEFINE F(h) == [k \in 0 .. 0 |-> IF k = 0 THEN s
                      ELSE IF lazily /\ from + 1 - k \notin h[k - 1].debt THEN h[k - 1]
                           ELSE PropagateDown(h[k - 1], from + 1 - k)]
           f == CHOOSE h : h = F(h)
           e == from - to
<1>1. Max({to, 1}) = to
  BY MaxOfTwo
<1>2. Max({from - to, 0}) = 0
  <2>1. e \in Int /\ e <= 0
    OBVIOUS
  <2> HIDE DEF e
  <2>2. Max({e, 0}) = 0
    BY <2>1, MaxOfTwo
  <2> QED BY <2>2 DEF e
<1>3. Cascade(s, from, to, lazily) = f[0]
  BY <1>1, <1>2 DEF Cascade
<1>4. f = F(f)
  <2> DEFINE z == [k \in 0 .. 0 |-> s]
  <2>1. z = F(z)
    OBVIOUS
  <2> HIDE DEF z, F
  <2> QED BY <2>1
<1>5. f[0] = s
  <2> HIDE DEF f
  <2> QED BY <1>4
<1> QED BY <1>3, <1>5

-----------------------------------------------------------------------------
(* Levels switched, imported and seeded.                                   *)

\* Where an object in order stands.
LEMMA GoodShape ==
  ASSUME NEW n, NEW s, NEW D, Good(s, n, D)
  PROVE  /\ Shaped(s, n) /\ n \in Nat /\ s \in Stack(n) /\ n \in 0 .. n /\ s.active \in 0 .. n
         /\ View(s) \in Docs(n) /\ View(s).detail = s.disp /\ View(s).on = s.on
         /\ View(s).target = s.target /\ View(s).owes = s.debt /\ View(s).level = s.active
<1>1. Shaped(s, n)
  BY DEF Good, UpTo
<1>2. n \in Nat /\ s \in Stack(n) /\ n \in 0 .. n
  BY <1>1, ShapedFacts
<1>3. s.active \in 0 .. n
  BY <1>2, StackFields
<1> QED BY <1>1, <1>2, <1>3, ViewFields

LEMMA EnteredView ==
  ASSUME NEW n, NEW s, NEW D, Good(s, n, D), NEW to \in 1 .. n, NEW materialize \in BOOLEAN
  PROVE  LET t == Entered(s, to, materialize)
         IN  /\ View(t) = [View(s) EXCEPT !.level = to]
             /\ materialize => Resident(t, to)
             /\ s.active = to => Leaves(s, t, n, to)
<1> DEFINE u == [s EXCEPT !.active = to]
           w == Materialize(u, to)
           t == Entered(s, to, materialize)
<1>1. n \in Nat /\ s \in Stack(n) /\ to \in 0 .. n
  BY GoodShape
<1>2. t = IF materialize THEN w ELSE u
  BY DEF Entered
<1>3. Good(u, n, D)
  <2>1. Entered(s, to, FALSE) = u
    BY DEF Entered
  <2> DEFINE no == FALSE
             y == Entered(s, to, no)
  <2>2. no \in BOOLEAN
    OBVIOUS
  <2> HIDE DEF no
  <2>3. Good(y, n, D)
    BY <2>2, EnteredGood
  <2> QED BY <2>1, <2>3 DEF no
<1>4. View(u) = [View(s) EXCEPT !.level = to]
  <2>1. /\ u.disp = s.disp /\ u.on = s.on /\ u.target = s.target /\ u.debt = s.debt
        /\ u.active = to
    BY <1>1 DEF Stack
  <2> HIDE DEF u
  <2> QED BY <2>1 DEF View
<1>5. u.active = to /\ (s.active = to => u = s)
  BY <1>1 DEF Stack
<1>6. s.active = to => Leaves(s, u, n, to)
  BY <1>5 DEF Leaves, SameView
<1> HIDE DEF u
<1>7. Leaves(u, w, n, u.active) /\ (u.active = to => Resident(w, to))
  BY <1>3, MaterializeLeaves
<1> HIDE DEF w
<1>8. View(w) = View(u)
  BY <1>7, ViewSame DEF Leaves
<1> QED BY <1>2, <1>4, <1>5, <1>6, <1>7, <1>8 DEF t

\* The level from which detail is pushed on the way to level to.
Arrives(d, to, propagate) ==
  [(IF propagate /\ d.level > to THEN Promise!Settled(d, d.level, to) ELSE d) EXCEPT !.level = to]

LEMMA SetActiveView ==
  ASSUME Unmirrored = {}, NEW n, NEW s, Good(s, n, {}), NEW to \in 1 .. n,
         NEW propagate \in BOOLEAN, NEW materialize \in BOOLEAN
  PROVE  LET t == SetActive(s, to, propagate, materialize)
         IN  /\ View(t) = Arrives(View(s), to, propagate) /\ Good(t, n, {}) /\ t.active = to
             /\ materialize => Resident(t, to)
<1> DEFINE D == {}
           a == s.active
           yes == TRUE
           c == Cascade(s, a, to, yes)
           w == IF a \in {0, to} THEN s ELSE IF propagate THEN c ELSE s
           t == Entered(w, to, materialize)
<1>1. n \in Nat /\ a \in 0 .. n /\ View(s).level = a /\ Good(s, n, D) /\ a \notin D
      /\ yes \in BOOLEAN
  BY GoodShape
<1>2. SetActive(s, to, propagate, materialize) = t
  <2>1. Writeback(s, a) = s
    <3> HIDE DEF D, a
    <3> QED BY <1>1, WritebackClean
  <2> QED BY <2>1 DEF SetActive
<1> HIDE DEF D, a
<1>3. Good(w, n, D) /\ View(w) = IF propagate /\ a > to THEN Promise!Settled(View(s), a, to)
                                 ELSE View(s)
  <2>1. CASE a \in {0, to}
    BY <1>1, <2>1
  <2>2. CASE a \notin {0, to} /\ ~propagate
    BY <1>1, <2>2
  <2>3. CASE a \notin {0, to} /\ propagate /\ a > to
    <3>1. a \in 1 .. n /\ to \in 1 .. a
      BY <1>1, <2>3
    <3> HIDE DEF c
    <3>2. Good(c, n, D)
      <4>1. LET x == Cascade(s, a, to, yes) IN Good(x, n, D)
        BY <1>1, <3>1, CascadeGood
      <4> QED BY <4>1 DEF c
    <3>3. View(c) = Promise!Pushed(View(s), a, to, ~yes)
      BY <1>1, <3>1, CascadeView DEF c
    <3>4. Promise!Settled(View(s), a, to) = Promise!Pushed(View(s), a, to, ~yes)
      BY DEF Promise!Settled
    <3> QED BY <2>3, <3>2, <3>3, <3>4
  <2>4. CASE a \notin {0, to} /\ propagate /\ ~(a > to)
    <3>1. a \in Nat \ {0} /\ to \in Nat /\ a <= to
      BY <1>1, <2>4
    <3> HIDE DEF c
    <3>2. c = s
      BY <1>1, <3>1, CascadeNone DEF c
    <3> QED BY <1>1, <2>4, <3>2
  <2> QED BY <2>1, <2>2, <2>3, <2>4
<1> HIDE DEF w, yes
<1>4. Good(t, n, D) /\ FrameTo(w, t, to)
  BY <1>3, EnteredGood
<1>5. View(t) = [View(w) EXCEPT !.level = to] /\ (materialize => Resident(t, to))
  BY <1>3, EnteredView
<1> HIDE DEF t
<1>6. View(t) = Arrives(View(s), to, propagate)
  BY <1>1, <1>3, <1>5 DEF Arrives
<1> QED BY <1>2, <1>4, <1>5, <1>6 DEF FrameTo, D

\* The level a surface was given to shows it, also when it owes.
LEMMA GivenShows ==
  ASSUME NEW n \in Nat, NEW d \in Docs(n), NEW l \in 1 .. n, NEW c \in Mixed(d.on), NEW p \in Pos
  PROVE  /\ Promise!Shown(Promise!Given(d, l, c, p), l) = p
         /\ Promise!Shown(Promise!Owing(Promise!Given(d, l, c, p), l), l) = p
         /\ Promise!Given(d, l, c, p) \in Docs(n)
         /\ Promise!Owing(Promise!Given(d, l, c, p), l) \in Docs(n)
<1> DEFINE e == Promise!Given(d, l, c, p)
           b == IF l >= 2 THEN e.owes \union {l} ELSE e.owes
           h == [e EXCEPT !.owes = b]
           m == l - 1
<1>1. Gives(d, e, n, l, c, p)
  BY GivenFields
<1> HIDE DEF e
<1>2. e \in Docs(n) /\ e.on = d.on /\ \A k \in 1 .. n : k # l => e.detail[k] = d.detail[k]
  BY <1>1 DEF Gives
<1>3. Promise!Owing(e, l) = h
  BY <1>2 DEF Promise!Owing, Docs
<1>4. b \in SUBSET (2 .. n)
  BY <1>2, DocFields
<1> HIDE DEF b
<1>5. h \in Docs(n) /\ h.on = e.on /\ h.detail = e.detail
  BY <1>2, <1>4 DEF Docs
<1> HIDE DEF h
<1>6. Surface(e.detail, e.on, l) = p
  <2> DEFINE o == d.on
             f == d.detail
             g == e.detail
  <2>1. f \in [1 .. n -> Detail] /\ g \in [1 .. n -> Detail]
    BY <1>2, DocFields
  <2>2. l \in Nat \ {0} /\ m \in Nat /\ m = l - 1 /\ \A k \in 1 .. m : k \in 1 .. n /\ k # l
    OBVIOUS
  <2>3. Layered(g, l) /\ Layered(f, m) /\ \A k \in 1 .. m : g[k] = f[k]
    BY <1>2, <2>1, <2>2 DEF Layered
  <2>4. Plus(Stencil[Surface(f, o, m)], Total(g[l], Mixed(o))) = p
    BY <1>1 DEF Gives
  <2> HIDE DEF o, f, g, m
  <2>5. Surface(g, o, m) = Surface(f, o, m)
    BY <2>2, <2>3, SurfaceSame
  <2>6. Surface(g, o, l) = Plus(Stencil[Surface(g, o, m)], Total(g[l], Mixed(o)))
    BY <2>2, <2>3, SurfaceStep
  <2>7. Surface(g, o, l) = p
    BY <2>4, <2>5, <2>6
  <2> QED BY <1>2, <2>7 DEF o, g
<1> QED BY <1>2, <1>3, <1>5, <1>6, ShownIs DEF e

\* Multires_fromLevelPositions, once the level is reached.
LEMMA ImportedView ==
  ASSUME Unmirrored = {}, NEW n, NEW s, Good(s, n, {}), NEW l \in 1 .. n, s.active = l,
         Resident(s, l), NEW p \in Pos
  PROVE  LET t == Imported(s, l, p)
         IN  View(t) = Promise!Summarized(View(s), l, p) /\ Surf(t, l) = p
<1> DEFINE D == {}
           E == D \union {l}
           u == SetMesh(s, l, p)
           w == Writeback(u, l)
           t == Imported(s, l, p)
           d == View(s)
<1>1. Good(s, n, D) /\ n \in Nat /\ l \in Nat /\ E \ {l} = {} /\ d \in Docs(n) /\ d.on = s.on
      /\ d.target = s.target /\ s.target \in Mixed(s.on)
  <2>1. Good(s, n, D) /\ n \in Nat /\ l \in Nat /\ d \in Docs(n) /\ d.on = s.on
        /\ d.target = s.target /\ Shaped(s, n)
    BY GoodShape
  <2> QED BY <2>1, ShapedFacts
<1>2. l \notin s.stale /\ s.cache[l].valid /\ s.cache[l].pos = Surf(s, l)
  <2> HIDE DEF D
  <2> QED BY <1>1, CleanSlot
<1> HIDE DEF D
<1>3. /\ Good(u, n, E) /\ OnlySlots(s, u) /\ Resident(u, l) /\ SlotMesh(u, l) = p
  BY <1>1, SetMeshGood
<1> HIDE DEF E, u
<1>4. View(u) = d /\ u.cache = s.cache /\ u.stale = s.stale /\ u.target = s.target
      /\ u.active = l /\ u.disp = s.disp /\ u.on = s.on
  BY <1>3 DEF OnlySlots, View
<1>5. Good(w, n, E \ {l}) /\ Frame(u, w)
  BY <1>3, WritebackGood
<1>6. Good(w, n, {}) /\ w.active = l
  BY <1>1, <1>4, <1>5 DEF Frame
<1>7. Promise!Shown(d, l) = s.cache[l].pos
  BY <1>2, ViewShown
<1>8. CASE p = s.cache[l].pos
  <2>1. Differing(u, l, p) = {}
    BY <1>4, <1>8 DEF Differing
  <2>2. w = u
    BY <1>2, <1>3, <1>4, <2>1 DEF Writeback, Folded
  <2>3. t = w
    BY <1>8 DEF Imported, u
  <2>4. Promise!Summarized(d, l, p) = d
    BY <1>7, <1>8 DEF Promise!Summarized
  <2>5. Surf(t, l) = p
    BY <1>2, <1>4, <1>8, <2>2, <2>3 DEF Surf
  <2> QED BY <1>4, <2>2, <2>3, <2>4, <2>5
<1>9. CASE p # s.cache[l].pos
  <2> DEFINE g == Promise!Owing(Promise!Given(d, l, s.target, p), l)
             o == 1
             lazily == FALSE
             yes == TRUE
             c == Cascade(w, l, o, lazily)
             a == l - 1
             i == InvalidateAbove(c, a)
             x == SetActive(i, l, yes, yes)
  <2>1. t = x
    BY <1>2, <1>9 DEF Imported, Summarized, u
  <2>2. View(w) = g
    <3>1. w = Folded(u, l, SlotMesh(u, l), Differing(u, l, SlotMesh(u, l)))
      BY <1>2, <1>3, <1>4 DEF Writeback
    <3>2. View(w) = Promise!Owing(Promise!Given(View(u), l, u.target, SlotMesh(u, l)), l)
      BY <1>2, <1>3, <1>4, <1>9, <3>1, FoldedView
    <3> QED BY <1>3, <1>4, <3>2
  <2>3. Surf(w, l) = p
    <3>1. Promise!Shown(g, l) = p
      <4> DEFINE y == s.target
      <4>1. y \in Mixed(d.on)
        BY <1>1
      <4> HIDE DEF y, d
      <4>2. Promise!Shown(Promise!Owing(Promise!Given(d, l, y, p), l), l) = p
        BY <1>1, <4>1, GivenShows
      <4> QED BY <4>2 DEF y
    <3> QED BY <2>2, <3>1, ViewShown
  <2>4. o \in 1 .. l /\ lazily \in BOOLEAN /\ yes \in BOOLEAN /\ a \in 0 .. n /\ l \in 1 .. n
        /\ o \in 1 .. n /\ ~lazily = TRUE /\ o = 1
    BY <1>1
  <2> HIDE DEF o, lazily, yes, w, t, g, a, d
  <2>5. View(c) = Promise!Pushed(View(w), l, o, ~lazily) /\ Surf(c, l) = Surf(w, l)
    BY <1>6, <2>4, CascadeView
  <2>6. Good(c, n, {}) /\ c.active = l
    <3> DEFINE G == {}
    <3>1. Good(w, n, G)
      BY <1>6
    <3> HIDE DEF G
    <3>2. LET y == Cascade(w, l, o, lazily) IN Good(y, n, G) /\ Frame(w, y)
      BY <2>4, <3>1, CascadeGood
    <3> QED BY <1>6, <3>2 DEF G, Frame
  <2> HIDE DEF c
  <2>7. Good(i, n, {}) /\ View(i) = View(c) /\ i.active = l
    <3> DEFINE G == {}
    <3>1. Good(c, n, G) /\ UpTo(c, n, n, G)
      BY <2>6 DEF Good
    <3> HIDE DEF G
    <3>2. UpTo(c, n, a, G)
      BY <2>4, <3>1, Lower
    <3>3. Good(i, n, G) /\ Frame(c, i)
      BY <2>4, <3>2, Invalidating
    <3>4. SameView(c, i)
      BY <2>4, <3>1, GoodShape, InvalidatingView
    <3> QED BY <2>6, <3>3, <3>4, ViewSame DEF G, Frame
  <2> HIDE DEF i
  <2>8. View(x) = Arrives(View(i), l, yes)
    BY <2>4, <2>7, SetActiveView
  <2>9. View(i) \in Docs(n) /\ View(i).level = l
    BY <2>7, GoodShape
  <2>10. Arrives(View(i), l, yes) = View(i)
    BY <1>1, <2>9 DEF Arrives, Docs
  <2>11. Promise!Summarized(d, l, p) = Promise!Pushed(g, l, 1, TRUE)
    <3>1. Promise!Summarized(d, l, p) = Promise!Pushed(Promise!Owing(Promise!Given(d, l, d.target, p), l), l, 1, TRUE)
      BY <1>7, <1>9 DEF Promise!Summarized
    <3> QED BY <1>1, <3>1 DEF g
  <2>12. View(x) = Promise!Summarized(d, l, p)
    <3>1. View(x) = Promise!Pushed(g, l, o, ~lazily)
      BY <2>2, <2>5, <2>7, <2>8, <2>10
    <3> QED BY <2>11, <3>1 DEF o, lazily
  <2>13. Surf(x, l) = p
    BY <2>3, <2>5, <2>7, <2>8, <2>10, ViewShown
  <2> QED BY <2>1, <2>12, <2>13 DEF d, t
<1> QED BY <1>8, <1>9

LEMMA SeededView ==
  ASSUME NEW n, NEW s, NEW D, Good(s, n, D), NEW l \in 1 .. n, s.cache[l].valid,
         s.cache[l].base # NoBase, NEW p \in Pos
  PROVE  View(Seeded(s, l, p)) = Promise!Owing(Promise!Given(View(s), l, Base, p), l)
<1> DEFINE a == l - 1
           c == Base
           vs == Verts
           w == DropDomains(s, a)
           x == [w EXCEPT !.cache[l].pos = p]
           u == StoreDisp(x, l, p, vs, c)
           o == Owing(u, l)
           i == InvalidateAbove(o, l)
           gone == {l}
           t == Evicted(i, gone)
<1>1. /\ Shaped(s, n) /\ n \in Nat /\ l \in 0 .. n /\ a \in 0 .. n /\ a \in Int /\ a = l - 1
  BY ShapedFacts DEF Good, UpTo
<1>2. Seeded(s, l, p) = t
  BY DEF Seeded
<1> HIDE DEF a, gone, t
<1>3. /\ Shaped(w, n) /\ Frame(s, w) /\ w.disp = s.disp /\ w.cache = s.cache
      /\ w.debt = s.debt
  BY <1>1, Dropping
<1> HIDE DEF w
<1>4. /\ x \in Stack(n) /\ Shaped(x, n) /\ OnlyCache(w, x)
      /\ x.cache[l].pos = p /\ x.cache[l].valid = w.cache[l].valid
      /\ x.cache[l].base = w.cache[l].base
  BY <1>3, Placing
<1> HIDE DEF x
<1>5. Surf(x, l) = Surf(w, l) /\ Under(x, l) = Under(s, l)
  <2>1. Surf(x, l) = Surf(w, l) /\ Under(x, l) = Under(w, l)
    <3>1. l \in 0 .. n /\ l - 1 \in 0 .. n /\ x.on = w.on /\ x.disp = w.disp
      BY <1>1, <1>4 DEF OnlyCache
    <3> QED BY <3>1 DEF Surf, Under
  <2>2. \A k \in 0 .. n : Surf(w, k) = Surf(s, k)
    BY <1>1, <1>3, SurfSame DEF Frame
  <2>3. Under(w, l) = Under(s, l)
    <3>1. l - 1 \in 0 .. n
      BY <1>1
    <3> QED BY <2>2, <3>1 DEF Under
  <2> QED BY <2>1, <2>3
<1>6. RightBase(x, l)
  <2>1. RightBase(s, l)
    BY <1>1, HeldBase
  <2> QED BY <1>3, <1>4, <1>5, <2>1 DEF RightBase
<1>7. /\ c \in Mixed(x.on) /\ vs \in SUBSET Verts
      /\ \A v \in Verts \ vs : p[v] = Surf(x, l)[v]
  BY ConstantFacts
<1> HIDE DEF c, vs
<1>8. Shaped(u, n) /\ Stored(x, u, n, l, p, c)
  BY <1>4, <1>6, <1>7, Storing
<1> HIDE DEF u
<1>9. View(u) = Promise!Given(View(x), l, c, p)
  BY <1>4, <1>7, <1>8, StoredView
<1>10. View(x) = View(w) /\ View(w) = View(s)
  BY <1>3, <1>4, OnlyCacheView DEF Frame, View
<1>11. u \in Stack(n)
  BY <1>8, ShapedFacts
<1>12. View(o) = Promise!Owing(View(u), l)
  BY <1>1, <1>11, OwingView
<1>13. Shaped(o, n)
  <2> DEFINE E == {}
             m == 0
  <2>1. UpTo(u, n, m, E) /\ m \in 0 .. n
    BY <1>1, <1>8 DEF UpTo
  <2> HIDE DEF E, m
  <2>2. UpTo(o, n, m, E)
    BY <2>1, OwingUpTo
  <2> QED BY <2>2 DEF UpTo
<1> HIDE DEF o
<1>14. Shaped(i, n) /\ View(i) = View(o)
  BY <1>1, <1>13, InvalidatingShape, InvalidatingView, ViewSame
<1> HIDE DEF i
<1>15. View(t) = View(i)
  <2>1. i \in Stack(n)
    BY <1>14, ShapedFacts
  <2> QED BY <1>1, <2>1, EvictingView, ViewSame DEF t
<1> QED BY <1>2, <1>9, <1>10, <1>12, <1>14, <1>15 DEF c

\* A level without its base channel.
Bared(d, l) == [d EXCEPT !.detail[l][Base] = Flat]

LEMMA CapturedView ==
  ASSUME NEW n, NEW s, Good(s, n, {}), NEW l \in 1 .. n, l > 1 => s.cache[l - 1].valid
  PROVE  View(CapturedOnto(s, l)) = Bared(View(s), l)
<1> DEFINE p == Stencil[Below(s, l)]
           a == l - 1
           D == {}
           u == DropDomains(s, a)
           w == Laid(u, l, p)
           x == SetMesh(w, l, p)
           t == InvalidateAbove(x, l)
           e == [s.disp[l] EXCEPT ![Base] = Flat]
           f == [s.disp EXCEPT ![l] = e]
<1>1. /\ Shaped(s, n) /\ n \in Nat /\ l \in 0 .. n /\ a \in 0 .. n /\ a \in Int /\ a = l - 1
      /\ Good(s, n, D)
  BY ShapedFacts DEF Good, UpTo
<1>2. CapturedOnto(s, l) = t
  BY DEF CapturedOnto, Captured, Laid
<1>3. p \in Pos
  <2>1. l > 1 => s.cache[l - 1].pos = Surf(s, l - 1)
    BY <1>1, GoodFacts
  <2>2. p = Under(s, l)
    BY <1>1, <2>1, BelowSurf
  <2> HIDE DEF p
  <2> QED BY <1>1, <2>2, ShapedFacts
<1> HIDE DEF p, a, D, t
<1>4. /\ Shaped(u, n) /\ Frame(s, u) /\ u.disp = s.disp /\ u.debt = s.debt
  BY <1>1, Dropping
<1> HIDE DEF u
<1>5. Shaped(w, n) /\ OnlyStore(u, w)
  BY <1>3, <1>4, Laying
<1>6. w.disp = f
  <2> DEFINE y == [u EXCEPT !.disp[l][Base] = Flat]
  <2>1. u \in Stack(n)
    BY <1>4, ShapedFacts
  <2>2. y.disp = f
    BY <1>4, <2>1 DEF Stack
  <2>3. w.disp = y.disp
    BY <2>1 DEF Laid, Stack
  <2> QED BY <2>2, <2>3
<1> HIDE DEF w, f
<1>7. x \in Stack(n) /\ OnlySlots(w, x) /\ Shaped(x, n)
  <2>1. w \in Stack(n) /\ Distinct(w.slots)
    BY <1>5, ShapedFacts
  <2>2. /\ x \in Stack(n) /\ OnlySlots(w, x) /\ Distinct(x.slots)
        /\ Len(x.slots) = Len(w.slots)
        /\ \A k : Resident(x, k) <=> Resident(w, k)
    BY <1>1, <1>3, <2>1, SetMeshSlots
  <2> HIDE DEF x
  <2> QED BY <1>5, <2>2 DEF Shaped, OnlySlots
<1> HIDE DEF x
<1>8. View(t) = View(x)
  BY <1>1, <1>7, InvalidatingView, ViewSame DEF t
<1>9. /\ View(x).detail = f /\ View(x) = [View(s) EXCEPT !.detail = f]
  BY <1>4, <1>5, <1>6, <1>7 DEF OnlySlots, OnlyStore, Frame, View
<1>10. [View(s) EXCEPT !.detail = f] = Bared(View(s), l)
  BY DEF View, Bared, f
<1> QED BY <1>2, <1>8, <1>9, <1>10

-----------------------------------------------------------------------------
(* Channels, layers and levels.                                            *)

LEMMA RefreshView ==
  ASSUME NEW n, NEW s, Shaped(s, n)
  PROVE  View(RefreshAfterLayerChange(s)) = View(s)
<1> DEFINE D == {}
           a == 0
           u == InvalidateAbove(s, a)
           w == Materialize(u, s.active)
           t == RefreshAfterLayerChange(s)
<1>1. n \in Nat /\ a \in 0 .. n /\ s.active \in 0 .. n /\ UpTo(s, n, a, D) /\ a = 0
  <2>1. n \in Nat /\ s \in Stack(n)
    BY ShapedFacts
  <2> QED BY <2>1, StackFields DEF UpTo
<1>2. t = IF s.active >= 1 THEN w ELSE u
  BY DEF RefreshAfterLayerChange
<1> HIDE DEF D, a, t
<1>3. Good(u, n, D) /\ View(u) = View(s)
  BY <1>1, Invalidating, InvalidatingView, ViewSame
<1> HIDE DEF u
<1>4. CASE s.active >= 1
  <2> DEFINE l == s.active
             x == Materialize(u, l)
  <2>1. l \in 1 .. n /\ w = x
    BY <1>1, <1>4
  <2> HIDE DEF l, w
  <2>2. View(x) = View(u)
    BY <1>3, <2>1, MaterializeLeaves, ViewSame DEF Leaves
  <2> QED BY <1>2, <1>3, <1>4, <2>1, <2>2 DEF t
<1>5. CASE ~(s.active >= 1)
  BY <1>2, <1>3, <1>5 DEF t
<1> QED BY <1>4, <1>5

\* Other channels are edited and composited.
Rechanneled(x, c, o) == [x EXCEPT !.target = c, !.on = o]

LEMMA WithChannels ==
  ASSUME NEW n \in Nat, NEW s \in Stack(n), NEW o \in [Layers -> BOOLEAN], NEW c \in Channels
  PROVE  /\ Rechanneled(s, c, o) \in Stack(n) /\ Rechanneled(s, c, o).slots = s.slots
         /\ Rechanneled(s, c, o).on = o /\ Rechanneled(s, c, o).target = c
         /\ View(Rechanneled(s, c, o)) = Rechanneled(View(s), c, o)
<1> DEFINE u == Rechanneled(s, c, o)
           v == [detail |-> s.disp, on |-> s.on, target |-> s.target, owes |-> s.debt,
                 level |-> s.active]
           x == [detail |-> s.disp, on |-> s.on, target |-> c, owes |-> s.debt,
                 level |-> s.active]
           d == [detail |-> s.disp, on |-> o, target |-> c, owes |-> s.debt, level |-> s.active]
<1>1. /\ u \in Stack(n) /\ u.slots = s.slots
      /\ u.disp = s.disp /\ u.on = o /\ u.target = c /\ u.debt = s.debt /\ u.active = s.active
  BY DEF Stack, Rechanneled
<1> HIDE DEF u
<1>2. View(u) = d
  BY <1>1 DEF View
<1>3. [v EXCEPT !.target = c] = x
  OBVIOUS
<1>4. [x EXCEPT !.on = o] = d
  OBVIOUS
<1>5. View(s) = v
  BY DEF View
<1> HIDE DEF v, x, d
<1>6. Rechanneled(View(s), c, o) = [[v EXCEPT !.target = c] EXCEPT !.on = o]
  BY <1>5 DEF Rechanneled
<1> QED BY <1>1, <1>2, <1>3, <1>4, <1>6 DEF u

\* Another channel is edited, and composited if it was not.
Aimed(d, c) == [d EXCEPT !.target = c, !.on = [k \in Layers |-> @[k] \/ k = c]]

LEMMA TargetingView ==
  ASSUME NEW n, NEW s, NEW D, Good(s, n, D), NEW c \in Channels
  PROVE  View(Targeting(s, c)) = Aimed(View(s), c)
<1> DEFINE t == Targeting(s, c)
           z == [k \in Layers |-> s.on[k] \/ k = c]
<1>1. Shaped(s, n) /\ n \in Nat /\ s \in Stack(n) /\ s.on \in [Layers -> BOOLEAN]
  BY GoodShape, StackFields
<1>2. Aimed(View(s), c) = Rechanneled(View(s), c, z)
  BY DEF View, Aimed, Rechanneled
<1>3. CASE c # Base /\ ~s.on[c]
  <2> DEFINE o == [s.on EXCEPT ![c] = TRUE]
             u == Rechanneled(s, c, o)
             w == RefreshAfterLayerChange(u)
  <2>1. t = w
    <3>1. [s EXCEPT !.target = c, !.on[c] = TRUE] = u
      <4> DEFINE y == [s EXCEPT !.target = c]
      <4>1. y.on = s.on
        BY <1>1 DEF Stack
      <4>2. [s EXCEPT !.target = c, !.on[c] = TRUE] = [y EXCEPT !.on[c] = TRUE]
        OBVIOUS
      <4>3. u = [y EXCEPT !.on = o]
        BY DEF Rechanneled
      <4> HIDE DEF y
      <4>4. [y EXCEPT !.on[c] = TRUE] = [y EXCEPT !.on = [s.on EXCEPT ![c] = TRUE]]
        BY <4>1
      <4> QED BY <4>2, <4>3, <4>4
    <3> QED BY <1>3, <3>1 DEF Targeting
  <2>2. c \in Layers
    BY <1>3 DEF Channels
  <2>3. o \in [Layers -> BOOLEAN] /\ o[c] /\ o = z
    <3>1. \A k \in Layers : s.on[k] \in BOOLEAN
      BY <1>1
    <3>2. \A k \in Layers : o[k] = z[k]
      <4> TAKE k \in Layers
      <4>1. CASE k = c
        BY <1>1, <2>2, <4>1
      <4>2. CASE k # c
        <5>1. o[k] = s.on[k]
          BY <1>1, <4>2
        <5>2. z[k] = s.on[k]
          <6>1. PICK b \in BOOLEAN : b = s.on[k]
            BY <3>1
          <6>2. z[k] = (b \/ k = c)
            BY <6>1
          <6>3. (b \/ k = c) = b
            BY <4>2
          <6> QED BY <6>1, <6>2, <6>3
        <5> QED BY <5>1, <5>2
      <4> QED BY <4>1, <4>2
    <3>3. o \in [Layers -> BOOLEAN] /\ o[c]
      BY <1>1, <2>2
    <3>4. DOMAIN o = Layers /\ DOMAIN z = Layers /\ o = [k \in Layers |-> o[k]]
      BY <3>3
    <3> QED BY <3>2, <3>3, <3>4
  <2> HIDE DEF o, t, z
  <2>4. u \in Stack(n) /\ u.slots = s.slots /\ u.on = o /\ u.target = c
        /\ View(u) = Rechanneled(View(s), c, o)
    BY <1>1, <2>3, WithChannels
  <2> HIDE DEF u
  <2>5. Shaped(u, n)
    <3>1. \A k : Resident(u, k) <=> Resident(s, k)
      BY <2>4, SlotsSame
    <3>2. u.target \in Mixed(u.on)
      BY <2>2, <2>3, <2>4 DEF Mixed
    <3> QED BY <1>1, <2>4, <3>1, <3>2 DEF Shaped
  <2>6. View(w) = View(u)
    BY <2>5, RefreshView
  <2> QED BY <1>2, <2>1, <2>3, <2>4, <2>6 DEF t
<1>4. CASE ~(c # Base /\ ~s.on[c])
  <2> DEFINE u == [s EXCEPT !.target = c]
  <2>1. t = u
    BY <1>4 DEF Targeting
  <2>2. z = s.on
    <3>1. \A k \in Layers : s.on[k] \in BOOLEAN
      BY <1>1
    <3>2. Base \notin Layers
      BY SurfaceAssumption
    <3>3. \A k \in Layers : z[k] = s.on[k]
      <4> TAKE k \in Layers
      <4>1. k = c => s.on[k]
        BY <1>4, <3>2
      <4>2. PICK b \in BOOLEAN : b = s.on[k]
        BY <3>1
      <4>3. z[k] = (b \/ k = c)
        BY <4>2
      <4>4. (b \/ k = c) = b
        BY <4>1, <4>2
      <4> QED BY <4>2, <4>3, <4>4
    <3>4. DOMAIN z = Layers /\ s.on = [k \in Layers |-> s.on[k]]
      BY <1>1
    <3> QED BY <3>3, <3>4
  <2> HIDE DEF z
  <2>3. u = Rechanneled(s, c, z)
    <3> DEFINE y == [s EXCEPT !.target = c]
    <3>1. y.on = z
      BY <1>1, <2>2 DEF Stack
    <3>2. y = [y EXCEPT !.on = z]
      BY <1>1, <3>1 DEF Stack
    <3> QED BY <3>2 DEF Rechanneled
  <2>4. z \in [Layers -> BOOLEAN]
    BY <1>1, <2>2
  <2>5. View(u) = Rechanneled(View(s), c, z)
    BY <1>1, <2>3, <2>4, WithChannels
  <2> QED BY <1>2, <2>1, <2>5
<1> QED BY <1>3, <1>4

\* A layer is composited, or no more.
Flipped(d, c) == [d EXCEPT !.on[c] = ~@]

LEMMA ToggledView ==
  ASSUME NEW n, NEW s, NEW D, Good(s, n, D), NEW c \in Layers, s.on[c] => c # s.target
  PROVE  View(Toggled(s, c)) = Flipped(View(s), c)
<1> DEFINE o == [s.on EXCEPT ![c] = ~@]
           u == [s EXCEPT !.on = o]
           t == RefreshAfterLayerChange(u)
<1>1. Shaped(s, n) /\ n \in Nat /\ s \in Stack(n) /\ s.target \in Mixed(s.on)
  BY ShapedFacts DEF Good, UpTo
<1>2. s.on \in [Layers -> BOOLEAN]
  BY <1>1, StackFields
<1>3. Toggled(s, c) = t
  BY DEF Toggled
<1>4. o \in [Layers -> BOOLEAN] /\ \A k \in Layers : k # c => o[k] = s.on[k]
  BY <1>2
<1>5. Flipped(View(s), c) = [View(s) EXCEPT !.on = o]
  BY DEF Flipped, View
<1> HIDE DEF o
<1>6. /\ u \in Stack(n) /\ u.slots = s.slots /\ u.on = o /\ u.target = s.target
      /\ View(u) = [View(s) EXCEPT !.on = o]
  <2> DEFINE d == [detail |-> s.disp, on |-> o, target |-> s.target, owes |-> s.debt,
                   level |-> s.active]
  <2>1. /\ u \in Stack(n) /\ u.slots = s.slots /\ u.on = o /\ u.target = s.target
        /\ u.disp = s.disp /\ u.debt = s.debt /\ u.active = s.active
    BY <1>1, <1>4 DEF Stack
  <2> HIDE DEF u
  <2>2. View(u) = d
    BY <2>1 DEF View
  <2>3. [View(s) EXCEPT !.on = o] = d
    BY DEF View
  <2> QED BY <2>1, <2>2, <2>3
<1> HIDE DEF u
<1>7. Shaped(u, n)
  <2>1. \A k : Resident(u, k) <=> Resident(s, k)
    BY <1>6, SlotsSame
  <2>2. s.target \in Mixed(o)
    <3>1. s.target = Base \/ (s.target \in Layers /\ s.on[s.target])
      BY <1>1 DEF Mixed
    <3>2. s.target \in Layers /\ s.on[s.target] => s.target # c
      OBVIOUS
    <3> QED BY <1>4, <3>1, <3>2 DEF Mixed
  <2> QED BY <1>1, <1>6, <2>1, <2>2 DEF Shaped
<1>8. View(t) = View(u)
  BY <1>7, RefreshView
<1> QED BY <1>3, <1>5, <1>6, <1>8

-----------------------------------------------------------------------------
(* Levels added and removed, the store restored, a session attached.       *)

\* The document with m levels, of which to is the active one.
Cut(d, m, to) ==
  [detail |-> Resize(d.detail, m, Plain), on |-> d.on, target |-> d.target,
   owes |-> d.owes \cap 1 .. m, level |-> to]

LEMMA SizedView ==
  ASSUME NEW n, NEW s, Shaped(s, n), NEW m
  PROVE  View(Sized(s, m)) = Cut(View(s), m, 0)
<1> DEFINE d == Resize(s.disp, m, Plain)
           c == Resize(s.cache, m, Dropped)
           o == Resize(s.domains, m, "none")
           b == s.debt \cap 1 .. m
           t == [s EXCEPT !.disp = d, !.cache = c, !.domains = o, !.debt = b, !.active = 0]
<1>1. s \in Stack(n)
  BY ShapedFacts
<1>2. Sized(s, m) = t
  BY DEF Sized
<1>3. d = Resize(View(s).detail, m, Plain) /\ b = View(s).owes \cap 1 .. m
  BY DEF View
<1>4. View(s).on = s.on /\ View(s).target = s.target
  BY DEF View
<1> HIDE DEF d, c, o, b
<1>5. t.disp = d /\ t.on = s.on /\ t.target = s.target /\ t.debt = b /\ t.active = 0
  BY <1>1 DEF Stack
<1> HIDE DEF t
<1> QED BY <1>2, <1>3, <1>4, <1>5 DEF View, Cut

LEMMA ResizedView ==
  ASSUME Unmirrored = {}, NEW n, NEW s, Good(s, n, {}), NEW m \in 1 .. MaxLevels,
         \A k : Resident(s, k) => k \in 1 .. m, \A k \in 1 .. n : s.domains[k] = "none",
         NEW to \in 1 .. m
  PROVE  View(Resized(s, m, to)) = Cut(View(s), m, to)
<1> DEFINE yes == TRUE
           u == Sized(s, m)
           t == SetActive(u, to, yes, yes)
           z == 0
<1>1. Resized(s, m, to) = t
  BY DEF Resized, Sized
<1>2. Good(u, m, {}) /\ u.active = 0
  BY SizedGood
<1>3. Shaped(s, n) /\ to \in Nat
  BY GoodShape, StackAssumption
<1>4. View(u) = Cut(View(s), m, z)
  BY <1>3, SizedView
<1>5. yes \in BOOLEAN /\ yes
  OBVIOUS
<1> HIDE DEF u, yes
<1>6. View(t) = Arrives(View(u), to, yes)
  <2> HIDE DEF t
  <2>1. to \in 1 .. m /\ yes \in BOOLEAN /\ Good(u, m, {})
    BY <1>2, <1>5
  <2>2. View(SetActive(u, to, yes, yes)) = Arrives(View(u), to, yes)
    BY <2>1, SetActiveView
  <2> QED BY <2>2 DEF t
<1>7. Cut(View(s), m, z).level = 0
  BY DEF Cut
<1>8. Arrives(View(u), to, yes) = [View(u) EXCEPT !.level = to]
  <2>1. ~(View(u).level > to)
    BY <1>3, <1>4, <1>7
  <2> QED BY <2>1 DEF Arrives
<1>9. [Cut(View(s), m, z) EXCEPT !.level = to] = Cut(View(s), m, to)
  BY DEF Cut
<1> QED BY <1>1, <1>4, <1>6, <1>8, <1>9

\* One more level, plain, is the active one.
LEMMA CutMore ==
  ASSUME NEW n \in Nat, NEW d \in Docs(n)
  PROVE  /\ Cut(d, n + 1, n + 1).detail = Append(d.detail, Promise!Plain)
         /\ Cut(d, n + 1, n + 1).owes = d.owes
<1>1. /\ d.detail \in [1 .. n -> Detail] /\ d.owes \in SUBSET (2 .. n) /\ Len(d.detail) = n
      /\ d.detail \in Seq(Detail)
  BY DocFields
<1>2. Promise!Plain = Plain
  BY DEF Promise!Plain, Plain, Promise!Flat, Flat, Promise!Channels, Channels, Promise!Base, Base
<1>3. d.owes \cap 1 .. n + 1 = d.owes
  BY <1>1
<1> DEFINE x == Resize(d.detail, n + 1, Plain)
           y == Append(d.detail, Plain)
<1>4. Plain \in Detail
  BY ConstantFacts
<1>5. x = y
  <2>1. DOMAIN d.detail = 1 .. n
    BY <1>1
  <2>2. x = [k \in 1 .. n + 1 |-> IF k \in 1 .. n THEN d.detail[k] ELSE Plain]
    BY <2>1 DEF Resize
  <2>3. y \in Seq(Detail) /\ Len(y) = n + 1 /\ y[n + 1] = Plain
        /\ \A k \in 1 .. n : y[k] = d.detail[k]
    BY <1>1, <1>4
  <2>4. y = [k \in 1 .. n + 1 |-> y[k]]
    BY <2>3
  <2>5. \A k \in 1 .. n + 1 : y[k] = IF k \in 1 .. n THEN d.detail[k] ELSE Plain
    BY <2>3
  <2> HIDE DEF x, y
  <2> QED BY <2>2, <2>4, <2>5
<1> HIDE DEF x, y
<1>6. Cut(d, n + 1, n + 1).detail = x
  BY DEF Cut, x
<1> QED BY <1>2, <1>3, <1>5, <1>6 DEF Cut, y

\* The top level is gone, with what it owed.
LEMMA CutLess ==
  ASSUME NEW n \in Nat \ {0}, NEW d \in Docs(n), NEW to
  PROVE  /\ Cut(d, n - 1, to).detail = SubSeq(d.detail, 1, n - 1)
         /\ Cut(d, n - 1, to).owes = d.owes \ {n}
<1>1. /\ d.detail \in [1 .. n -> Detail] /\ d.owes \in SUBSET (2 .. n) /\ Len(d.detail) = n
      /\ d.detail \in Seq(Detail)
  BY DocFields
<1>2. d.owes \cap 1 .. n - 1 = d.owes \ {n}
  BY <1>1
<1> DEFINE x == Resize(d.detail, n - 1, Plain)
           y == SubSeq(d.detail, 1, n - 1)
<1>3. x = y
  <2>1. x = [k \in 1 .. n - 1 |-> d.detail[k]]
    <3>1. DOMAIN d.detail = 1 .. n
      BY <1>1
    <3>2. \A k \in 1 .. n - 1 : k \in 1 .. n
      OBVIOUS
    <3> QED BY <3>1, <3>2 DEF Resize
  <2>2. y = [k \in 1 .. n - 1 |-> d.detail[k]]
    <3> DEFINE m == n - 1
               o == 1
               f == SubSeq(d.detail, o, m)
    <3>1. m \in Nat /\ m = n - 1 /\ o \in Int /\ o = 1 /\ \A k \in o .. m : d.detail[k] \in Detail
      BY <1>1
    <3> HIDE DEF m, o
    <3>2. /\ f \in Seq(Detail) /\ Len(f) = IF o <= m THEN m - o + 1 ELSE 0
          /\ \A k \in 1 .. m - o + 1 : f[k] = d.detail[o + k - 1]
      BY <3>1, SubSeqProperties
    <3>3. Len(f) = m /\ \A k \in 1 .. m : f[k] = d.detail[k]
      BY <3>1, <3>2
    <3> HIDE DEF f
    <3>4. f = [k \in 1 .. m |-> f[k]]
      BY <3>2, <3>3
    <3>5. f = [k \in 1 .. m |-> d.detail[k]]
      BY <3>3, <3>4
    <3> QED BY <3>5 DEF f, m, o
  <2> QED BY <2>1, <2>2
<1> HIDE DEF x, y
<1>4. Cut(d, n - 1, to).detail = x
  BY DEF Cut, x
<1> QED BY <1>2, <1>3, <1>4 DEF Cut, y

\* The store is replaced.
LEMMA RestoredStoreView ==
  ASSUME NEW n, NEW s, Shaped(s, n), NEW d \in [1 .. n -> Detail], NEW b \in SUBSET (2 .. n)
  PROVE  View([InvalidateAbove([s EXCEPT !.disp = d], 0) EXCEPT !.active = 0, !.debt = b])
           = [detail |-> d, on |-> s.on, target |-> s.target, owes |-> b, level |-> 0]
<1> DEFINE a == 0
           u == [s EXCEPT !.disp = d]
           w == InvalidateAbove(u, a)
           x == [w EXCEPT !.active = a, !.debt = b]
<1>1. n \in Nat /\ s \in Stack(n) /\ a \in 0 .. n /\ a = 0
  BY ShapedFacts
<1> HIDE DEF a
<1>2. u \in Stack(n) /\ u.slots = s.slots /\ u.on = s.on /\ u.target = s.target /\ u.disp = d
  BY <1>1 DEF Stack
<1> HIDE DEF u
<1>3. Shaped(u, n)
  BY <1>1, <1>2, ShapedLike
<1>4. Shaped(w, n) /\ w.disp = d /\ w.on = s.on /\ w.target = s.target
  <2>1. Shaped(w, n) /\ SameView(u, w)
    BY <1>1, <1>3, InvalidatingShape, InvalidatingView
  <2> HIDE DEF w
  <2> QED BY <1>2, <2>1 DEF SameView
<1> HIDE DEF w
<1>5. w \in Stack(n)
  BY <1>4, ShapedFacts
<1>6. x.disp = d /\ x.on = s.on /\ x.target = s.target /\ x.debt = b /\ x.active = a
  BY <1>4, <1>5 DEF Stack
<1> HIDE DEF x
<1> QED BY <1>1, <1>6 DEF View, x, w, u, a

LEMMA AttachedLeaves ==
  ASSUME NEW n, NEW s, NEW D, Good(s, n, D), NEW l, NEW a
  PROVE  Leaves(s, Attached(s, l), n, a)
<1> DEFINE o == [k \in DOMAIN s.domains |->
                   IF k = l THEN "bound" ELSE IF s.domains[k] = "bound" THEN "new" ELSE s.domains[k]]
           t == [s EXCEPT !.domains = o, !.fresh = TRUE]
<1>1. s \in Stack(n)
  BY GoodShape
<1>2. Attached(s, l) = t
  BY DEF Attached
<1> HIDE DEF o
<1>3. SameView(s, t) /\ t.slots = s.slots /\ t.cache = s.cache
  BY <1>1 DEF Stack, SameView
<1> HIDE DEF t
<1>4. \A k : (Resident(t, k) <=> Resident(s, k)) /\ SlotMesh(t, k) = SlotMesh(s, k)
  BY <1>3, SlotsSame
<1> QED BY <1>2, <1>3, <1>4 DEF Leaves

-----------------------------------------------------------------------------
(* Strokes.                                                                *)

LEMMA MirroredView ==
  ASSUME NEW n, NEW s, Shaped(s, n), NEW l \in 1 .. n, NEW vs
  PROVE  View(IfMirrored(s, l, vs)) = View(s)
<1> DEFINE q == [v \in Verts |-> IF v \in vs THEN s.cache[l].pos[v] ELSE SlotMesh(s, l)[v]]
           y == s.stale \ {l}
           u == SetMesh(s, l, q)
           w == [u EXCEPT !.stale = y]
           t == IfMirrored(s, l, vs)
<1>1. n \in Nat /\ s \in Stack(n) /\ Distinct(s.slots) /\ s.cache[l].pos \in Pos
  BY ShapedFacts, StackFields DEF PosCache
<1>2. CASE sess.mirror /\ Resident(s, l)
  <2>1. q \in Pos
    <3>1. SlotMesh(s, l) \in Pos
      BY <1>1, <1>2, SlotOf
    <3> QED BY <1>1, <3>1 DEF Pos
  <2>2. t = [SetMesh(s, l, q) EXCEPT !.stale = @ \ {l}]
    BY <1>2 DEF IfMirrored, Mirrored
  <2> HIDE DEF q, t
  <2>3. u \in Stack(n) /\ OnlySlots(s, u)
    BY <1>1, <2>1, SetMeshSlots
  <2>4. t = w
    <3>1. u.stale = s.stale
      BY <2>3 DEF OnlySlots
    <3> QED BY <2>2, <3>1
  <2> HIDE DEF u, y
  <2>5. w.disp = u.disp /\ w.on = u.on /\ w.target = u.target /\ w.debt = u.debt /\ w.active = u.active
    BY <2>3 DEF Stack
  <2> HIDE DEF w
  <2>6. SameView(s, t)
    BY <2>3, <2>4, <2>5 DEF SameView, OnlySlots
  <2> QED BY <2>6, ViewSame DEF t
<1>3. CASE ~(sess.mirror /\ Resident(s, l))
  BY <1>3 DEF IfMirrored, Mirrored
<1> QED BY <1>2, <1>3

\* A dab only moves positions.
LEMMA DabView ==
  ASSUME NEW n, NEW s, Shaped(s, n), NEW l \in 1 .. n, NEW p \in Pos, NEW vs
  PROVE  View(IfMirrored([s EXCEPT !.cache[l].pos = p], l, vs)) = View(s)
<1> DEFINE x == [s EXCEPT !.cache[l].pos = p]
<1>1. Shaped(x, n) /\ OnlyCache(s, x)
  BY Placing
<1> HIDE DEF x
<1>2. View(IfMirrored(x, l, vs)) = View(x) /\ View(x) = View(s)
  BY <1>1, MirroredView, OnlyCacheView
<1> QED BY <1>2 DEF x

-----------------------------------------------------------------------------
(* The document of the object and of the edit in a slot.                   *)

\* The document of s, whose active slot holds an edit if e.
DocOf(s, e) ==
  IF e THEN Promise!Owing(Promise!Given(View(s), s.active, s.target, SlotMesh(s, s.active)), s.active)
  ELSE View(s)

LEMMA DocParts ==
  ASSUME NEW disp, NEW on, NEW target, NEW debt, NEW a, NEW p
  PROVE  Promise!Owing(Promise!Given([detail |-> disp, on |-> on, target |-> target, owes |-> debt,
                                      level |-> a], a, target, p), a)
           = [detail |-> [disp EXCEPT ![a] = Express(@, on, target, Stencil[Surface(disp, on, a - 1)],
                                                     p, Verts)],
              on |-> on, target |-> target, level |-> a,
              owes |-> IF a >= 2 THEN debt \union {a} ELSE debt]
<1> DEFINE d == [detail |-> disp, on |-> on, target |-> target, owes |-> debt, level |-> a]
           x == Express(disp[a], on, target, Stencil[Surface(disp, on, a - 1)], p, Verts)
           f == [disp EXCEPT ![a] = x]
           g == [detail |-> f, on |-> on, target |-> target, owes |-> debt, level |-> a]
           b == debt \union {a}
<1>1. d.detail = disp /\ d.on = on
  OBVIOUS
<1>2. Promise!Given(d, a, target, p) = [d EXCEPT !.detail[a] = x]
  <2>1. Promise!Given(d, a, target, p)
          = [d EXCEPT !.detail[a] = Promise!Express(@, d.on, target, Promise!Underlying(d, a), p, Verts)]
    BY DEF Promise!Given
  <2>2. Promise!Underlying(d, a) = Stencil[Surface(disp, on, a - 1)]
    BY <1>1, ShownIs
  <2> DEFINE u == Stencil[Surface(disp, on, a - 1)]
  <2>3. Promise!Express(d.detail[a], d.on, target, u, p, Verts) = x
    BY <1>1, SameExpress
  <2> HIDE DEF d
  <2> QED BY <2>1, <2>2, <2>3
<1> HIDE DEF x
<1>3. [d EXCEPT !.detail[a] = x] = g
  OBVIOUS
<1>4. Promise!Owing(g, a) = IF a >= 2 THEN [g EXCEPT !.owes = b] ELSE g
  BY DEF Promise!Owing
<1> HIDE DEF f
<1>5. [g EXCEPT !.owes = b] = [detail |-> f, on |-> on, target |-> target, level |-> a, owes |-> b]
  OBVIOUS
<1>6. f = [disp EXCEPT ![a] = Express(@, on, target, Stencil[Surface(disp, on, a - 1)], p, Verts)]
  BY DEF f, x
<1> QED BY <1>2, <1>3, <1>4, <1>5, <1>6

LEMMA DocumentIs == Document = DocOf(mr, edited)
<1>1. CASE edited
  <2> DEFINE a == mr.active
             p == SlotMesh(mr, a)
  <2>1. Document = [detail |-> [mr.disp EXCEPT ![a] = Express(@, mr.on, mr.target, Stencil[Surface(mr.disp, mr.on, a - 1)], p, Verts)],
              on |-> mr.on, target |-> mr.target, level |-> a,
              owes |-> IF a >= 2 THEN mr.debt \union {a} ELSE mr.debt]
    BY <1>1 DEF Document, Pending, Shows
  <2> HIDE DEF p
  <2>2. Document = Promise!Owing(Promise!Given(View(mr), a, mr.target, p), a)
    BY <2>1, DocParts DEF View
  <2> QED BY <1>1, <2>2 DEF DocOf, p
<1>2. CASE ~edited
  BY <1>2 DEF Document, DocOf, View
<1> QED BY <1>1, <1>2

LEMMA DocumentNext == Document' = DocOf(mr', edited')
<1>1. CASE edited'
  <2> DEFINE a == mr'.active
             p == SlotMesh(mr', a)
  <2>1. Document' = [detail |-> [mr'.disp EXCEPT ![a] = Express(@, mr'.on, mr'.target, Stencil[Surface(mr'.disp, mr'.on, a - 1)], p, Verts)],
              on |-> mr'.on, target |-> mr'.target, level |-> a,
              owes |-> IF a >= 2 THEN mr'.debt \union {a} ELSE mr'.debt]
    BY <1>1 DEF Document, Pending, Shows
  <2> HIDE DEF p
  <2>2. Document' = Promise!Owing(Promise!Given(View(mr'), a, mr'.target, p), a)
    BY <2>1, DocParts DEF View
  <2> QED BY <1>1, <2>2 DEF DocOf, p
<1>2. CASE ~edited'
  BY <1>2 DEF Document, DocOf, View
<1> QED BY <1>1, <1>2

\* A pending edit differs from what its level shows.
EditReal == edited => SlotMesh(mr, mr.active) # mr.cache[mr.active].pos

\* The document is the object's once the edit is folded.
LEMMA Folding ==
  ASSUME Unmirrored = {}, Inv, EditReal, NEW n, Good(mr, n, Ahead)
  PROVE  /\ Good(Writeback(mr, mr.active), n, {}) /\ View(Writeback(mr, mr.active)) = Document
         /\ Writeback(mr, mr.active).active = mr.active /\ (~edited => Document = View(mr))
<1> DEFINE a == mr.active
           D == Ahead
           f == Writeback(mr, a)
           E == D \ {a}
<1>1. E = {}
  BY DEF Ahead
<1>2. Good(f, n, E) /\ Frame(mr, f)
  BY WritebackActive
<1>3. CASE edited
  <2>1. a \in 1 .. n /\ Resident(mr, a) /\ a \notin mr.stale /\ mr.cache[a].valid
    <3>1. Resident(mr, a)
      BY <1>3, InvParts DEF EditInv
    <3> QED BY <3>1, CleanSlot
  <2> DEFINE p == SlotMesh(mr, a)
  <2>2. p # mr.cache[a].pos
    BY <1>3 DEF EditReal
  <2>3. f = Folded(mr, a, p, Differing(mr, a, p))
    BY <2>1 DEF Writeback
  <2>4. View(f) = Promise!Owing(Promise!Given(View(mr), a, mr.target, p), a)
    <3>1. a = mr.active
      OBVIOUS
    <3> HIDE DEF a, D, f
    <3> QED BY <2>1, <2>2, <2>3, FoldedView DEF D
  <2>5. View(f) = DocOf(mr, edited)
    BY <1>3, <2>4 DEF DocOf
  <2> HIDE DEF f
  <2> QED BY <1>1, <1>2, <1>3, <2>5, DocumentIs DEF Frame, f
<1>4. CASE ~edited
  <2>1. D = {}
    BY <1>4 DEF Ahead
  <2>2. a \notin D /\ Good(mr, n, D)
    BY <2>1
  <2> HIDE DEF a, D
  <2>3. f = mr
    BY <2>2, WritebackClean
  <2>4. Document = View(mr)
    BY <1>4, DocumentIs DEF DocOf
  <2> QED BY <1>1, <1>2, <2>3, <2>4 DEF Frame, f, a, E
<1> QED BY <1>3, <1>4

\* What a call that leaves no edit does to the document.
LEMMA DocumentAfter ==
  ASSUME Unmirrored = {}, NEW n, NEW t, Good(t, n, {}), Becomes(t)
  PROVE  Document' = View(t) /\ ~edited' /\ mr' = t
<1> DEFINE D == {}
           a == t.active
<1>1. mr' = t
  BY DEF Becomes
<1>2. ~edited'
  <2> SUFFICES ASSUME edited' PROVE FALSE
    OBVIOUS
  <2>1. Resident(t, a) /\ SlotMesh(t, a) # t.cache[a].pos
    BY DEF Becomes
  <2>2. Good(t, n, D) /\ a \notin D
    OBVIOUS
  <2> HIDE DEF a, D
  <2>3. t.cache[a].pos = Surf(t, a) /\ SlotMesh(t, a) = Surf(t, a)
    BY <2>1, <2>2, CleanSlot
  <2> QED BY <2>1, <2>3
<1>3. Document' = View(t)
  BY <1>1, <1>2, DocumentNext DEF DocOf
<1> QED BY <1>1, <1>2, <1>3

\* A call that does not reach the active slot leaves the document.
LEMMA DocumentKept ==
  ASSUME Unmirrored = {}, Inv, EditReal, NEW n, Good(mr, n, Ahead),
         NEW t, Leaves(mr, t, n, mr.active), Becomes(t)
  PROVE  Document' = Document
<1> DEFINE a == mr.active
<1>1. mr' = t /\ t.active = a /\ View(t) = View(mr) /\ t.target = mr.target
  BY ViewSame DEF Becomes, Leaves, SameView
<1>2. CASE edited
  <2>1. a \in 1 .. n /\ Resident(mr, a) /\ mr.cache[a].valid
    <3>1. Resident(mr, a)
      BY <1>2, InvParts DEF EditInv
    <3> QED BY <3>1, CleanSlot
  <2>2. Resident(t, a) /\ SlotMesh(t, a) = SlotMesh(mr, a) /\ t.cache[a].pos = mr.cache[a].pos
    BY <2>1 DEF Leaves
  <2>3. SlotMesh(mr, a) # mr.cache[a].pos
    BY <1>2 DEF EditReal
  <2>4. edited'
    BY <1>1, <1>2, <2>2, <2>3 DEF Becomes
  <2>5. DocOf(t, edited') = DocOf(mr, edited)
    BY <1>1, <1>2, <2>2, <2>4 DEF DocOf
  <2> QED BY <1>1, <2>5, DocumentIs, DocumentNext
<1>3. CASE ~edited
  <2>1. ~edited'
    BY <1>3 DEF Becomes
  <2> QED BY <1>1, <1>3, <2>1, DocumentIs, DocumentNext DEF DocOf
<1> QED BY <1>2, <1>3

-----------------------------------------------------------------------------
(* More of the invariant: what the log says of the debt.                   *)

\* An open stroke knows what its level owed, and level 1 never owes.
StepReal == sess.open /\ sess.touched # {} => (Last(past).pre <=> sess.level \in mr.debt)
Owed(log, l) == \A i \in DOMAIN log : log[i].pre \/ log[i].post => l >= 2

Extra == EditReal /\ StepReal /\ Owed(past, sess.level) /\ Owed(future, sess.level)

LEMMA InitExtra == Init => Extra
BY DEF Init, Extra, EditReal, StepReal, Owed, NoSession

LEMMA EditBecomes ==
  ASSUME NEW t, Becomes(t)
  PROVE  EditReal'
BY DEF Becomes, EditReal

LEMMA ExtraCall ==
  ASSUME Extra, NEW t, Becomes(t), ~sess.open, UNCHANGED <<sess, past, future>>
  PROVE  Extra'
BY EditBecomes DEF Extra, StepReal

LEMMA MeshEditExtra ==
  ASSUME Unmirrored = {}, Inv, Extra, MeshEdit
  PROVE  Extra'
<1> DEFINE l == mr.active
           D == Ahead
<1>1. /\ ~sess.open /\ ~edited /\ l >= 1 /\ Resident(mr, l) /\ l \notin mr.stale
      /\ UNCHANGED <<sess, past, future>>
  BY DEF MeshEdit, Idle
<1>2. PICK p \in Pos \ {SlotMesh(mr, l)} : mr' = SetMesh(mr, l, p)
  BY DEF MeshEdit
<1>3. PICK n : Good(mr, n, D)
  BY <1>1, Quiet
<1>4. D = {} /\ l \notin D
  BY <1>1 DEF Ahead
<1>5. Shaped(mr, n) /\ n \in Nat /\ mr \in Stack(n) /\ Distinct(mr.slots) /\ l \in 1 .. n
  <2>1. Shaped(mr, n)
    BY <1>3, GoodShape
  <2> QED BY <1>1, <2>1, ShapedFacts
<1> DEFINE t == SetMesh(mr, l, p)
<1>6. OnlySlots(mr, t) /\ SlotMesh(t, l) = p
  <2>1. /\ t \in Stack(n) /\ OnlySlots(mr, t) /\ Distinct(t.slots)
        /\ Len(t.slots) = Len(mr.slots)
        /\ \A k : Resident(t, k) <=> Resident(mr, k)
        /\ \A k : Resident(mr, k) => SlotMesh(t, k) = IF k = l THEN p ELSE SlotMesh(mr, k)
    <3> HIDE DEF l
    <3> QED BY <1>2, <1>5, SetMeshSlots
  <2> QED BY <1>1, <2>1
<1>7. mr' = t
  BY <1>2
<1>8. mr.cache[l].pos = SlotMesh(mr, l)
  <2> HIDE DEF D, l
  <2>1. mr.cache[l].pos = Surf(mr, l) /\ SlotMesh(mr, l) = Surf(mr, l)
    BY <1>1, <1>3, <1>4, CleanSlot
  <2> QED BY <2>1
<1> HIDE DEF t
<1>9. EditReal'
  <2>1. mr'.active = l /\ mr'.cache = mr.cache
    BY <1>6, <1>7 DEF OnlySlots
  <2> QED BY <1>2, <1>6, <1>7, <1>8, <2>1 DEF EditReal
<1>10. StepReal' /\ Owed(past, sess.level)' /\ Owed(future, sess.level)'
  BY <1>1 DEF StepReal, Extra
<1> QED BY <1>9, <1>10 DEF Extra

LEMMA OpenSessionExtra == ASSUME Inv, Extra, OpenSession PROVE Extra'
<1>1. PICK l \in Levels(mr), m \in Mirrors :
        /\ Becomes(Attached(GridDomain(mr, l), l))
        /\ sess' = [NoSession EXCEPT !.level = l, !.mirror = m]
  BY DEF OpenSession
<1>2. past' = <<>> /\ future' = <<>>
  BY DEF OpenSession
<1>3. ~sess'.open
  BY <1>1 DEF NoSession
<1>4. EditReal'
  BY <1>1, EditBecomes
<1> QED BY <1>2, <1>3, <1>4 DEF Extra, StepReal, Owed

LEMMA SetMirrorExtra == ASSUME Inv, Extra, SetMirror PROVE Extra'
<1>1. /\ sess'.level = sess.level /\ sess'.open = sess.open /\ sess'.touched = sess.touched
      /\ UNCHANGED <<mr, past, future, edited>>
  BY InvParts DEF SetMirror, Sessions
<1> QED BY <1>1 DEF Extra, EditReal, StepReal

LEMMA BeginStrokeExtra == ASSUME Inv, Extra, BeginStroke PROVE Extra'
<1> DEFINE x == GridDomain(mr, sess.level)
           t == IF Same(x) THEN x ELSE Attached(x, sess.level)
<1>1. /\ Becomes(t) /\ past' = (IF Same(x) THEN past ELSE <<>>)
      /\ future' = <<>> /\ sess' = [sess EXCEPT !.open = TRUE, !.touched = {}]
  BY DEF BeginStroke
<1> HIDE DEF x, t
<1>2. sess'.level = sess.level /\ sess'.touched = {}
  BY <1>1, InvParts DEF Sessions
<1>3. past' = past \/ past' = <<>>
  BY <1>1
<1>4. EditReal'
  BY <1>1, EditBecomes
<1> QED BY <1>1, <1>2, <1>3, <1>4 DEF Extra, StepReal, Owed

\* A dab records what the level owes, and leaves the debt.
LEMMA DabIs ==
  ASSUME Inv, Dab
  PROVE  \E n, t, b : /\ Stroking(mr, n, sess.level) /\ Becomes(t) /\ View(t) = View(mr)
                      /\ sess'.level = sess.level /\ sess'.open /\ sess'.touched # {}
                      /\ sess.open /\ b \in Step /\ (b.pre <=> sess.level \in mr.debt) /\ ~b.post
                      /\ past' = (IF sess.touched # {} THEN past ELSE Append(past, b))
                      /\ UNCHANGED <<future, saved>>
<1> DEFINE l == sess.level
           moved(p) == Differing(mr, l, p)
           after(p) == IfMirrored([mr EXCEPT !.cache[l].pos = p], l, moved(p))
           b == [pos |-> mr.cache[l].pos, chan |-> Base, disp |-> Flat,
                 pre |-> l \in mr.debt, post |-> FALSE]
<1>1. PICK p \in Pos :
        /\ moved(p) # {} /\ Becomes(after(p))
        /\ sess' = [sess EXCEPT !.touched = @ \union moved(p)]
        /\ past' = IF sess.touched # {} THEN past ELSE Append(past, b)
  BY DEF Dab
<1>2. sess.open /\ UNCHANGED <<future, saved>>
  BY DEF Dab
<1>3. PICK n : Stroking(mr, n, l)
  BY <1>2, Open
<1>4. Shaped(mr, n) /\ l \in 1 .. n /\ mr.cache[l].pos \in Pos
  BY <1>3, StrokingFacts
<1> DEFINE w == moved(p)
           t == after(p)
<1>5. View(t) = View(mr)
  <2>1. View(IfMirrored([mr EXCEPT !.cache[l].pos = p], l, w)) = View(mr)
    <3> HIDE DEF l, w
    <3> QED BY <1>4, DabView
  <2>2. t = IfMirrored([mr EXCEPT !.cache[l].pos = p], l, w)
    OBVIOUS
  <2> HIDE DEF t, w, l
  <2> QED BY <2>1, <2>2
<1>6. sess'.level = l /\ sess'.open /\ sess'.touched = sess.touched \union w
  BY <1>1, <1>2, InvParts DEF Sessions
<1>7. b \in Step /\ (b.pre <=> l \in mr.debt) /\ ~b.post
  <2> DEFINE x == mr.cache[l].pos
             y == l \in mr.debt
             c == [pos |-> x, chan |-> Base, disp |-> Flat, pre |-> y, post |-> FALSE]
  <2>1. x \in Pos /\ y \in BOOLEAN /\ Base \in Channels /\ Flat \in Pos
    BY <1>4, ConstantFacts
  <2>2. b = c /\ (y <=> l \in mr.debt)
    OBVIOUS
  <2> HIDE DEF x, y, b
  <2>3. c \in Step /\ c.pre = y /\ c.post = FALSE
    BY <2>1 DEF Step
  <2> QED BY <2>2, <2>3
<1> HIDE DEF t, b, w, l
<1>8. sess'.touched # {}
  BY <1>1, <1>6 DEF w
<1>9. Becomes(t)
  BY <1>1 DEF t
<1> QED BY <1>1, <1>2, <1>3, <1>5, <1>6, <1>7, <1>8, <1>9 DEF l

LEMMA AppendOwed ==
  ASSUME NEW p \in Seq(Step), NEW x \in Step, NEW l, Owed(p, l), x.pre \/ x.post => l >= 2
  PROVE  Owed(Append(p, x), l)
<1> DEFINE q == Append(p, x)
<1>1. q \in Seq(Step) /\ Len(q) = Len(p) + 1 /\ q[Len(q)] = x
      /\ \A i \in 1 .. Len(p) : q[i] = p[i]
  OBVIOUS
<1>2. DOMAIN q = 1 .. Len(q) /\ DOMAIN p = 1 .. Len(p) /\ Len(p) \in Nat
  BY <1>1
<1> HIDE DEF q
<1>3. \A i \in DOMAIN q : i \in DOMAIN p \/ i = Len(q)
  BY <1>1, <1>2
<1>4. Owed(q, l)
  BY <1>1, <1>2, <1>3 DEF Owed
<1> QED BY <1>4 DEF q

LEMMA DabExtra == ASSUME Inv, Extra, Dab PROVE Extra'
<1>1. PICK n, t, b :
        /\ Stroking(mr, n, sess.level) /\ Becomes(t) /\ View(t) = View(mr)
        /\ sess'.level = sess.level /\ sess'.open /\ sess'.touched # {}
        /\ sess.open /\ b \in Step /\ (b.pre <=> sess.level \in mr.debt) /\ ~b.post
        /\ past' = (IF sess.touched # {} THEN past ELSE Append(past, b))
        /\ UNCHANGED <<future, saved>>
  BY DabIs
<1>2. EditReal'
  BY <1>1, EditBecomes
<1>3. mr'.debt = mr.debt
  BY <1>1 DEF View, Becomes
<1>4. sess.level \in mr.debt => sess.level >= 2
  <2>1. Shaped(mr, n) /\ n \in Nat /\ mr \in Stack(n)
    BY <1>1, StrokingFacts
  <2>2. mr.debt \in SUBSET (2 .. n)
    BY <2>1, StackFields
  <2> QED BY <2>1, <2>2
<1>5. StepReal' /\ Owed(past', sess.level)
  <2>1. CASE sess.touched # {}
    BY <1>1, <1>3, <2>1 DEF Extra, StepReal
  <2>2. CASE ~(sess.touched # {})
    <3> DEFINE q == Append(past, b)
               l == sess.level
    <3>1. past' = q
      BY <1>1, <2>2
    <3>2. Last(q) = b
      BY <1>1, InvParts, AppendFacts
    <3>3. b.pre \/ b.post => l >= 2
      BY <1>1, <1>4
    <3>4. Owed(past, l)
      BY DEF Extra
    <3> HIDE DEF l
    <3>5. Owed(q, l)
      BY <1>1, <3>3, <3>4, InvParts, AppendOwed
    <3> HIDE DEF q
    <3> QED BY <1>1, <1>3, <3>1, <3>2, <3>5 DEF StepReal, l
  <2> QED BY <2>1, <2>2
<1> QED BY <1>1, <1>2, <1>5 DEF Extra

\* What recording a step keeps of it, and what it adds.
NotesDebt(p, r, b) ==
  /\ r \in Seq(Step) /\ Len(r) = Len(p) /\ (\A i \in 1 .. Len(p) - 1 : r[i] = p[i])
  /\ r[Len(p)].pre = Last(p).pre /\ r[Len(p)].post = b

LEMMA NotingDebt ==
  ASSUME NEW p \in Seq(Step), p # <<>>, NEW c \in Channels, NEW d \in Pos, NEW b \in BOOLEAN
  PROVE  NotesDebt(p, Noted(p, c, d, b), b)
<1> DEFINE k == Len(p)
           q == [p EXCEPT ![k].chan = c]
           r == [q EXCEPT ![k].disp = d]
           u == [r EXCEPT ![k].post = b]
<1>1. k \in 1 .. k /\ p[k] \in Step /\ Last(p) = p[k] /\ k \in Nat
  <2>1. Len(p) \in Nat \ {0} /\ Last(p) \in Step /\ Last(p) = p[Len(p)]
    BY FrontFacts
  <2> QED BY <2>1
<1>2. Noted(p, c, d, b) = u
  BY DEF Noted
<1>3. /\ q \in Seq(Step) /\ Len(q) = k /\ q[k].pre = p[k].pre
      /\ \A i \in 1 .. k - 1 : q[i] = p[i]
  <2> DEFINE x == [p[k] EXCEPT !.chan = c]
  <2>1. x \in Step /\ x.pre = p[k].pre
    BY <1>1 DEF Step
  <2>2. q = [p EXCEPT ![k] = x]
    OBVIOUS
  <2> HIDE DEF x, q, k
  <2>3. k = Len(p)
    BY DEF k
  <2> QED BY <1>1, <2>1, <2>2, <2>3
<1> HIDE DEF q
<1>4. /\ r \in Seq(Step) /\ Len(r) = k /\ r[k].pre = q[k].pre
      /\ \A i \in 1 .. k - 1 : r[i] = q[i]
  <2> DEFINE x == [q[k] EXCEPT !.disp = d]
  <2>1. q[k] \in Step
    BY <1>1, <1>3
  <2>2. x \in Step /\ x.pre = q[k].pre
    BY <2>1 DEF Step
  <2>3. r = [q EXCEPT ![k] = x]
    OBVIOUS
  <2> HIDE DEF x, r, k
  <2> QED BY <1>1, <1>3, <2>2, <2>3
<1> HIDE DEF r
<1>5. /\ u \in Seq(Step) /\ Len(u) = k /\ u[k].pre = r[k].pre /\ u[k].post = b
      /\ \A i \in 1 .. k - 1 : u[i] = r[i]
  <2> DEFINE x == [r[k] EXCEPT !.post = b]
  <2>1. r[k] \in Step
    BY <1>1, <1>4
  <2>2. x \in Step /\ x.pre = r[k].pre /\ x.post = b
    BY <2>1 DEF Step
  <2>3. u = [r EXCEPT ![k] = x]
    OBVIOUS
  <2> HIDE DEF x, u, k
  <2> QED BY <1>1, <1>4, <2>2, <2>3
<1> HIDE DEF u
<1>6. k = Len(p)
  OBVIOUS
<1> HIDE DEF k
<1> QED BY <1>1, <1>2, <1>3, <1>4, <1>5, <1>6 DEF NotesDebt

\* The end of a stroke: nothing was touched, or the step is recorded with
\* what the level owes now.
LEMMA EndStrokeIs ==
  ASSUME Inv, EndStroke
  PROVE  /\ sess.open /\ ~sess'.open /\ sess'.level = sess.level /\ UNCHANGED <<future, saved>>
         /\ \E n : /\ Stroking(mr, n, sess.level) /\ Good(mr', n, {}) /\ Becomes(mr')
                   /\ IF sess.touched = {} THEN mr' = mr /\ past' = past
                      ELSE /\ past # <<>>
                           /\ mr' = IfMirrored(FoldStroke(mr, sess.level, sess.touched),
                                               sess.level, sess.touched)
                           /\ past' = Noted(past, mr.target, mr.disp[sess.level][mr.target],
                                            sess.level \in mr'.debt)
<1> DEFINE l == sess.level
           k == sess.touched
           after == IfMirrored(FoldStroke(mr, l, k), l, k)
<1>1. sess.open /\ sess' = [sess EXCEPT !.open = FALSE] /\ UNCHANGED <<future, saved>>
  BY DEF EndStroke
<1>2. ~sess'.open /\ sess'.level = l
  BY <1>1, InvParts DEF Sessions
<1>3. PICK n : Stroking(mr, n, l)
  BY <1>1, Open
<1>4. /\ Strayed(mr, l, k) /\ (k # {} => past # <<>>) /\ (l \notin Unmirrored => sess.mirror)
  BY <1>1, Open
<1>5. CASE k = {}
  <2>1. Becomes(mr) /\ past' = past
    BY <1>5 DEF EndStroke
  <2>2. mr' = mr /\ Becomes(mr')
    BY <2>1 DEF Becomes
  <2>3. Good(mr, n, {})
    BY <1>3, <1>4, <1>5, NothingStroked
  <2> QED BY <1>1, <1>2, <1>3, <1>5, <2>1, <2>2, <2>3
<1>6. CASE k # {}
  <2>1. /\ Becomes(after)
        /\ past' = Noted(past, mr.target, mr.disp[l][mr.target], l \in mr'.debt)
    BY <1>6 DEF EndStroke, Noted
  <2>2. mr' = after /\ Becomes(mr')
    BY <2>1 DEF Becomes
  <2>3. Good(after, n, {})
    BY <1>3, <1>4, EndedGood
  <2> HIDE DEF after
  <2>4. Good(mr', n, {})
    BY <2>2, <2>3
  <2> QED BY <1>1, <1>2, <1>3, <1>4, <1>6, <2>1, <2>2, <2>4 DEF after
<1> QED BY <1>5, <1>6

LEMMA EndStrokeExtra == ASSUME Inv, Extra, EndStroke PROVE Extra'
<1> DEFINE l == sess.level
           c == mr.target
           d == mr.disp[l][c]
           b == l \in mr'.debt
<1>1. PICK n : /\ sess.open /\ ~sess'.open /\ sess'.level = l /\ UNCHANGED <<future, saved>>
               /\ Stroking(mr, n, l) /\ Good(mr', n, {}) /\ Becomes(mr')
               /\ IF sess.touched = {} THEN mr' = mr /\ past' = past
                  ELSE past # <<>> /\ past' = Noted(past, c, d, b)
  BY EndStrokeIs
<1>2. EditReal'
  BY <1>1, EditBecomes
<1>3. /\ c \in Channels /\ d \in Pos /\ b \in BOOLEAN /\ past \in Seq(Step)
      /\ (b => l >= 2)
  <2>1. n \in Nat /\ mr \in Stack(n) /\ l \in 1 .. n
    BY <1>1, StrokingFacts
  <2>2. c \in Channels /\ mr.disp[l] \in Detail
    BY <2>1, StackFields
  <2>3. d \in Pos
    BY <2>2 DEF Detail
  <2>4. Shaped(mr', n)
    BY <1>1, GoodShape
  <2>5. mr' \in Stack(n)
    BY <2>4, ShapedFacts
  <2>6. mr'.debt \in SUBSET (2 .. n)
    BY <2>1, <2>5, StackFields
  <2> QED BY <2>1, <2>2, <2>3, <2>6, InvParts
<1>4. Owed(past', l)
  <2>1. CASE sess.touched = {}
    BY <1>1, <2>1 DEF Extra
  <2>2. CASE sess.touched # {}
    <3> DEFINE r == Noted(past, c, d, b)
    <3>1. past # <<>> /\ past' = r
      BY <1>1, <2>2
    <3> HIDE DEF b, c, d, l
    <3>2. NotesDebt(past, r, b)
      BY <1>3, <3>1, NotingDebt
    <3> HIDE DEF r
    <3>3. /\ r \in Seq(Step) /\ Len(r) = Len(past) /\ (\A i \in 1 .. Len(past) - 1 : r[i] = past[i])
          /\ r[Len(past)].pre = Last(past).pre /\ r[Len(past)].post = b
      BY <3>2 DEF NotesDebt
    <3>4. Last(past) = past[Len(past)] /\ Len(past) \in DOMAIN past /\ Len(past) \in Nat \ {0}
          /\ DOMAIN past = 1 .. Len(past)
      <4>1. Last(past) = past[Len(past)] /\ Len(past) \in Nat \ {0}
        BY <1>3, <3>1, FrontFacts
      <4> QED BY <1>3, <4>1
    <3>5. \A i \in DOMAIN past : past[i].pre \/ past[i].post => l >= 2
      BY DEF Extra, Owed, l
    <3>6. DOMAIN r = DOMAIN past
      BY <3>3, <3>4
    <3>7. ASSUME NEW i \in DOMAIN r, r[i].pre \/ r[i].post PROVE l >= 2
      <4>1. CASE i = Len(past)
        BY <1>3, <3>3, <3>4, <3>5, <3>7, <4>1
      <4>2. CASE i # Len(past)
        <5>1. i \in 1 .. Len(past) - 1
          BY <3>4, <3>6, <4>2
        <5> QED BY <3>3, <3>5, <3>6, <3>7, <5>1
      <4> QED BY <4>1, <4>2
    <3> QED BY <3>1, <3>7 DEF Owed
  <2> QED BY <2>1, <2>2
<1> QED BY <1>1, <1>2, <1>4 DEF Extra, StepReal

\* The other side of a step keeps what the step says of the debt.
LEMMA OtherDebt ==
  ASSUME NEW x \in Step
  PROVE  OtherSide(x).pre = x.pre /\ OtherSide(x).post = x.post
BY DEF OtherSide, Step

LEMMA OwedFront ==
  ASSUME NEW p \in Seq(Step), p # <<>>, NEW l, Owed(p, l)
  PROVE  Owed(Front(p), l) /\ (Last(p).pre \/ Last(p).post => l >= 2)
<1>1. /\ Front(p) \in Seq(Step) /\ Len(Front(p)) = Len(p) - 1 /\ Len(p) \in Nat \ {0}
      /\ \A i \in 1 .. Len(p) - 1 : Front(p)[i] = p[i]
      /\ Last(p) = p[Len(p)]
  BY FrontFacts
<1>2. DOMAIN p = 1 .. Len(p) /\ Len(p) \in DOMAIN p
  BY <1>1
<1> DEFINE q == Front(p)
<1>3. DOMAIN q = 1 .. Len(p) - 1
  BY <1>1
<1> HIDE DEF q
<1>4. \A i \in DOMAIN q : i \in DOMAIN p /\ i \in 1 .. Len(p) - 1
  BY <1>1, <1>2, <1>3
<1> QED BY <1>1, <1>2, <1>4 DEF Owed, q

LEMMA OwedTail ==
  ASSUME NEW p \in Seq(Step), p # <<>>, NEW l, Owed(p, l)
  PROVE  Owed(Tail(p), l) /\ (Head(p).pre \/ Head(p).post => l >= 2)
<1>1. /\ Tail(p) \in Seq(Step) /\ Len(Tail(p)) = Len(p) - 1 /\ Len(p) \in Nat \ {0}
      /\ \A i \in 1 .. Len(p) - 1 : Tail(p)[i] = p[i + 1]
      /\ Head(p) = p[1]
  BY TailFacts
<1>2. DOMAIN p = 1 .. Len(p) /\ 1 \in DOMAIN p
  BY <1>1
<1> DEFINE q == Tail(p)
<1>3. DOMAIN q = 1 .. Len(p) - 1
  BY <1>1
<1> HIDE DEF q
<1>4. \A i \in DOMAIN q : i + 1 \in DOMAIN p /\ i \in 1 .. Len(p) - 1
  BY <1>1, <1>2, <1>3
<1> QED BY <1>1, <1>2, <1>4 DEF Owed, q

LEMMA OwedFirst ==
  ASSUME NEW p \in Seq(Step), NEW x \in Step, NEW l, Owed(p, l), x.pre \/ x.post => l >= 2
  PROVE  Owed(<<x>> \o p, l)
<1> DEFINE q == <<x>> \o p
<1>1. q \in Seq(Step) /\ Len(q) = Len(p) + 1 /\ q[1] = x /\ Len(p) \in Nat
      /\ \A i \in 2 .. Len(p) + 1 : q[i] = p[i - 1]
  OBVIOUS
<1>2. DOMAIN q = 1 .. Len(p) + 1 /\ DOMAIN p = 1 .. Len(p)
  BY <1>1
<1> HIDE DEF q
<1>3. \A i \in DOMAIN q : i = 1 \/ (i \in 2 .. Len(p) + 1 /\ i - 1 \in DOMAIN p)
  BY <1>1, <1>2
<1>4. Owed(q, l)
  BY <1>1, <1>3 DEF Owed
<1> QED BY <1>4 DEF q

LEMMA UndoStrokeExtra == ASSUME Inv, Extra, UndoStroke PROVE Extra'
<1> DEFINE step == Last(past)
           o == OtherSide(step)
           l == sess.level
<1>1. /\ CanSeek /\ past # <<>> /\ Becomes(Swapped(step, step.pre))
      /\ future' = <<o>> \o future /\ past' = Front(past) /\ UNCHANGED <<sess, saved>>
  BY DEF UndoStroke
<1>2. EditReal'
  BY <1>1, EditBecomes
<1>3. ~sess.open
  BY <1>1, Seeking
<1>4. past \in Seq(Step) /\ future \in Seq(Step) /\ step \in Step /\ Owed(past, l) /\ Owed(future, l)
  BY <1>1, InvParts, FrontFacts DEF Extra
<1>5. o \in Step
  <2>1. PICK n : Good(mr, n, {})
    BY <1>1, Seeking
  <2>2. l \in 1 .. n /\ mr.domains[l] # "none"
    BY <1>1, <2>1, Seeking, QuietDepth
  <2> HIDE DEF step
  <2>3. Reverses(mr, l, o, step)
    BY <1>4, <2>1, <2>2, OtherSideIs
  <2> QED BY <2>3 DEF Reverses
<1>6. o.pre = step.pre /\ o.post = step.post
  <2> HIDE DEF step
  <2> QED BY <1>4, OtherDebt
<1>7. Owed(Front(past), l) /\ (step.pre \/ step.post => l >= 2)
  <2> HIDE DEF l
  <2> QED BY <1>1, <1>4, OwedFront
<1> HIDE DEF o, step
<1>8. Owed(<<o>> \o future, l)
  <2>1. o.pre \/ o.post => l >= 2
    BY <1>6, <1>7
  <2> HIDE DEF l
  <2> QED BY <1>4, <1>5, <2>1, OwedFirst
<1> QED BY <1>1, <1>2, <1>3, <1>7, <1>8 DEF Extra, StepReal, o

LEMMA RedoStrokeExtra == ASSUME Inv, Extra, RedoStroke PROVE Extra'
<1> DEFINE step == Head(future)
           o == OtherSide(step)
           l == sess.level
<1>1. /\ CanSeek /\ future # <<>> /\ Becomes(Swapped(step, step.post))
      /\ past' = Append(past, o) /\ future' = Tail(future) /\ UNCHANGED <<sess, saved>>
  BY DEF RedoStroke
<1>2. EditReal'
  BY <1>1, EditBecomes
<1>3. ~sess.open
  BY <1>1, Seeking
<1>4. past \in Seq(Step) /\ future \in Seq(Step) /\ step \in Step /\ Owed(past, l) /\ Owed(future, l)
  BY <1>1, InvParts, TailFacts DEF Extra
<1>5. o \in Step
  <2>1. PICK n : Good(mr, n, {})
    BY <1>1, Seeking
  <2>2. l \in 1 .. n /\ mr.domains[l] # "none"
    BY <1>1, <2>1, Seeking, QuietDepth
  <2> HIDE DEF step
  <2>3. Reverses(mr, l, o, step)
    BY <1>4, <2>1, <2>2, OtherSideIs
  <2> QED BY <2>3 DEF Reverses
<1>6. o.pre = step.pre /\ o.post = step.post
  <2> HIDE DEF step
  <2> QED BY <1>4, OtherDebt
<1>7. Owed(Tail(future), l) /\ (step.pre \/ step.post => l >= 2)
  <2> HIDE DEF l
  <2> QED BY <1>1, <1>4, OwedTail
<1> HIDE DEF o, step
<1>8. Owed(Append(past, o), l)
  <2>1. o.pre \/ o.post => l >= 2
    BY <1>6, <1>7
  <2> HIDE DEF l
  <2> QED BY <1>4, <1>5, <2>1, AppendOwed
<1> QED BY <1>1, <1>2, <1>3, <1>7, <1>8 DEF Extra, StepReal, o

LEMMA DropOldestExtra == ASSUME Inv, Extra, DropOldest PROVE Extra'
<1>1. ~sess.open /\ past # <<>> /\ past' = Tail(past) /\ UNCHANGED <<mr, sess, future, edited>>
  BY DEF DropOldest, Idle
<1>2. Owed(Tail(past), sess.level)
  <2> DEFINE l == sess.level
  <2>1. Owed(past, l)
    BY DEF Extra
  <2> HIDE DEF l
  <2>2. Owed(Tail(past), l)
    BY <1>1, <2>1, InvParts, OwedTail
  <2> QED BY <2>2 DEF l
<1> QED BY <1>1, <1>2 DEF Extra, StepReal, EditReal

\* A call of the host outside a stroke leaves the session and its log.
LEMMA HostExtra ==
  ASSUME Extra,
         \/ SwitchLevel \/ WritebackLevel \/ MaterializeLevel \/ FetchDomain \/ DownRefit
         \/ SeedLevel \/ FromLevelPositions \/ CaptureToVdm \/ AddLevel \/ RemoveTopLevel
         \/ LayerSetEnabled \/ EditTarget \/ RestoreStore
  PROVE  Extra'
<1>1. ~sess.open
  BY DEF SwitchLevel, WritebackLevel, MaterializeLevel, FetchDomain, DownRefit, SeedLevel,
    FromLevelPositions, ImportTo, CaptureToVdm, AddLevel, RemoveTopLevel, LayerSetEnabled,
    EditTarget, RestoreStore, Idle
<1>2. UNCHANGED <<sess, past, future>>
  BY DEF SwitchLevel, WritebackLevel, MaterializeLevel, FetchDomain, DownRefit, SeedLevel,
    FromLevelPositions, ImportTo, CaptureToVdm, AddLevel, RemoveTopLevel, LayerSetEnabled,
    EditTarget, RestoreStore, Call
<1>3. \E t : Becomes(t)
  BY DEF SwitchLevel, WritebackLevel, MaterializeLevel, FetchDomain, DownRefit, SeedLevel,
    FromLevelPositions, ImportTo, CaptureToVdm, AddLevel, RemoveTopLevel, LayerSetEnabled,
    EditTarget, RestoreStore, Call
<1> QED BY <1>1, <1>2, <1>3, ExtraCall

LEMMA ExtraStep == ASSUME Unmirrored = {}, Inv, Extra, [Next]_vars PROVE Extra'
<1>1. CASE \/ SwitchLevel \/ WritebackLevel \/ MaterializeLevel \/ FetchDomain \/ DownRefit
           \/ SeedLevel \/ FromLevelPositions \/ CaptureToVdm \/ AddLevel \/ RemoveTopLevel
           \/ LayerSetEnabled \/ EditTarget \/ RestoreStore
  BY <1>1, HostExtra
<1>2. CASE MeshEdit
  BY <1>2, MeshEditExtra
<1>3. CASE SerializeStore \/ UNCHANGED vars
  <2>1. UNCHANGED <<mr, sess, past, future, edited>>
    BY <1>3 DEF SerializeStore, vars
  <2> QED BY <2>1 DEF Extra, EditReal, StepReal
<1>4. CASE OpenSession \/ SetMirror \/ BeginStroke \/ Dab \/ EndStroke
  BY <1>4, OpenSessionExtra, SetMirrorExtra, BeginStrokeExtra, DabExtra, EndStrokeExtra
<1>5. CASE UndoStroke \/ RedoStroke \/ DropOldest
  BY <1>5, UndoStrokeExtra, RedoStrokeExtra, DropOldestExtra
<1> QED BY <1>1, <1>2, <1>3, <1>4, <1>5 DEF Next

-----------------------------------------------------------------------------
(* Every step of the object is a step of the plain stack, or stutters: the *)
(* calls of the host.                                                      *)

LEMMA LogSame ==
  ASSUME UNCHANGED <<sess, past, future>>
  PROVE  Promise!KeepOrForget
BY DEF Promise!KeepOrForget, Steps, StepOf

LEMMA Stutters ==
  ASSUME UNCHANGED <<sess, past, future, saved>>, Document' = Document
  PROVE  UNCHANGED Promise!vars
BY DEF Promise!vars, Steps, StepOf

\* Between strokes, the document is that of the object once its slot is folded.
Folds(n, f) ==
  /\ Good(mr, n, Ahead) /\ f = Writeback(mr, mr.active) /\ Good(f, n, {})
  /\ View(f) = Document /\ f.active = mr.active
  /\ n \in Nat /\ Levels(mr) = 1 .. n /\ Depth(mr) = n /\ Document \in Docs(n)
  /\ Len(Document.detail) = n /\ (~edited => Good(mr, n, {}) /\ Document = View(mr))

LEMMA Standing ==
  ASSUME Unmirrored = {}, Inv, Extra, ~sess.open
  PROVE  \E n, f : Folds(n, f)
<1>1. PICK n : Good(mr, n, Ahead) /\ (~edited => Ahead = {})
  BY Quiet
<1> DEFINE f == Writeback(mr, mr.active)
<1>2. /\ Good(f, n, {}) /\ View(f) = Document /\ f.active = mr.active
      /\ (~edited => Document = View(mr))
  BY <1>1, Folding DEF Extra
<1>3. n \in Nat /\ Levels(mr) = 1 .. n /\ Depth(mr) = n
  BY <1>1, QuietDepth
<1>4. f = Writeback(mr, mr.active)
  OBVIOUS
<1> HIDE DEF f
<1>5. Document \in Docs(n)
  BY <1>2, GoodShape
<1>6. Len(Document.detail) = n
  BY <1>3, <1>5, DocFields
<1> QED BY <1>1, <1>2, <1>3, <1>4, <1>5, <1>6 DEF Folds

\* A step at one of the levels.
LEMMA LevelStep ==
  ASSUME NEW n \in Nat, Document \in Docs(n), Document' \in Docs(n), NEW l \in 1 .. n,
         \/ Promise!Reshape(l) \/ Promise!Stroke(l) \/ Promise!DownRefit(l)
         \/ Promise!Import(l) \/ Promise!Seed(l) \/ Promise!Capture(l)
         \/ \E b \in BOOLEAN : Promise!Switch(l, b)
  PROVE  Promise!Next
<1>1. Len(Document.detail) = n /\ Len(Document'.detail) = n
  BY DocFields
<1>2. l \in Promise!Levels
  BY <1>1 DEF Promise!Levels
<1>3. \E k \in Promise!Levels :
         \/ Promise!Reshape(k) \/ Promise!Stroke(k) \/ Promise!DownRefit(k)
         \/ Promise!Import(k) \/ Promise!Seed(k) \/ Promise!Capture(k)
         \/ \E b \in BOOLEAN : Promise!Switch(k, b)
  BY <1>2
<1>4. Len(Document'.detail) = Len(Document.detail)
  BY <1>1
<1> QED BY <1>3, <1>4 DEF Promise!Next

\* What a call that leaves the object as t does to the document.
LEMMA After ==
  ASSUME Unmirrored = {}, NEW n, NEW t, Good(t, n, {}), Becomes(t)
  PROVE  Document' = View(t) /\ Document' \in Docs(n)
BY DocumentAfter, GoodShape

LEMMA KeptDocument ==
  ASSUME Unmirrored = {}, Inv, Extra, NEW n, Good(mr, n, Ahead), NEW t,
         Leaves(mr, t, n, mr.active), Becomes(t), UNCHANGED <<sess, past, future, saved>>
  PROVE  UNCHANGED Promise!vars
BY DocumentKept, Stutters DEF Extra

LEMMA LeavesItself ==
  ASSUME NEW s, NEW n, NEW a
  PROVE  Leaves(s, s, n, a)
BY DEF Leaves, SameView

LEMMA MeshEditSim ==
  ASSUME Unmirrored = {}, Inv, Extra, MeshEdit
  PROVE  Promise!Next
<1> DEFINE l == mr.active
<1>1. /\ ~sess.open /\ ~edited /\ edited' /\ l >= 1 /\ Resident(mr, l)
      /\ UNCHANGED <<sess, past, future, saved>>
  BY DEF MeshEdit, Idle
<1>2. PICK p \in Pos \ {SlotMesh(mr, l)} : mr' = SetMesh(mr, l, p)
  BY DEF MeshEdit
<1>3. PICK n, f : Folds(n, f)
  BY <1>1, Standing
<1>4. Good(mr, n, {}) /\ Document = View(mr) /\ Document \in Docs(n) /\ n \in Nat
  BY <1>1, <1>3 DEF Folds
<1>5. Shaped(mr, n) /\ mr \in Stack(n) /\ Distinct(mr.slots) /\ l \in 1 .. n
      /\ mr.target \in Mixed(mr.on)
  <2>1. Shaped(mr, n)
    BY <1>4, GoodShape
  <2> QED BY <1>1, <2>1, ShapedFacts
<1> DEFINE t == SetMesh(mr, l, p)
<1>6. OnlySlots(mr, t) /\ SlotMesh(t, l) = p
  <2>1. /\ t \in Stack(n) /\ OnlySlots(mr, t) /\ Distinct(t.slots)
        /\ Len(t.slots) = Len(mr.slots)
        /\ \A k : Resident(t, k) <=> Resident(mr, k)
        /\ \A k : Resident(mr, k) => SlotMesh(t, k) = IF k = l THEN p ELSE SlotMesh(mr, k)
    <3> HIDE DEF l
    <3> QED BY <1>2, <1>4, <1>5, SetMeshSlots
  <2> QED BY <1>1, <2>1
<1>7. mr' = t
  BY <1>2
<1> HIDE DEF t
<1>8. View(t) = View(mr) /\ t.active = l /\ t.target = mr.target
  BY <1>6 DEF OnlySlots, View
<1> DEFINE d == Document
           e == Promise!Owing(Promise!Given(d, l, d.target, p), l)
<1>9. Document' = e
  <2>1. Document' = DocOf(t, TRUE)
    BY <1>1, <1>7, DocumentNext DEF DocOf
  <2>2. DocOf(t, TRUE) = Promise!Owing(Promise!Given(View(mr), l, mr.target, p), l)
    BY <1>6, <1>8 DEF DocOf
  <2>3. d.target = mr.target
    BY <1>4 DEF View
  <2> QED BY <1>4, <2>1, <2>2, <2>3
<1>10. d.target \in Mixed(d.on)
  BY <1>4, <1>5 DEF View
<1>11. d = Document /\ d \in Docs(n)
  BY <1>4
<1>12. l \in 1 .. n
  BY <1>5
<1>13. p \in Pos
  BY <1>2
<1> HIDE DEF d, l
<1>14. Promise!Shown(e, l) = p /\ e \in Docs(n)
  BY <1>4, <1>10, <1>11, <1>12, <1>13, GivenShows
<1>15. Promise!Reshape(l)
  <2>1. Document' = Promise!Owing(Promise!Given(Document, l, Document.target, Promise!Shown(Document', l)), l)
    BY <1>9, <1>11, <1>14
  <2>2. Promise!KeepOrForget
    BY <1>1, LogSame
  <2> QED BY <1>1, <2>1, <2>2 DEF Promise!Reshape
<1> QED BY <1>4, <1>9, <1>12, <1>14, <1>15, LevelStep

LEMMA SwitchLevelSim ==
  ASSUME Unmirrored = {}, Inv, Extra, SwitchLevel
  PROVE  [Promise!Next]_(Promise!vars)
<1>1. PICK l \in Levels(mr), b \in BOOLEAN, m \in BOOLEAN : Call(SetActive(mr, l, b, m))
  BY DEF SwitchLevel
<1>2. ~sess.open
  BY DEF SwitchLevel, Idle
<1>3. PICK n, f : Folds(n, f)
  BY <1>2, Standing
<1>4. /\ Good(mr, n, Ahead) /\ l \in 1 .. n /\ n \in Nat /\ Good(f, n, {}) /\ View(f) = Document
      /\ f.active = mr.active /\ f = Writeback(mr, mr.active) /\ Document \in Docs(n)
      /\ (~edited => Good(mr, n, {}) /\ Document = View(mr))
  BY <1>1, <1>3 DEF Folds
<1> DEFINE t == SetActive(mr, l, b, m)
<1>5. Becomes(t) /\ UNCHANGED <<sess, past, future, saved>>
  BY <1>1, CallIs
<1>6. CASE mr.active = l
  <2>1. t = Entered(mr, l, m)
    BY <1>6 DEF SetActive
  <2> HIDE DEF t
  <2>2. Leaves(mr, t, n, l)
    BY <1>4, <1>6, <2>1, EnteredView
  <2>3. UNCHANGED Promise!vars
    BY <1>4, <1>5, <1>6, <2>2, KeptDocument
  <2> QED BY <2>3
<1>7. CASE mr.active # l
  <2>1. PICK s : Good(s, n, {}) /\ View(s) = Document /\ SetActive(s, l, b, m) = t
    <3>1. CASE mr.active = 0
      <4>1. ~edited
        BY <3>1, InvParts DEF EditInv
      <4> QED BY <1>4, <4>1
    <3>2. CASE mr.active # 0
      <4>1. Writeback(f, f.active) = f
        <5> DEFINE D == {}
                   a == f.active
        <5>1. Good(f, n, D) /\ a \notin D
          BY <1>4
        <5> HIDE DEF D, a
        <5>2. Writeback(f, a) = f
          BY <5>1, WritebackClean
        <5> QED BY <5>2 DEF a
      <4>2. SetActive(f, l, b, m) = t
        BY <1>4, <1>7, <3>2, <4>1 DEF SetActive
      <4> QED BY <1>4, <4>2
    <3> QED BY <3>1, <3>2
  <2> HIDE DEF t
  <2>2. View(t) = Arrives(View(s), l, b) /\ Good(t, n, {})
    <3> DEFINE u == SetActive(s, l, b, m)
    <3>1. View(u) = Arrives(View(s), l, b) /\ Good(u, n, {})
      BY <1>4, <2>1, SetActiveView
    <3> QED BY <2>1, <3>1
  <2>3. Document' = Arrives(Document, l, b) /\ Document' \in Docs(n)
    BY <1>5, <2>1, <2>2, After
  <2>4. Promise!Switch(l, b)
    <3>1. Promise!KeepOrForget
      BY <1>5, LogSame
    <3> QED BY <1>5, <2>3, <3>1 DEF Promise!Switch, Arrives
  <2>5. Promise!Next
    BY <1>4, <2>3, <2>4, LevelStep
  <2> QED BY <2>5
<1> QED BY <1>6, <1>7

LEMMA MaterializeLevelSim ==
  ASSUME Unmirrored = {}, Inv, Extra, MaterializeLevel
  PROVE  UNCHANGED Promise!vars
<1>1. PICK l \in Levels(mr) : Call(Materialize(mr, l))
  BY DEF MaterializeLevel
<1>2. PICK n, f : Folds(n, f)
  BY Standing DEF MaterializeLevel, Idle
<1> DEFINE t == Materialize(mr, l)
<1>3. Good(mr, n, Ahead) /\ l \in 1 .. n
  BY <1>2 DEF Folds
<1>4. Leaves(mr, t, n, mr.active)
  BY <1>3, MaterializeLeaves
<1>5. Becomes(t) /\ UNCHANGED <<sess, past, future, saved>>
  BY <1>1, CallIs
<1> HIDE DEF t
<1> QED BY <1>3, <1>4, <1>5, KeptDocument

LEMMA FetchDomainSim ==
  ASSUME Unmirrored = {}, Inv, Extra, FetchDomain
  PROVE  UNCHANGED Promise!vars
<1>1. PICK l \in Levels(mr) : Call(GridDomain(mr, l))
  BY DEF FetchDomain
<1>2. PICK n, f : Folds(n, f)
  BY Standing DEF FetchDomain, Idle
<1> DEFINE t == GridDomain(mr, l)
<1>3. Good(mr, n, Ahead) /\ l \in 1 .. n
  BY <1>2 DEF Folds
<1>4. Leaves(mr, t, n, mr.active)
  BY <1>3, DomainLeaves
<1>5. Becomes(t) /\ UNCHANGED <<sess, past, future, saved>>
  BY <1>1, CallIs
<1> HIDE DEF t
<1> QED BY <1>3, <1>4, <1>5, KeptDocument

LEMMA WritebackLevelSim ==
  ASSUME Unmirrored = {}, Inv, Extra, WritebackLevel
  PROVE  UNCHANGED Promise!vars
<1>1. PICK l \in Levels(mr) : Call(Writeback(mr, l))
  BY DEF WritebackLevel
<1>2. PICK n, f : Folds(n, f)
  BY Standing DEF WritebackLevel, Idle
<1>3. /\ Good(mr, n, Ahead) /\ l \in 1 .. n /\ f = Writeback(mr, mr.active) /\ Good(f, n, {})
      /\ View(f) = Document
  BY <1>2 DEF Folds
<1> DEFINE t == Writeback(mr, l)
<1>4. Becomes(t) /\ UNCHANGED <<sess, past, future, saved>>
  BY <1>1, CallIs
<1>5. CASE l = mr.active
  <2>1. t = f
    BY <1>3, <1>5
  <2> HIDE DEF t
  <2>2. Document' = Document
    BY <1>3, <1>4, <2>1, After
  <2> QED BY <1>4, <2>2, Stutters
<1>6. CASE l # mr.active
  <2> DEFINE D == Ahead
  <2>1. l \notin D /\ Good(mr, n, D)
    BY <1>3, <1>6 DEF Ahead
  <2> HIDE DEF D
  <2>2. t = mr
    BY <2>1, WritebackClean
  <2> HIDE DEF t
  <2>3. Leaves(mr, t, n, mr.active)
    BY <2>2, LeavesItself
  <2> QED BY <1>3, <1>4, <2>3, KeptDocument
<1> QED BY <1>5, <1>6

LEMMA DownRefitSim ==
  ASSUME Unmirrored = {}, Inv, Extra, DownRefit
  PROVE  Promise!Next
<1> DEFINE l == mr.active
           t == Refitted(mr, l)
<1>1. ~sess.open /\ l >= 2 /\ Call(t)
  BY DEF DownRefit, Idle
<1>2. PICK n, f : Folds(n, f)
  BY <1>1, Standing
<1> DEFINE D == {}
<1>3. /\ Good(mr, n, Ahead) /\ n \in Nat /\ f = Writeback(mr, l) /\ Good(f, n, D)
      /\ View(f) = Document /\ Document \in Docs(n) /\ f.active = l /\ l \notin D /\ D = {}
  BY <1>2 DEF Folds
<1>4. l \in 2 .. n
  BY <1>1, <1>3, QuietDepth
<1>5. Becomes(t) /\ UNCHANGED <<sess, past, future, saved>>
  BY <1>1, CallIs
<1> HIDE DEF D, l
<1>6. t = Refitted(f, l)
  <2>1. Writeback(f, l) = f
    BY <1>3, WritebackClean
  <2> QED BY <1>3, <2>1 DEF Refitted, Current
<1> HIDE DEF t
<1>7. View(t) = Promise!LeftAlone(Document, l, LeastSquares[Promise!Shown(Document, l)])
  BY <1>3, <1>4, <1>6, RefittedView
<1>8. Good(t, n, {})
  <2> DEFINE E == D \ {l}
             u == Refitted(f, l)
  <2>1. Good(u, n, E)
    BY <1>3, <1>4, RefittedGood
  <2>2. E = {}
    BY <1>3
  <2> QED BY <1>6, <2>1, <2>2
<1>9. Document' = View(t) /\ Document' \in Docs(n)
  BY <1>5, <1>8, After
<1>10. Promise!DownRefit(l)
  <2>1. Promise!KeepOrForget
    BY <1>5, LogSame
  <2>2. l >= 2
    BY <1>4
  <2> QED BY <1>5, <1>7, <1>9, <2>1, <2>2 DEF Promise!DownRefit
<1>11. l \in 1 .. n
  BY <1>3, <1>4
<1> QED BY <1>3, <1>9, <1>10, <1>11, LevelStep

LEMMA SeedLevelSim ==
  ASSUME Unmirrored = {}, Inv, Extra, SeedLevel
  PROVE  Promise!Next
<1>1. PICK l \in Levels(mr), p \in Pos : Becomes(Seeded(EnsureBase(EnsureChain(mr, l), l), l, p))
  BY DEF SeedLevel
<1>2. ~sess.open /\ ~edited /\ UNCHANGED <<sess, past, future, saved>>
  BY DEF SeedLevel, Idle
<1>3. PICK n, f : Folds(n, f)
  BY <1>2, Standing
<1> DEFINE D == {}
           x == EnsureChain(mr, l)
           y == EnsureBase(x, l)
           t == Seeded(y, l, p)
<1>4. /\ Good(mr, n, D) /\ l \in 1 .. n /\ n \in Nat /\ Document = View(mr)
      /\ Document \in Docs(n) /\ D = {}
  BY <1>2, <1>3 DEF Folds
<1> HIDE DEF D
<1>5. Good(x, n, D) /\ OnlyCache(mr, x) /\ x.cache[l].valid
  <2>1. Good(x, n, D) /\ Frame(mr, x) /\ Chained(mr, x, n, l)
    BY <1>4, ChainGood
  <2> QED BY <1>4, <2>1 DEF Chained
<1> HIDE DEF x
<1>6. Good(y, n, D) /\ OnlyCache(x, y) /\ y.cache[l].valid /\ y.cache[l].base # NoBase
  BY <1>4, <1>5, BaseGood
<1> HIDE DEF y
<1>7. Good(t, n, {}) /\ Becomes(t)
  <2>1. Good(t, n, D)
    BY <1>4, <1>6, SeededGood
  <2>2. Becomes(t)
    BY <1>1 DEF x, y
  <2> QED BY <1>4, <2>1, <2>2
<1>8. View(y) = Document
  BY <1>4, <1>5, <1>6, OnlyCacheView
<1>9. View(t) = Promise!Owing(Promise!Given(Document, l, Base, p), l)
  BY <1>4, <1>6, <1>8, SeededView
<1> HIDE DEF t
<1>10. Document' = View(t) /\ Document' \in Docs(n)
  BY <1>7, After
<1>11. Promise!Shown(Document', l) = p
  <2> DEFINE b == Base
  <2>1. b \in Mixed(Document.on)
    BY MixedBase, <1>4 DEF View
  <2> HIDE DEF b
  <2>2. Promise!Shown(Promise!Owing(Promise!Given(Document, l, b, p), l), l) = p
    BY <1>1, <1>4, <2>1, GivenShows
  <2> QED BY <1>9, <1>10, <2>2 DEF b
<1>12. Promise!Seed(l)
  <2>1. Promise!KeepOrForget
    BY <1>2, LogSame
  <2>2. Promise!Base = Base
    BY DEF Promise!Base, Base
  <2> QED BY <1>2, <1>9, <1>10, <1>11, <2>1, <2>2 DEF Promise!Seed
<1> QED BY <1>4, <1>10, <1>12, LevelStep

LEMMA FromLevelPositionsSim ==
  ASSUME Unmirrored = {}, Inv, Extra, FromLevelPositions
  PROVE  Promise!Next
<1>1. PICK l \in Levels(mr), p \in Pos : ImportTo(l, p)
  BY DEF FromLevelPositions
<1> DEFINE yes == TRUE
           s == SetActive(mr, l, yes, yes)
           t == Imported(s, l, p)
<1>2. ~sess.open /\ ~edited /\ Becomes(t) /\ UNCHANGED <<sess, past, future, saved>>
  BY <1>1 DEF ImportTo, Idle
<1>3. PICK n, f : Folds(n, f)
  BY <1>2, Standing
<1>4. /\ Good(mr, n, {}) /\ l \in 1 .. n /\ n \in Nat /\ Document = View(mr)
      /\ Document \in Docs(n) /\ p \in Pos
  BY <1>1, <1>2, <1>3 DEF Folds
<1>5. Good(t, n, {})
  BY <1>4, ImportGood
<1>6. View(s) = Arrives(Document, l, yes) /\ Good(s, n, {}) /\ s.active = l /\ Resident(s, l)
  <2> DEFINE P(x, b) == View(x) = Arrives(View(mr), l, b) /\ Good(x, n, {}) /\ x.active = l
  <2>2. ASSUME NEW b \in BOOLEAN, NEW m \in BOOLEAN
        PROVE  P(SetActive(mr, l, b, m), b) /\ (m => Resident(SetActive(mr, l, b, m), l))
    BY <1>4, <2>2, SetActiveView
  <2> HIDE DEF P
  <2>3. P(SetActive(mr, l, TRUE, TRUE), TRUE) /\ Resident(SetActive(mr, l, TRUE, TRUE), l)
    BY <2>2
  <2> QED BY <1>4, <2>3 DEF P
<1> HIDE DEF s
<1>7. View(t) = Promise!Summarized(View(s), l, p) /\ Surf(t, l) = p
  <2>1. Good(s, n, {}) /\ s.active = l /\ Resident(s, l)
    BY <1>6
  <2> QED BY <1>4, <2>1, ImportedView
<1> HIDE DEF t
<1>8. Document' = View(t) /\ Document' \in Docs(n)
  BY <1>2, <1>5, After
<1>9. Promise!Shown(Document', l) = p
  BY <1>7, <1>8, ViewShown
<1>10. Arrives(Document, l, yes) = Promise!Arrived(Document, l)
  BY DEF Arrives, Promise!Arrived
<1>11. Promise!Import(l)
  <2>1. Promise!KeepOrForget
    BY <1>2, LogSame
  <2> QED BY <1>2, <1>6, <1>7, <1>8, <1>9, <1>10, <2>1 DEF Promise!Import
<1> QED BY <1>4, <1>8, <1>11, LevelStep

LEMMA CaptureToVdmSim ==
  ASSUME Unmirrored = {}, Inv, Extra, CaptureToVdm
  PROVE  Promise!Next
<1>1. PICK l \in Levels(mr) : Call(CapturedOnto(IF l = 1 THEN mr ELSE EnsureChain(mr, l - 1), l))
  BY DEF CaptureToVdm
<1>2. ~sess.open /\ ~edited /\ Mixed(mr.on) = {Base}
  BY DEF CaptureToVdm, Idle
<1>3. PICK n, f : Folds(n, f)
  BY <1>2, Standing
<1>4. /\ Good(mr, n, {}) /\ l \in 1 .. n /\ n \in Nat /\ Document = View(mr)
      /\ Document \in Docs(n)
  BY <1>2, <1>3 DEF Folds
<1> DEFINE s == IF l = 1 THEN mr ELSE EnsureChain(mr, l - 1)
           t == CapturedOnto(s, l)
<1>5. Good(t, n, {})
  BY <1>2, <1>4, CaptureGood
<1>6. Becomes(t) /\ UNCHANGED <<sess, past, future, saved>>
  BY <1>1, CallIs
<1>7. Good(s, n, {}) /\ (l > 1 => s.cache[l - 1].valid) /\ View(s) = View(mr)
  <2>1. CASE l = 1
    <3>1. s = mr
      BY <2>1
    <3> QED BY <1>4, <2>1, <3>1
  <2>2. CASE l # 1
    <3> DEFINE k == l - 1
               x == EnsureChain(mr, k)
    <3>1. k \in 1 .. n
      BY <1>4, <2>2
    <3>2. s = x
      BY <2>2
    <3> HIDE DEF k
    <3>3. Good(x, n, {}) /\ Chained(mr, x, n, k)
      BY <1>4, <3>1, ChainGood
    <3> HIDE DEF x
    <3>4. x.cache[k].valid /\ OnlyCache(mr, x)
      BY <1>4, <3>1, <3>3 DEF Chained
    <3>5. View(x) = View(mr)
      BY <3>4, OnlyCacheView
    <3> HIDE DEF s
    <3> QED BY <3>2, <3>3, <3>4, <3>5 DEF k
  <2> QED BY <2>1, <2>2
<1> HIDE DEF s
<1>8. View(t) = Bared(Document, l)
  <2>1. View(t) = Bared(View(s), l)
    BY <1>4, <1>7, CapturedView
  <2> QED BY <1>4, <1>7, <2>1
<1> HIDE DEF t
<1>9. Document' = Bared(Document, l) /\ Document' \in Docs(n)
  BY <1>5, <1>6, <1>8, After
<1>10. Promise!Capture(l)
  <2>1. Promise!KeepOrForget
    BY <1>6, LogSame
  <2>2. Promise!Base = Base /\ Promise!Flat = Flat
    BY DEF Promise!Base, Base, Promise!Flat, Flat
  <2> QED BY <1>6, <1>9, <2>1, <2>2 DEF Promise!Capture, Bared
<1> QED BY <1>4, <1>9, <1>10, LevelStep

\* Domains are dropped, and the document is the same.
LEMMA DroppingView ==
  ASSUME NEW n, NEW s, Shaped(s, n), NEW a \in Int
  PROVE  View(DropDomains(s, a)) = View(s)
<1> DEFINE t == DropDomains(s, a)
<1>1. Frame(s, t) /\ t.disp = s.disp /\ t.debt = s.debt
  BY Dropping
<1> HIDE DEF t
<1>2. View(t) = View(s)
  BY <1>1 DEF Frame, View
<1> QED BY <1>2 DEF t

\* Parts of a document are replaced.
Parts(q, o, c, b, e) == [detail |-> q, on |-> o, target |-> c, owes |-> b, level |-> e]
Grown(d, q, e) == [d EXCEPT !.detail = q, !.level = e]
Shrunk(d, q, b, e) == [d EXCEPT !.detail = q, !.owes = b, !.level = e]

LEMMA WithParts ==
  ASSUME NEW n, NEW d \in Docs(n), NEW q, NEW b, NEW e
  PROVE  /\ Shrunk(d, q, b, e) = Parts(q, d.on, d.target, b, e)
         /\ Grown(d, q, e) = Parts(q, d.on, d.target, d.owes, e)
<1> DEFINE x == d.detail
           o == d.on
           c == d.target
           w == d.owes
           a == d.level
           y == [detail |-> x, on |-> o, target |-> c, owes |-> w, level |-> a]
           z == [detail |-> q, on |-> o, target |-> c, owes |-> w, level |-> a]
           u == [detail |-> q, on |-> o, target |-> c, owes |-> b, level |-> a]
<1>1. d = y
  BY DEF Docs
<1> HIDE DEF x, o, c, w, a
<1>2. [y EXCEPT !.detail = q] = z /\ [z EXCEPT !.owes = b] = u
  OBVIOUS
<1>3. [u EXCEPT !.level = e] = Parts(q, o, c, b, e) /\ [z EXCEPT !.level = e] = Parts(q, o, c, w, e)
  BY DEF Parts
<1>4. /\ Shrunk(d, q, b, e) = [[[d EXCEPT !.detail = q] EXCEPT !.owes = b] EXCEPT !.level = e]
      /\ Grown(d, q, e) = [[d EXCEPT !.detail = q] EXCEPT !.level = e]
  BY DEF Shrunk, Grown
<1> HIDE DEF y, z, u
<1> QED BY <1>1, <1>2, <1>3, <1>4 DEF o, c, w

LEMMA AddLevelSim ==
  ASSUME Unmirrored = {}, Inv, Extra, AddLevel
  PROVE  Promise!Next
<1>1. PICK n, f : Folds(n, f)
  BY Standing DEF AddLevel, Idle
<1> DEFINE m == n + 1
           x == DropDomains(f, 0)
           t == Resized(x, m, m)
<1>2. /\ Good(mr, n, Ahead) /\ n \in Nat /\ Depth(mr) = n /\ f = Writeback(mr, mr.active)
      /\ Good(f, n, {}) /\ View(f) = Document /\ Document \in Docs(n)
      /\ Len(Document.detail) = n
  BY <1>1 DEF Folds
<1>3. ~sess.open /\ n < MaxLevels /\ Call(t)
  BY <1>2 DEF AddLevel, Idle
<1>4. OnlyActive(mr, Ahead)
  BY <1>3, Quiet
<1>5. Good(t, m, {}) /\ m \in 1 .. MaxLevels
  BY <1>2, <1>3, <1>4, AddGood
<1>6. Becomes(t) /\ UNCHANGED <<sess, past, future, saved>>
  BY <1>3, CallIs
<1>7. Good(x, n, {}) /\ (\A k \in 1 .. n : x.domains[k] = "none") /\ View(x) = Document
  <2>1. Good(x, n, {}) /\ \A k \in 1 .. n : x.domains[k] = "none"
    BY <1>2, <1>4, FoldedBare
  <2>2. Shaped(f, n) /\ 0 \in Int
    BY <1>2, GoodShape
  <2>3. View(x) = View(f)
    BY <2>2, DroppingView
  <2> QED BY <1>2, <2>1, <2>3
<1> HIDE DEF x
<1>8. View(t) = Cut(Document, m, m)
  <2>1. \A k : Resident(x, k) => k \in 1 .. m
    <3>1. \A k : Resident(x, k) => k \in 1 .. n
      BY <1>7, GoodShape, ShapedFacts
    <3> QED BY <1>2, <3>1
  <2>2. m \in 1 .. m
    BY <1>2
  <2> HIDE DEF m
  <2>3. View(Resized(x, m, m)) = Cut(View(x), m, m)
    BY <1>5, <1>7, <2>1, <2>2, ResizedView
  <2> QED BY <1>7, <2>3
<1> HIDE DEF t
<1>9. Document' = Cut(Document, m, m)
  <2> HIDE DEF m
  <2> QED BY <1>5, <1>6, <1>8, After
<1>10. Promise!AddLevel
  <2>1. Promise!KeepOrForget
    BY <1>6, LogSame
  <2> DEFINE d == Document
             q == Append(d.detail, Promise!Plain)
             k == Len(d.detail) + 1
  <2>2. Cut(d, m, m).detail = q /\ Cut(d, m, m).owes = d.owes
    BY <1>2, CutMore
  <2>3. Document' = [detail |-> q, on |-> d.on, target |-> d.target, owes |-> d.owes, level |-> k]
    <3>1. k = m
      BY <1>2
    <3>2. Document' = Cut(d, m, m)
      BY <1>9
    <3>3. d.owes \cap 1 .. m = d.owes
      BY <2>2 DEF Cut
    <3>4. Resize(d.detail, m, Plain) = q
      BY <2>2 DEF Cut
    <3> HIDE DEF d, m, k, q
    <3> QED BY <3>1, <3>2, <3>3, <3>4 DEF Cut
  <2>4. d \in Docs(n)
    BY <1>2
  <2>5. [d EXCEPT !.detail = q, !.level = k]
          = [detail |-> q, on |-> d.on, target |-> d.target, owes |-> d.owes, level |-> k]
    <3> HIDE DEF d, q, k
    <3>1. Grown(d, q, k) = Parts(q, d.on, d.target, d.owes, k)
      BY <2>4, WithParts
    <3> QED BY <3>1 DEF Grown, Parts
  <2>6. Document' = [Document EXCEPT !.detail = Append(@, Promise!Plain), !.level = Len(Document.detail) + 1]
    BY <2>3, <2>5
  <2>7. Len(Document.detail) < MaxLevels
    BY <1>2, <1>3
  <2> QED BY <1>6, <2>1, <2>6, <2>7 DEF Promise!AddLevel
<1> QED BY <1>10 DEF Promise!Next

LEMMA MinIs ==
  ASSUME NEW a \in Nat, NEW n \in Nat \ {0}, a <= n
  PROVE  Min({a, n - 1}) = IF a = n THEN n - 1 ELSE a
<1> DEFINE m == n - 1
           to == Min({a, m})
<1>1. m \in Nat /\ (to = a \/ to = m)
  BY MinOfTwo
<1>2. to <= a /\ to <= m
  <2>1. \A x \in {a, m} : to <= x
    <3>1. to = CHOOSE x \in {a, m} : \A y \in {a, m} : x <= y
      BY DEF Min
    <3>2. \E x \in {a, m} : \A y \in {a, m} : x <= y
      BY <1>1
    <3> QED BY <3>1, <3>2
  <2> QED BY <2>1
<1> HIDE DEF to
<1>3. to = IF a = n THEN m ELSE a
  BY <1>1, <1>2
<1> QED BY <1>3 DEF to

LEMMA RemoveTopLevelSim ==
  ASSUME Unmirrored = {}, Inv, Extra, RemoveTopLevel
  PROVE  Promise!Next
<1>1. PICK n, f : Folds(n, f)
  BY Standing DEF RemoveTopLevel, Idle
<1> DEFINE a == mr.active
           m == n - 1
           to == Min({a, m})
           x == DropDomains(f, 0)
           y == Evicted(x, {n})
           t == Resized(y, m, to)
<1>2. /\ Good(mr, n, Ahead) /\ n \in Nat /\ Depth(mr) = n /\ f = Writeback(mr, a)
      /\ Good(f, n, {}) /\ View(f) = Document /\ Document \in Docs(n)
      /\ Len(Document.detail) = n /\ a \in 0 .. n /\ f.active = a
  BY <1>1, QuietDepth DEF Folds
<1>3. ~sess.open /\ n > 1 /\ a >= 1 /\ Call(t)
  BY <1>2 DEF RemoveTopLevel, Idle
<1>4. OnlyActive(mr, Ahead)
  BY <1>3, Quiet
<1>5. to = (IF a = n THEN m ELSE a) /\ to \in 1 .. m
  <2>1. a \in Nat /\ n \in Nat \ {0} /\ a <= n
    BY <1>2, <1>3
  <2>2. to = IF a = n THEN m ELSE a
    BY <2>1, MinIs
  <2> QED BY <1>2, <1>3, <2>2
<1> HIDE DEF to, a
<1>6. Good(t, m, {}) /\ m \in 1 .. MaxLevels
  BY <1>2, <1>3, <1>4, <1>5, RemoveGood DEF a
<1>7. Becomes(t) /\ UNCHANGED <<sess, past, future, saved>>
  BY <1>3, CallIs
<1>8. Good(x, n, {}) /\ (\A k \in 1 .. n : x.domains[k] = "none") /\ View(x) = Document
  <2>1. Good(x, n, {}) /\ \A k \in 1 .. n : x.domains[k] = "none"
    BY <1>2, <1>4, FoldedBare DEF a
  <2>2. Shaped(f, n) /\ 0 \in Int
    BY <1>2, GoodShape
  <2>3. View(x) = View(f)
    BY <2>2, DroppingView
  <2> QED BY <1>2, <2>1, <2>3
<1> HIDE DEF x
<1>9. /\ Good(y, n, {}) /\ (\A k \in 1 .. n : y.domains[k] = "none") /\ View(y) = Document
      /\ \A k : Resident(y, k) => k \in 1 .. m
  <2>1. Shaped(x, n) /\ x \in Stack(n) /\ Distinct(x.slots) /\ (\A k : Resident(x, k) => k \in 1 .. n)
    BY <1>8, GoodShape, ShapedFacts
  <2>2. OnlySlots(x, y) /\ \A k : Resident(y, k) <=> Resident(x, k) /\ k # n
    <3> DEFINE gone == {n}
    <3>1. OnlySlots(x, Evicted(x, gone)) /\ \A k : Resident(Evicted(x, gone), k) <=> Resident(x, k) /\ k \notin gone
      <4> HIDE DEF gone
      <4> QED BY <1>2, <2>1, EvictedSlots
    <3> QED BY <3>1
  <2>3. Good(y, n, {})
    <3> DEFINE D == {}
               G == D \union {n}
    <3>1. Good(x, n, D) /\ \A k \in 1 .. n : k \in D => k \in G
      BY <1>8
    <3>2. Good(x, n, G)
      <4> HIDE DEF D, G
      <4>1. UpTo(x, n, n, G)
        BY <3>1, MoreHidden DEF Good
      <4> QED BY <4>1 DEF Good
    <3>3. Good(y, n, D)
      <4> HIDE DEF D, y
      <4>1. Good(Evicted(x, {n}), n, D)
        BY <3>2, EvictingOne
      <4> QED BY <4>1 DEF y
    <3> QED BY <3>3
  <2>4. View(y) = View(x)
    BY <1>2, <2>1, EvictingView, ViewSame
  <2>5. y.domains = x.domains
    BY <2>2 DEF OnlySlots
  <2>6. \A k : Resident(y, k) => k \in 1 .. m
    BY <1>2, <2>1, <2>2
  <2> QED BY <1>8, <2>3, <2>4, <2>5, <2>6
<1> HIDE DEF y
<1>10. View(t) = Cut(Document, m, to)
  <2> HIDE DEF m
  <2>1. View(Resized(y, m, to)) = Cut(View(y), m, to)
    BY <1>5, <1>6, <1>9, ResizedView
  <2> QED BY <1>9, <2>1
<1> HIDE DEF t
<1>11. Document' = Cut(Document, m, to)
  <2> HIDE DEF m
  <2> QED BY <1>6, <1>7, <1>10, After
<1>12. Promise!RemoveLevel
  <2>1. Promise!KeepOrForget
    BY <1>7, LogSame
  <2> DEFINE d == Document
             k == Len(d.detail)
             q == SubSeq(d.detail, 1, k - 1)
             b == d.owes \ {k}
             e == IF d.level = k THEN k - 1 ELSE d.level
  <2>2. Cut(d, m, to).detail = q /\ Cut(d, m, to).owes = b
    <3>1. n \in Nat \ {0} /\ k = n /\ d \in Docs(n)
      BY <1>2, <1>3
    <3>2. Cut(d, n - 1, to).detail = SubSeq(d.detail, 1, n - 1) /\ Cut(d, n - 1, to).owes = d.owes \ {n}
      <4> HIDE DEF d
      <4> QED BY <3>1, CutLess
    <3> HIDE DEF d, k
    <3> QED BY <3>1, <3>2
  <2>3. e = to
    <3>1. d.level = a
      BY <1>2, ViewFields DEF View
    <3>2. k = n
      BY <1>2
    <3> HIDE DEF d, k
    <3> QED BY <1>5, <3>1, <3>2
  <2>4. d \in Docs(n)
    BY <1>2
  <2>5. Document' = [detail |-> q, on |-> d.on, target |-> d.target, owes |-> b, level |-> e]
    <3>1. Document' = Cut(d, m, to)
      BY <1>11
    <3>2. d.owes \cap 1 .. m = b
      BY <2>2 DEF Cut
    <3>3. Resize(d.detail, m, Plain) = q
      BY <2>2 DEF Cut
    <3> HIDE DEF d, m, e, q, b
    <3> QED BY <2>3, <3>1, <3>2, <3>3 DEF Cut
  <2>6. [d EXCEPT !.detail = q, !.owes = b, !.level = e]
          = [detail |-> q, on |-> d.on, target |-> d.target, owes |-> b, level |-> e]
    <3> HIDE DEF d, q, b, e
    <3>1. Shrunk(d, q, b, e) = Parts(q, d.on, d.target, b, e)
      BY <2>4, WithParts
    <3> QED BY <3>1 DEF Shrunk, Parts
  <2>7. Document' = [Document EXCEPT !.detail = SubSeq(@, 1, Len(Document.detail) - 1),
                        !.owes = @ \ {Len(Document.detail)},
                        !.level = IF @ = Len(Document.detail) THEN Len(Document.detail) - 1 ELSE @]
    BY <2>5, <2>6
  <2>8. Len(Document.detail) > 1
    BY <1>2, <1>3
  <2> QED BY <1>7, <2>1, <2>7, <2>8 DEF Promise!RemoveLevel
<1> QED BY <1>12 DEF Promise!Next

\* A layer is composited or not; the base channel replaces it as target.
Mixing(d, c) == [d EXCEPT !.on[c] = ~@, !.target = IF @ = c THEN Base ELSE @]

LEMMA MixingIs ==
  ASSUME NEW n, NEW d \in Docs(n), NEW c \in Layers
  PROVE  /\ d.target = c => Flipped(Aimed(d, Base), c) = Mixing(d, c)
         /\ d.target # c => Flipped(d, c) = Mixing(d, c)
<1> DEFINE x == d.detail
           o == d.on
           t == d.target
           w == d.owes
           a == d.level
           b == Base
           k == [o EXCEPT ![c] = ~o[c]]
           m == [j \in Layers |-> o[j] \/ j = b]
<1>1. d = Parts(x, o, t, w, a)
  BY DEF Docs, Parts
<1>2. o \in [Layers -> BOOLEAN] /\ b \notin Layers
  BY ConstantFacts, SurfaceAssumption DEF Docs
<1>3. m = o
  <2> HIDE DEF o, b
  <2> QED BY <1>2
<1> HIDE DEF o
<1>4. Flipped(Parts(x, o, t, w, a), c) = Parts(x, k, t, w, a)
  <2> HIDE DEF x, t, w, a
  <2> QED BY DEF Flipped, Parts
<1>5. Flipped(Parts(x, o, b, w, a), c) = Parts(x, k, b, w, a)
  <2> HIDE DEF x, t, w, a, b
  <2> QED BY DEF Flipped, Parts
<1>6. Aimed(Parts(x, o, t, w, a), b) = Parts(x, m, b, w, a)
  <2> DEFINE p == Parts(x, o, t, w, a)
             y == [detail |-> x, on |-> o, target |-> t, owes |-> w, level |-> a]
             z == [detail |-> x, on |-> o, target |-> b, owes |-> w, level |-> a]
  <2>1. p = y /\ p.on = o
    BY DEF Parts
  <2>2. Aimed(p, b) = [[p EXCEPT !.target = b] EXCEPT !.on = m]
    <3> HIDE DEF p
    <3>1. [j \in Layers |-> p.on[j] \/ j = b] = m
      BY <2>1
    <3> HIDE DEF m
    <3> QED BY <3>1 DEF Aimed
  <2> HIDE DEF p, m, x, o, t, w, a, b
  <2>3. [y EXCEPT !.target = b] = z
    OBVIOUS
  <2>4. [z EXCEPT !.on = m] = Parts(x, m, b, w, a)
    BY DEF Parts
  <2> HIDE DEF y, z
  <2> QED BY <2>1, <2>2, <2>3, <2>4 DEF p
<1>7. ASSUME NEW v, v = IF t = c THEN b ELSE t
      PROVE  Mixing(Parts(x, o, t, w, a), c) = Parts(x, k, v, w, a)
  <2> DEFINE p == Parts(x, o, t, w, a)
             y == [detail |-> x, on |-> o, target |-> t, owes |-> w, level |-> a]
             z == [detail |-> x, on |-> k, target |-> t, owes |-> w, level |-> a]
  <2>1. p = y /\ p.on = o /\ p.target = t
    BY DEF Parts
  <2>2. Mixing(p, c) = [[p EXCEPT !.on = k] EXCEPT !.target = v]
    <3> HIDE DEF p, x, o, t, w, a
    <3>1. [p.on EXCEPT ![c] = ~p.on[c]] = k
      BY <2>1
    <3> HIDE DEF k
    <3> QED BY <1>7, <2>1, <3>1 DEF Mixing
  <2> HIDE DEF p, k, x, o, t, w, a
  <2>3. [y EXCEPT !.on = k] = z
    OBVIOUS
  <2>4. [z EXCEPT !.target = v] = Parts(x, k, v, w, a)
    BY DEF Parts
  <2> HIDE DEF y, z
  <2> QED BY <2>1, <2>2, <2>3, <2>4 DEF p
<1>8. /\ t = c => Mixing(Parts(x, o, t, w, a), c) = Parts(x, k, b, w, a)
      /\ t # c => Mixing(Parts(x, o, t, w, a), c) = Parts(x, k, t, w, a)
  <2> HIDE DEF x, o, t, w, a, k
  <2> QED BY <1>7
<1>9. t = d.target /\ b = Base
  OBVIOUS
<1> HIDE DEF x, t, w, a, b, k, m
<1> QED BY <1>1, <1>3, <1>4, <1>5, <1>6, <1>8, <1>9

LEMMA LayerSetEnabledSim ==
  ASSUME Unmirrored = {}, Inv, Extra, LayerSetEnabled
  PROVE  Promise!Next
<1> DEFINE s(c) == IF mr.on[c] /\ c = mr.target THEN SetEditTarget(mr, Base)
                   ELSE Writeback(mr, mr.active)
<1>1. PICK c \in Layers : Call(Toggled(s(c), c))
  BY DEF LayerSetEnabled
<1>2. ~sess.open
  BY DEF LayerSetEnabled, Idle
<1>3. PICK n, f : Folds(n, f)
  BY <1>2, Standing
<1> DEFINE x == s(c)
           t == Toggled(x, c)
<1>4. /\ Good(mr, n, Ahead) /\ n \in Nat /\ f = Writeback(mr, mr.active) /\ Good(f, n, {})
      /\ View(f) = Document /\ Document \in Docs(n)
  BY <1>3 DEF Folds
<1>5. f.on = mr.on /\ f.target = mr.target /\ f.target \in Mixed(f.on)
      /\ Document.on = f.on /\ Document.target = f.target
  <2>1. Frame(mr, f)
    BY <1>4, WritebackActive
  <2>2. Shaped(f, n)
    BY <1>4, GoodShape
  <2> QED BY <1>4, <2>1, <2>2, GoodShape, ShapedFacts DEF Frame
<1>6. Becomes(t) /\ UNCHANGED <<sess, past, future, saved>>
  BY <1>1, CallIs
<1>7. /\ \E D : Good(x, n, D) /\ (x.on[c] => c # x.target)
      /\ Flipped(View(x), c) = Mixing(Document, c)
  <2>1. CASE c = mr.target
    <3> DEFINE b == Base
    <3>1. b \in Channels /\ c # b
      BY ConstantFacts, SurfaceAssumption
    <3>2. mr.on[c]
      BY <1>1, <1>5, <2>1, <3>1 DEF Mixed
    <3>3. x = SetEditTarget(mr, b)
      BY <2>1, <3>2
    <3>4. Document.target = c /\ Flipped(Aimed(Document, b), c) = Mixing(Document, c)
      <4>1. Document.target = c
        BY <1>5, <2>1
      <4> QED BY <1>1, <1>4, <4>1, MixingIs
    <3> HIDE DEF b
    <3>5. x = Targeting(f, b)
      BY <1>4, <2>1, <3>1, <3>3 DEF SetEditTarget
    <3>6. Good(x, n, {}) /\ x.target = b
      <4> DEFINE y == Targeting(f, b)
      <4>1. Good(y, n, {}) /\ y.target = b
        BY <1>4, <3>1, TargetingGood
      <4> HIDE DEF x
      <4> QED BY <3>5, <4>1
    <3>7. View(x) = Aimed(Document, b)
      <4> HIDE DEF x
      <4> QED BY <1>4, <3>1, <3>5, TargetingView
    <3> HIDE DEF x
    <3> QED BY <3>1, <3>4, <3>6, <3>7
  <2>2. CASE c # mr.target
    <3>1. x = f
      BY <1>4, <2>2
    <3>2. Flipped(Document, c) = Mixing(Document, c)
      <4>1. Document.target # c
        BY <1>5, <2>2
      <4> QED BY <1>1, <1>4, <4>1, MixingIs
    <3> HIDE DEF x
    <3> QED BY <1>4, <1>5, <2>2, <3>1, <3>2
  <2> QED BY <2>1, <2>2
<1> HIDE DEF x
<1>8. PICK D : Good(x, n, D) /\ (x.on[c] => c # x.target)
  BY <1>7
<1>9. Good(t, n, {})
  BY <1>1, <1>8, ToggledGood
<1>10. View(t) = Mixing(Document, c)
  BY <1>1, <1>7, <1>8, ToggledView
<1> HIDE DEF t
<1>11. Document' = Mixing(Document, c)
  BY <1>6, <1>9, <1>10, After
<1>12. Promise!SetMix(c)
  <2>1. Promise!KeepOrForget
    BY <1>6, LogSame
  <2>2. Promise!Base = Base
    BY DEF Promise!Base, Base
  <2> QED BY <1>6, <1>11, <2>1, <2>2 DEF Promise!SetMix, Mixing
<1> QED BY <1>1, <1>12 DEF Promise!Next

LEMMA EditTargetSim ==
  ASSUME Unmirrored = {}, Inv, Extra, EditTarget
  PROVE  [Promise!Next]_(Promise!vars)
<1>1. PICK c \in Channels : Call(SetEditTarget(mr, c))
  BY DEF EditTarget
<1>2. ~sess.open
  BY DEF EditTarget, Idle
<1>3. PICK n, f : Folds(n, f)
  BY <1>2, Standing
<1>4. /\ Good(mr, n, Ahead) /\ f = Writeback(mr, mr.active) /\ Good(f, n, {})
      /\ View(f) = Document
  BY <1>3 DEF Folds
<1> DEFINE t == SetEditTarget(mr, c)
<1>5. Becomes(t) /\ UNCHANGED <<sess, past, future, saved>>
  BY <1>1, CallIs
<1>6. CASE c = mr.target
  <2>1. t = mr
    BY <1>6 DEF SetEditTarget
  <2> HIDE DEF t
  <2>2. Leaves(mr, t, n, mr.active)
    BY <2>1, LeavesItself
  <2>3. UNCHANGED Promise!vars
    BY <1>4, <1>5, <2>2, KeptDocument
  <2> QED BY <2>3
<1>7. CASE c # mr.target
  <2>1. t = Targeting(f, c)
    BY <1>4, <1>7 DEF SetEditTarget
  <2> HIDE DEF t
  <2>2. Good(t, n, {})
    <3> DEFINE y == Targeting(f, c)
    <3>1. Good(y, n, {})
      BY <1>1, <1>4, TargetingGood
    <3> QED BY <2>1, <3>1
  <2>3. View(t) = Aimed(Document, c)
    BY <1>1, <1>4, <2>1, TargetingView
  <2>4. Document' = Aimed(Document, c)
    BY <1>5, <2>2, <2>3, After
  <2>5. Promise!SetTarget(c)
    <3>1. Promise!KeepOrForget
      BY <1>5, LogSame
    <3> QED BY <1>5, <2>4, <3>1 DEF Promise!SetTarget, Aimed
  <2>6. Promise!Channels = Channels
    BY DEF Promise!Channels, Channels, Promise!Base, Base
  <2>7. Promise!Next
    BY <1>1, <2>5, <2>6 DEF Promise!Next
  <2> QED BY <2>7
<1> QED BY <1>6, <1>7

LEMMA SerializeStoreSim ==
  ASSUME Unmirrored = {}, Inv, Extra, SerializeStore
  PROVE  Promise!Next
<1>1. /\ ~sess.open /\ ~edited /\ UNCHANGED <<mr, sess, past, future, edited>>
      /\ saved' = [detail |-> mr.disp, owes |-> mr.debt]
  BY DEF SerializeStore, Idle
<1>2. PICK n, f : Folds(n, f)
  BY <1>1, Standing
<1>3. Document = View(mr)
  BY <1>1, <1>2 DEF Folds
<1>4. Document.detail = mr.disp /\ Document.owes = mr.debt
  BY <1>3 DEF View
<1>5. Document' = Document
  <2>1. DocOf(mr', edited') = DocOf(mr, edited)
    BY <1>1
  <2> QED BY <2>1, DocumentIs, DocumentNext
<1>6. Promise!Save
  BY <1>1, <1>4, <1>5 DEF Promise!Save, Steps, StepOf
<1> QED BY <1>6 DEF Promise!Next

LEMMA RestoreStoreSim ==
  ASSUME Unmirrored = {}, Inv, Extra, RestoreStore
  PROVE  Promise!Next
<1> DEFINE d == saved.detail
           b == saved.owes
           t == [InvalidateAbove([mr EXCEPT !.disp = d], 0) EXCEPT !.active = 0, !.debt = b]
<1>1. ~sess.open /\ Len(d) = Depth(mr) /\ Call(t)
  BY DEF RestoreStore, Idle
<1>2. PICK n, f : Folds(n, f)
  BY <1>1, Standing
<1>3. /\ Good(mr, n, Ahead) /\ n \in Nat /\ Depth(mr) = n /\ Document \in Docs(n)
      /\ Len(Document.detail) = n
  BY <1>2 DEF Folds
<1>4. d \in [1 .. n -> Detail] /\ b \in SUBSET (2 .. n)
  <2>1. d \in Seq(Detail) /\ b \in SUBSET (2 .. Len(d))
    BY InvParts DEF Typed
  <2>2. d \in [1 .. Len(d) -> Detail]
    BY <2>1
  <2> QED BY <1>1, <1>3, <2>1, <2>2
<1>5. Becomes(t) /\ UNCHANGED <<sess, past, future, saved>>
  BY <1>1, CallIs
<1>6. d = saved.detail /\ b = saved.owes
  OBVIOUS
<1>7. Shaped(mr, n)
  BY <1>3, GoodShape
<1> HIDE DEF d, b
<1>8. Good(t, n, {})
  BY <1>3, <1>4, RestoreGood
<1>9. View(t) = [detail |-> d, on |-> mr.on, target |-> mr.target, owes |-> b, level |-> 0]
  BY <1>4, <1>7, RestoredStoreView
<1> HIDE DEF t
<1>10. Document' = View(t)
  BY <1>5, <1>8, After
<1>11. Document.on = mr.on /\ Document.target = mr.target
  BY DEF Document
<1>12. Document' = Shrunk(Document, d, b, 0)
  <2>1. Shrunk(Document, d, b, 0) = Parts(d, Document.on, Document.target, b, 0)
    BY <1>3, WithParts
  <2> QED BY <1>9, <1>10, <1>11, <2>1 DEF Parts
<1>13. Promise!Restore
  <2>1. Promise!KeepOrForget
    BY <1>5, LogSame
  <2> QED BY <1>1, <1>3, <1>5, <1>6, <1>12, <2>1 DEF Promise!Restore, Shrunk
<1> QED BY <1>13 DEF Promise!Next

-----------------------------------------------------------------------------
(* The log, as the plain stack keeps it.                                   *)

Mapped(l, x) == [level |-> l, chan |-> x.chan, disp |-> x.disp, pre |-> x.pre, post |-> x.post]
Log(l, p) == [i \in DOMAIN p |-> Mapped(l, p[i])]
Record == [level : Nat, chan : Channels, disp : Pos, pre : BOOLEAN, post : BOOLEAN]

LEMMA MappedType ==
  ASSUME NEW l \in Nat, NEW x \in Step
  PROVE  Mapped(l, x) \in Record
BY DEF Mapped, Record, Step

LEMMA LogFacts ==
  ASSUME NEW l \in Nat, NEW p \in Seq(Step)
  PROVE  /\ Log(l, p) \in Seq(Record) /\ Len(Log(l, p)) = Len(p) /\ Len(p) \in Nat
         /\ \A i \in 1 .. Len(p) : Log(l, p)[i] = Mapped(l, p[i])
<1>1. DOMAIN p = 1 .. Len(p) /\ Len(p) \in Nat /\ \A i \in 1 .. Len(p) : p[i] \in Step
  OBVIOUS
<1>2. \A i \in 1 .. Len(p) : Mapped(l, p[i]) \in Record
  BY <1>1, MappedType
<1> DEFINE g == Log(l, p)
<1>3. g \in [1 .. Len(p) -> Record] /\ \A i \in 1 .. Len(p) : g[i] = Mapped(l, p[i])
  BY <1>1, <1>2 DEF Log
<1> HIDE DEF g
<1>4. g \in Seq(Record) /\ Len(g) = Len(p)
  BY <1>1, <1>3
<1> QED BY <1>1, <1>3, <1>4 DEF g

LEMMA LogEmpty ==
  ASSUME NEW l \in Nat, NEW p \in Seq(Step)
  PROVE  Log(l, <<>>) = <<>> /\ (p # <<>> => Log(l, p) # <<>>)
<1> DEFINE e == <<>>
<1>1. e \in Seq(Step) /\ Len(e) = 0
  BY EmptySeq
<1>2. Log(l, e) \in Seq(Record) /\ Len(Log(l, e)) = 0
  <2> HIDE DEF e
  <2> QED BY <1>1, LogFacts
<1>3. Log(l, e) = <<>>
  BY <1>2, EmptySeq
<1>4. ASSUME p # <<>> PROVE Log(l, p) # <<>>
  <2>1. Len(Log(l, p)) = Len(p) /\ Len(p) \in Nat \ {0}
    BY <1>4, LogFacts, EmptySeq
  <2> QED BY <2>1, EmptySeq
<1> QED BY <1>3, <1>4

LEMMA LogAppend ==
  ASSUME NEW l \in Nat, NEW p \in Seq(Step), NEW x \in Step
  PROVE  Log(l, Append(p, x)) = Append(Log(l, p), Mapped(l, x))
<1> DEFINE q == Append(p, x)
           g == Log(l, p)
           y == Mapped(l, x)
           h == Append(g, y)
           k == Len(p) + 1
<1>1. q \in Seq(Step) /\ Len(q) = k /\ q[k] = x /\ Len(p) \in Nat
      /\ \A i \in 1 .. Len(p) : q[i] = p[i]
  OBVIOUS
<1>2. y \in Record /\ g \in Seq(Record) /\ Len(g) = Len(p)
      /\ \A i \in 1 .. Len(p) : g[i] = Mapped(l, p[i])
  BY MappedType, LogFacts
<1> HIDE DEF q, g
<1>3. /\ Log(l, q) \in Seq(Record) /\ Len(Log(l, q)) = k
      /\ \A i \in 1 .. k : Log(l, q)[i] = Mapped(l, q[i])
  BY <1>1, LogFacts
<1>4. y = Mapped(l, x)
  OBVIOUS
<1> HIDE DEF y
<1>5. h \in Seq(Record) /\ Len(h) = k /\ h[k] = y /\ \A i \in 1 .. Len(p) : h[i] = g[i]
  BY <1>1, <1>2
<1> HIDE DEF h
<1>6. ASSUME NEW i \in 1 .. k PROVE Log(l, q)[i] = h[i]
  <2>1. CASE i = k
    BY <1>1, <1>3, <1>4, <1>5, <2>1
  <2>2. CASE i # k
    <3>1. i \in 1 .. Len(p)
      BY <1>1, <2>2
    <3> QED BY <1>1, <1>2, <1>3, <1>5, <3>1
  <2> QED BY <2>1, <2>2
<1>7. Log(l, q) = h
  BY <1>3, <1>5, <1>6, SeqEqual
<1> QED BY <1>7 DEF q, h, g, y

LEMMA LogFirst ==
  ASSUME NEW l \in Nat, NEW p \in Seq(Step), NEW x \in Step
  PROVE  Log(l, <<x>> \o p) = <<Mapped(l, x)>> \o Log(l, p)
<1> DEFINE q == <<x>> \o p
           g == Log(l, p)
           y == Mapped(l, x)
           h == <<y>> \o g
           k == Len(p) + 1
<1>1. q \in Seq(Step) /\ Len(q) = k /\ q[1] = x /\ Len(p) \in Nat
      /\ \A i \in 2 .. k : q[i] = p[i - 1]
  OBVIOUS
<1>2. y \in Record /\ g \in Seq(Record) /\ Len(g) = Len(p)
      /\ \A i \in 1 .. Len(p) : g[i] = Mapped(l, p[i])
  BY MappedType, LogFacts
<1> HIDE DEF q, g
<1>3. /\ Log(l, q) \in Seq(Record) /\ Len(Log(l, q)) = k
      /\ \A i \in 1 .. k : Log(l, q)[i] = Mapped(l, q[i])
  BY <1>1, LogFacts
<1>4. y = Mapped(l, x)
  OBVIOUS
<1> HIDE DEF y
<1>5. h \in Seq(Record) /\ Len(h) = k /\ h[1] = y /\ \A i \in 2 .. k : h[i] = g[i - 1]
  BY <1>1, <1>2
<1> HIDE DEF h
<1>6. ASSUME NEW i \in 1 .. k PROVE Log(l, q)[i] = h[i]
  <2>1. CASE i = 1
    BY <1>1, <1>3, <1>4, <1>5, <2>1
  <2>2. CASE i # 1
    <3>1. i \in 2 .. k /\ i - 1 \in 1 .. Len(p)
      BY <1>1, <2>2
    <3> QED BY <1>1, <1>2, <1>3, <1>5, <3>1
  <2> QED BY <2>1, <2>2
<1>7. Log(l, q) = h
  BY <1>3, <1>5, <1>6, SeqEqual
<1> QED BY <1>7 DEF q, h, g, y

LEMMA LogTail ==
  ASSUME NEW l \in Nat, NEW p \in Seq(Step), p # <<>>
  PROVE  /\ Log(l, Tail(p)) = Tail(Log(l, p)) /\ Head(Log(l, p)) = Mapped(l, Head(p))
         /\ Head(p) \in Step /\ Tail(p) \in Seq(Step)
<1> DEFINE q == Tail(p)
           g == Log(l, p)
           h == Tail(g)
           k == Len(p) - 1
<1>1. /\ q \in Seq(Step) /\ Len(q) = k /\ Len(p) \in Nat \ {0}
      /\ (\A i \in 1 .. k : q[i] = p[i + 1]) /\ Head(p) \in Step /\ Head(p) = p[1]
  BY TailFacts
<1>2. g \in Seq(Record) /\ Len(g) = Len(p) /\ g # <<>>
      /\ \A i \in 1 .. Len(p) : g[i] = Mapped(l, p[i])
  BY LogFacts, LogEmpty
<1> HIDE DEF q, g
<1>3. /\ Log(l, q) \in Seq(Record) /\ Len(Log(l, q)) = k
      /\ \A i \in 1 .. k : Log(l, q)[i] = Mapped(l, q[i])
  BY <1>1, LogFacts
<1>4. h \in Seq(Record) /\ Len(h) = k /\ (\A i \in 1 .. k : h[i] = g[i + 1]) /\ Head(g) = g[1]
  BY <1>2, TailFacts
<1> HIDE DEF h
<1>5. ASSUME NEW i \in 1 .. k PROVE Log(l, q)[i] = h[i]
  <2>1. i + 1 \in 1 .. Len(p)
    BY <1>1
  <2> QED BY <1>1, <1>2, <1>3, <1>4, <2>1
<1>6. Log(l, q) = h
  BY <1>3, <1>4, <1>5, SeqEqual
<1>7. Head(g) = Mapped(l, Head(p))
  BY <1>1, <1>2, <1>4
<1> QED BY <1>1, <1>6, <1>7 DEF q, h, g

LEMMA LogFront ==
  ASSUME NEW l \in Nat, NEW p \in Seq(Step), p # <<>>
  PROVE  /\ Log(l, Front(p)) = SubSeq(Log(l, p), 1, Len(Log(l, p)) - 1)
         /\ Log(l, p)[Len(Log(l, p))] = Mapped(l, Last(p))
         /\ Last(p) \in Step /\ Front(p) \in Seq(Step)
<1> DEFINE q == Front(p)
           g == Log(l, p)
           k == Len(g) - 1
           h == SubSeq(g, 1, k)
<1>1. /\ q \in Seq(Step) /\ Len(q) = Len(p) - 1 /\ Len(p) \in Nat \ {0}
      /\ (\A i \in 1 .. Len(p) - 1 : q[i] = p[i]) /\ Last(p) \in Step /\ Last(p) = p[Len(p)]
  BY FrontFacts
<1>2. g \in Seq(Record) /\ Len(g) = Len(p) /\ \A i \in 1 .. Len(p) : g[i] = Mapped(l, p[i])
  BY LogFacts
<1> HIDE DEF q, g
<1>3. k \in Nat /\ Len(q) = k
  BY <1>1, <1>2
<1>4. /\ Log(l, q) \in Seq(Record) /\ Len(Log(l, q)) = k
      /\ \A i \in 1 .. k : Log(l, q)[i] = Mapped(l, q[i])
  BY <1>1, <1>3, LogFacts
<1>5. h \in Seq(Record) /\ Len(h) = k /\ \A i \in 1 .. k : h[i] = g[i]
  BY <1>2, <1>3
<1> HIDE DEF h
<1>6. ASSUME NEW i \in 1 .. k PROVE Log(l, q)[i] = h[i]
  <2>1. i \in 1 .. Len(p) /\ i \in 1 .. Len(p) - 1
    BY <1>1, <1>2
  <2> QED BY <1>1, <1>2, <1>4, <1>5, <2>1
<1>7. Log(l, q) = h
  BY <1>4, <1>5, <1>6, SeqEqual
<1>8. g[Len(g)] = Mapped(l, Last(p))
  BY <1>1, <1>2
<1> QED BY <1>1, <1>7, <1>8 DEF q, h, g

\* The mapped logs, before and after a step.
LEMMA LogsAre ==
  /\ Steps(IF sess.open /\ sess.touched # {} THEN Front(past) ELSE past) = Log(sess.level, Complete)
  /\ Steps(future) = Log(sess.level, future)
BY DEF Steps, StepOf, Log, Mapped, Complete

LEMMA LogsNext ==
  /\ Steps(IF sess.open /\ sess.touched # {} THEN Front(past) ELSE past)' = Log(sess'.level, Complete')
  /\ Steps(future)' = Log(sess'.level, future')
BY DEF Steps, StepOf, Log, Mapped, Complete

-----------------------------------------------------------------------------
(* Every step of the object is a step of the plain stack, or stutters: the *)
(* session and its strokes.                                                *)

LEMMA LogStutters ==
  ASSUME Document' = Document, saved' = saved, sess'.level = sess.level,
         Complete' = Complete, future' = future
  PROVE  UNCHANGED Promise!vars
BY LogsAre, LogsNext DEF Promise!vars

\* What was undone is given up, and perhaps what was done.
LEMMA LogForgets ==
  ASSUME Document' = Document, saved' = saved, sess'.level \in Nat, future' = <<>>,
         \/ Complete' = <<>>
         \/ sess'.level = sess.level /\ Complete' = Complete
  PROVE  Promise!Next
<1>1. \A l \in Nat : Log(l, <<>>) = <<>>
  <2> DEFINE e == <<>>
  <2>1. e \in Seq(Step)
    BY EmptySeq
  <2> HIDE DEF e
  <2>2. \A l \in Nat : Log(l, <<>>) = <<>>
    BY <2>1, LogEmpty
  <2> QED BY <2>2
<1>2. Promise!Forget
  BY <1>1, LogsAre, LogsNext DEF Promise!Forget
<1> QED BY <1>2 DEF Promise!Next

LEMMA OpenSessionSim ==
  ASSUME Unmirrored = {}, Inv, Extra, OpenSession
  PROVE  Promise!Next
<1>1. PICK l \in Levels(mr), m \in Mirrors :
        /\ Becomes(Attached(GridDomain(mr, l), l))
        /\ sess' = [NoSession EXCEPT !.level = l, !.mirror = m]
  BY DEF OpenSession
<1>2. ~sess.open /\ past' = <<>> /\ future' = <<>> /\ UNCHANGED saved
  BY DEF OpenSession, Idle
<1>3. PICK n, f : Folds(n, f)
  BY <1>2, Standing
<1>4. Good(mr, n, Ahead) /\ l \in 1 .. n /\ n \in Nat
  BY <1>1, <1>3 DEF Folds
<1> DEFINE x == GridDomain(mr, l)
           t == Attached(x, l)
           a == mr.active
<1>5. Good(x, n, Ahead) /\ x.domains[l] # "none" /\ Leaves(mr, x, n, a)
  BY <1>4, DomainGood, DomainLeaves
<1>6. Becomes(t)
  BY <1>1
<1> HIDE DEF x
<1>7. Leaves(x, t, n, a)
  BY <1>4, <1>5, AttachedLeaves
<1>8. t.cache = x.cache
  BY <1>4, <1>5, AttachedGood
<1> HIDE DEF t, a
<1>9. Leaves(mr, t, n, a)
  <2>1. \A k \in 1 .. n : mr.cache[k].valid => t.cache[k].pos = mr.cache[k].pos
    BY <1>5, <1>8 DEF Leaves
  <2>2. SameView(mr, t)
    BY <1>5, <1>7, SameViewTwice DEF Leaves
  <2> QED BY <1>5, <1>7, <2>1, <2>2 DEF Leaves
<1>10. Document' = Document
  <2>1. Leaves(mr, t, n, mr.active)
    BY <1>9 DEF a
  <2> QED BY <1>4, <1>6, <2>1, DocumentKept DEF Extra
<1>11. sess'.level \in Nat /\ ~sess'.open
  <2>1. sess'.level = l /\ ~sess'.open
    BY <1>1 DEF NoSession
  <2> QED BY <1>4, <2>1
<1>12. Complete' = <<>>
  BY <1>2, <1>11 DEF Complete
<1> QED BY <1>2, <1>10, <1>11, <1>12, LogForgets

LEMMA SetMirrorSim ==
  ASSUME Inv, SetMirror
  PROVE  UNCHANGED Promise!vars
<1>1. /\ sess'.level = sess.level /\ sess'.open = sess.open /\ sess'.touched = sess.touched
      /\ UNCHANGED <<mr, past, future, saved, edited>>
  BY InvParts DEF SetMirror, Sessions
<1>2. Document' = Document
  BY <1>1, DocumentIs, DocumentNext
<1>3. Complete' = Complete
  BY <1>1 DEF Complete
<1> QED BY <1>1, <1>2, <1>3, LogStutters

LEMMA BeginStrokeSim ==
  ASSUME Unmirrored = {}, Inv, Extra, BeginStroke
  PROVE  Promise!Next
<1> DEFINE l == sess.level
           x == GridDomain(mr, l)
           t == IF Same(x) THEN x ELSE Attached(x, l)
           a == mr.active
<1>1. /\ ~sess.open /\ ~edited /\ l \in Levels(mr) /\ Becomes(t)
      /\ past' = (IF Same(x) THEN past ELSE <<>>)
      /\ future' = <<>> /\ sess' = [sess EXCEPT !.open = TRUE, !.touched = {}]
      /\ UNCHANGED saved
  BY DEF BeginStroke, Idle
<1>2. PICK n, f : Folds(n, f)
  BY <1>1, Standing
<1>3. Good(mr, n, Ahead) /\ l \in 1 .. n /\ n \in Nat
  BY <1>1, <1>2 DEF Folds
<1>4. Good(x, n, Ahead) /\ x.domains[l] # "none" /\ Leaves(mr, x, n, a)
  BY <1>3, DomainGood, DomainLeaves
<1> HIDE DEF x
<1>5. Leaves(mr, t, n, a)
  <2>1. CASE Same(x)
    <3>1. t = x
      BY <2>1
    <3> QED BY <1>4, <3>1
  <2>2. CASE ~Same(x)
    <3> DEFINE y == Attached(x, l)
    <3>1. Leaves(x, y, n, a)
      BY <1>3, <1>4, AttachedLeaves
    <3>2. y.cache = x.cache
      BY <1>3, <1>4, AttachedGood
    <3>3. t = y
      BY <2>2
    <3> HIDE DEF y, t, a
    <3>4. \A k \in 1 .. n : mr.cache[k].valid => y.cache[k].pos = mr.cache[k].pos
      BY <1>4, <3>2 DEF Leaves
    <3>5. SameView(mr, y)
      BY <1>4, <3>1, SameViewTwice DEF Leaves
    <3>6. Leaves(mr, y, n, a)
      BY <1>4, <3>1, <3>4, <3>5 DEF Leaves
    <3> QED BY <3>3, <3>6
  <2> QED BY <2>1, <2>2
<1> HIDE DEF t
<1>6. Document' = Document
  BY <1>1, <1>3, <1>5, DocumentKept DEF Extra
<1>7. sess'.level = sess.level /\ sess'.touched = {} /\ sess'.level \in Nat
  BY <1>1, <1>3, InvParts DEF Sessions
<1>8. Complete' = past' /\ Complete = past
  BY <1>1, <1>7 DEF Complete
<1>9. Complete' = <<>> \/ Complete' = Complete
  BY <1>1, <1>8
<1> QED BY <1>1, <1>6, <1>7, <1>9, LogForgets

LEMMA DabSim ==
  ASSUME Unmirrored = {}, Inv, Extra, Dab
  PROVE  UNCHANGED Promise!vars
<1>1. PICK n, t, b :
        /\ Stroking(mr, n, sess.level) /\ Becomes(t) /\ View(t) = View(mr)
        /\ sess'.level = sess.level /\ sess'.open /\ sess'.touched # {}
        /\ sess.open /\ b \in Step /\ (b.pre <=> sess.level \in mr.debt) /\ ~b.post
        /\ past' = (IF sess.touched # {} THEN past ELSE Append(past, b))
        /\ UNCHANGED <<future, saved>>
  BY DabIs
<1>2. ~edited /\ ~edited' /\ mr' = t
  BY <1>1, Open DEF Becomes
<1>3. Document' = Document
  <2>1. Document = View(mr) /\ Document' = View(mr')
    BY <1>2, DocumentIs, DocumentNext DEF DocOf
  <2> QED BY <1>1, <1>2, <2>1
<1>4. Complete' = Complete
  <2>1. Complete' = Front(past')
    BY <1>1 DEF Complete
  <2>2. CASE sess.touched # {}
    BY <1>1, <2>1, <2>2 DEF Complete
  <2>3. CASE sess.touched = {}
    <3> DEFINE q == Append(past, b)
    <3>1. past \in Seq(Step)
      BY InvParts
    <3>2. Front(q) = past
      BY <1>1, <3>1, AppendFacts
    <3>3. past' = q /\ Complete = past
      BY <1>1, <2>3 DEF Complete
    <3> HIDE DEF q
    <3> QED BY <2>1, <3>2, <3>3
  <2> QED BY <2>2, <2>3
<1> QED BY <1>1, <1>3, <1>4, LogStutters

LEMMA DropOldestSim ==
  ASSUME Inv, DropOldest
  PROVE  Promise!Next
<1>1. ~sess.open /\ past # <<>> /\ past' = Tail(past) /\ UNCHANGED <<mr, sess, saved, future, edited>>
  BY DEF DropOldest, Idle
<1>2. Document' = Document
  BY <1>1, DocumentIs, DocumentNext
<1>3. Complete = past /\ Complete' = Tail(past)
  BY <1>1 DEF Complete
<1>4. sess.level \in Nat /\ past \in Seq(Step)
  BY InvParts DEF Sessions
<1> DEFINE l == sess.level
<1>5. Log(l, Tail(past)) = Tail(Log(l, past)) /\ Log(l, past) # <<>>
  <2> HIDE DEF l
  <2>1. l \in Nat
    BY <1>4 DEF l
  <2> QED BY <1>1, <1>4, <2>1, LogTail, LogEmpty
<1>6. Promise!Forget
  BY <1>1, <1>2, <1>3, <1>5, LogsAre, LogsNext DEF Promise!Forget
<1> QED BY <1>6 DEF Promise!Next

LEMMA MarkingView ==
  ASSUME NEW n \in Nat, NEW s \in Stack(n), NEW l
  PROVE  SameView(s, Marked(s, l))
BY DEF Marked, Stack, SameView

\* The end of a stroke gives the level the positions of the domain.
LEMMA EndedView ==
  ASSUME NEW n, NEW s, NEW l, Stroking(s, n, l), NEW vs, Strayed(s, l, vs)
  PROVE  View(IfMirrored(FoldStroke(s, l, vs), l, vs))
           = Promise!Owing(Promise!Given(View(s), l, s.target, s.cache[l].pos), l)
<1> DEFINE c == s.target
           p == s.cache[l].pos
           u == StoreDisp(s, l, p, vs, c)
           m == Marked(u, l)
           y == InvalidateAbove(u, l)
           z == InvalidateAbove(m, l)
           o == Owing(z, l)
           t == IfMirrored(o, l, vs)
<1>1. /\ Shaped(s, n) /\ n \in Nat /\ l \in 1 .. n /\ l \in 0 .. n
      /\ p \in Pos /\ c \in Mixed(s.on) /\ Under(s, l) # NoBase
  <2>1. Shaped(s, n) /\ n \in Nat /\ l \in 1 .. n /\ p \in Pos
    BY StrokingFacts
  <2>2. l \in 0 .. n
    BY <2>1
  <2> QED BY <2>1, <2>2, ShapedFacts
<1>2. FoldStroke(s, l, vs) = o
  BY DEF FoldStroke, Marked
<1>3. vs \in SUBSET Verts /\ \A v \in Verts \ vs : p[v] = Surf(s, l)[v]
  BY DEF Strayed
<1>4. RightBase(s, l)
  BY <1>1 DEF RightBase, Stroking
<1> HIDE DEF c, t, o, p
<1>5. Shaped(u, n) /\ Stored(s, u, n, l, p, c)
  BY <1>1, <1>3, <1>4, Storing
<1> HIDE DEF u
<1>6. View(u) = Promise!Given(View(s), l, c, p)
  BY <1>1, <1>5, StoredView
<1>7. Shaped(m, n) /\ View(m) = View(u)
  <2>1. u \in Stack(n)
    BY <1>5, ShapedFacts
  <2>2. /\ m \in Stack(n) /\ m.cache = u.cache /\ m.slots = u.slots /\ m.domains = u.domains
        /\ SameView(u, m)
    <3>1. l \in Nat
      BY <1>1
    <3>2. SameView(u, m)
      BY <1>1, <2>1, MarkingView
    <3>3. u.stale \union {l} \in SUBSET Nat
      BY <1>1, <2>1, <3>1, StackFields
    <3> QED BY <2>1, <3>2, <3>3 DEF Marked, Stack
  <2> HIDE DEF m
  <2>3. Shaped(m, n)
    BY <1>5, <2>2, ShapedLike DEF SameView
  <2> QED BY <2>2, <2>3, ViewSame
<1> HIDE DEF m
<1>8. View(z) = View(m)
  BY <1>1, <1>7, InvalidatingView, ViewSame
<1>9. Shaped(z, n)
  BY <1>1, <1>7, InvalidatingShape
<1> HIDE DEF z
<1>10. View(o) = Promise!Owing(View(z), l)
  BY <1>1, <1>9, OwingView, ShapedFacts DEF o
<1>11. Shaped(o, n)
  BY <1>1, <1>9, OwingSame DEF SameBut, o
<1>12. View(t) = View(o)
  BY <1>1, <1>11, MirroredView DEF t
<1> QED BY <1>2, <1>6, <1>7, <1>8, <1>10, <1>12 DEF t, c, p

\* A sequence is its front and its last element.
LEMMA FrontLast ==
  ASSUME NEW S, NEW p \in Seq(S), p # <<>>, NEW q \in Seq(S), Len(q) = Len(p) - 1,
         \A i \in 1 .. Len(p) - 1 : q[i] = p[i]
  PROVE  p = Append(q, Last(p)) /\ q = Front(p)
<1> DEFINE x == Last(p)
           r == Append(q, x)
           f == Front(p)
           k == Len(p)
<1>1. /\ f \in Seq(S) /\ Len(f) = k - 1 /\ k \in Nat \ {0}
      /\ (\A i \in 1 .. k - 1 : f[i] = p[i]) /\ x \in S /\ x = p[k]
  BY FrontFacts
<1> HIDE DEF x, f
<1>2. r \in Seq(S) /\ Len(r) = k /\ r[k] = x /\ \A i \in 1 .. k - 1 : r[i] = q[i]
  BY <1>1
<1> HIDE DEF r
<1>3. \A i \in 1 .. k : i = k \/ i \in 1 .. k - 1
  BY <1>1
<1>4. \A i \in 1 .. k : p[i] = r[i]
  BY <1>1, <1>2, <1>3
<1>5. p = r
  BY <1>2, <1>4, SeqEqual
<1>6. q = f
  BY <1>1, SeqEqual
<1> QED BY <1>5, <1>6 DEF r, x, f

\* The step that is recorded, and what it is in the plain stack.
LEMMA Recording ==
  ASSUME NEW p \in Seq(Step), p # <<>>, NEW c \in Channels, NEW d \in Pos, NEW b \in BOOLEAN,
         NEW l \in Nat
  PROVE  Log(l, Noted(p, c, d, b))
           = Append(Log(l, Front(p)), [level |-> l, chan |-> c, disp |-> d,
                                       pre |-> Last(p).pre, post |-> b])
<1> DEFINE r == Noted(p, c, d, b)
           x == Last(r)
           f == Front(p)
           k == Len(p)
<1>1. r \in Seq(Step) /\ Len(r) = k /\ (\A i \in 1 .. k - 1 : r[i] = p[i])
      /\ r[k].chan = c /\ r[k].disp = d
  BY Noting
<1>2. r[k].pre = Last(p).pre /\ r[k].post = b
  BY NotingDebt DEF NotesDebt
<1> HIDE DEF r
<1>3. /\ f \in Seq(Step) /\ Len(f) = k - 1 /\ k \in Nat \ {0}
      /\ \A i \in 1 .. k - 1 : f[i] = p[i]
  BY FrontFacts
<1>4. r # <<>>
  BY <1>1, <1>3, EmptySeq
<1> HIDE DEF f
<1>5. x \in Step /\ x = r[k]
  BY <1>1, <1>4, FrontFacts
<1>6. r = Append(f, x)
  <2>1. \A i \in 1 .. k - 1 : f[i] = r[i]
    BY <1>1, <1>3
  <2> HIDE DEF k
  <2>2. k = Len(p)
    BY DEF k
  <2> QED BY <1>1, <1>3, <1>4, <2>1, FrontLast
<1> HIDE DEF x
<1>7. Log(l, r) = Append(Log(l, f), Mapped(l, x))
  <2>1. Log(l, Append(f, x)) = Append(Log(l, f), Mapped(l, x))
    BY <1>3, <1>5, LogAppend
  <2> QED BY <1>6, <2>1
<1>8. Mapped(l, x) = [level |-> l, chan |-> c, disp |-> d, pre |-> Last(p).pre, post |-> b]
  BY <1>1, <1>2, <1>5 DEF Mapped
<1> QED BY <1>7, <1>8 DEF r, f

LEMMA EndStrokeSim ==
  ASSUME Unmirrored = {}, Inv, Extra, EndStroke
  PROVE  [Promise!Next]_(Promise!vars)
<1> DEFINE l == sess.level
           k == sess.touched
           c == mr.target
           d == mr.disp[l][c]
           b == l \in mr'.debt
           p == mr.cache[l].pos
<1>1. PICK n : /\ sess.open /\ ~sess'.open /\ sess'.level = l /\ UNCHANGED <<future, saved>>
               /\ Stroking(mr, n, l) /\ Good(mr', n, {}) /\ Becomes(mr')
               /\ IF k = {} THEN mr' = mr /\ past' = past
                  ELSE /\ past # <<>> /\ mr' = IfMirrored(FoldStroke(mr, l, k), l, k)
                       /\ past' = Noted(past, c, d, b)
  BY EndStrokeIs
<1>2. ~edited /\ future = <<>> /\ Strayed(mr, l, k) /\ k \in SUBSET Verts
  BY <1>1, Open
<1>3. Document = View(mr) /\ Document' = View(mr') /\ Document' \in Docs(n)
  <2>1. Document' = View(mr') /\ Document' \in Docs(n)
    BY <1>1, After
  <2> QED BY <1>2, <2>1, DocumentIs DEF DocOf
<1>4. Complete' = past'
  BY <1>1 DEF Complete
<1>5. CASE k = {}
  <2>1. Complete' = Complete
    BY <1>1, <1>4, <1>5 DEF Complete
  <2>2. Document' = Document
    BY <1>1, <1>3, <1>5
  <2> QED BY <1>1, <2>1, <2>2, LogStutters
<1>6. CASE k # {}
  <2>1. past # <<>> /\ past' = Noted(past, c, d, b) /\ Complete = Front(past)
    BY <1>1, <1>6 DEF Complete
  <2>2. /\ n \in Nat /\ mr \in Stack(n) /\ l \in 1 .. n /\ l \in Nat /\ past \in Seq(Step)
        /\ p \in Pos /\ Shaped(mr, n)
    <3>1. n \in Nat /\ mr \in Stack(n) /\ l \in 1 .. n /\ p \in Pos /\ Shaped(mr, n)
      BY <1>1, StrokingFacts
    <3> QED BY <3>1, InvParts
  <2>3. c \in Channels /\ d \in Pos /\ b \in BOOLEAN /\ c \in Mixed(mr.on)
    <3>1. c \in Channels /\ mr.disp[l] \in Detail
      BY <2>2, StackFields
    <3> QED BY <2>2, <3>1, ShapedFacts DEF Detail
  <2>4. View(mr') = Promise!Owing(Promise!Given(View(mr), l, c, p), l)
    <3>1. mr' = IfMirrored(FoldStroke(mr, l, k), l, k)
      BY <1>1, <1>6
    <3> DEFINE t == IfMirrored(FoldStroke(mr, l, k), l, k)
    <3>2. View(t) = Promise!Owing(Promise!Given(View(mr), l, mr.target, mr.cache[l].pos), l)
      BY <1>1, <1>2, EndedView
    <3> HIDE DEF t
    <3>3. mr' = t
      BY <3>1 DEF t
    <3> QED BY <3>2, <3>3
  <2>5. Document \in Docs(n) /\ Document.target = c /\ Document.on = mr.on
        /\ Document.detail[l][c] = d /\ Document.owes = mr.debt /\ Document'.owes = mr'.debt
    <3>1. View(mr) \in Docs(n)
      BY <2>2, ViewFields
    <3> QED BY <1>3, <3>1 DEF View
  <2>6. Promise!Shown(Document', l) = p
    <3> HIDE DEF c, p, l
    <3>1. c \in Mixed(Document.on)
      BY <2>3, <2>5
    <3>2. Promise!Shown(Promise!Owing(Promise!Given(Document, l, c, p), l), l) = p
      BY <2>2, <2>5, <3>1, GivenShows
    <3> QED BY <1>3, <2>4, <3>2
  <2> DEFINE e == Last(past).pre
             x == [level |-> l, chan |-> c, disp |-> d, pre |-> e, post |-> b]
  <2>7. Log(l, past') = Append(Log(l, Front(past)), x)
    <3> HIDE DEF l, c, d, b
    <3> QED BY <2>1, <2>2, <2>3, Recording
  <2>8. e = (l \in Document.owes) /\ b = (l \in Document'.owes)
    <3>1. e <=> l \in mr.debt
      BY <1>1, <1>6 DEF Extra, StepReal
    <3>2. e \in BOOLEAN
      <4>1. Last(past) \in Step
        BY <2>1, <2>2, FrontFacts
      <4> QED BY <4>1 DEF Step
    <3> QED BY <2>5, <3>1, <3>2
  <2>9. x = [level |-> l, chan |-> Document.target, disp |-> Document.detail[l][Document.target],
             pre |-> l \in Document.owes, post |-> l \in Document'.owes]
    <3> DEFINE v == (l \in Document.owes)
               w == (l \in Document'.owes)
    <3>1. e = v /\ b = w /\ c = Document.target /\ d = Document.detail[l][Document.target]
      BY <2>5, <2>8
    <3>2. x = [level |-> l, chan |-> Document.target, disp |-> Document.detail[l][Document.target],
               pre |-> v, post |-> w]
      <4> HIDE DEF e, v, b, w, c, d, l
      <4> QED BY <3>1
    <3> QED BY <3>2
  <2>10. Promise!Stroke(l)
    <3>1. Document' = Promise!Owing(Promise!Given(Document, l, Document.target,
                                                 Promise!Shown(Document', l)), l)
      BY <1>3, <2>4, <2>5, <2>6
    <3>2. Steps(future)' = <<>>
      <4>1. future' = <<>>
        BY <1>1, <1>2
      <4> QED BY <4>1 DEF Steps
    <3>3. Steps(IF sess.open /\ sess.touched # {} THEN Front(past) ELSE past)'
            = Append(Steps(IF sess.open /\ sess.touched # {} THEN Front(past) ELSE past), x)
      <4> HIDE DEF x, l
      <4> QED BY <1>1, <1>4, <2>1, <2>7, LogsAre, LogsNext DEF l
    <3> HIDE DEF x, l
    <3> QED BY <1>1, <2>9, <3>1, <3>2, <3>3 DEF Promise!Stroke
  <2>11. Promise!Next
    <3> HIDE DEF l
    <3> QED BY <1>3, <2>2, <2>5, <2>10, LevelStep
  <2> QED BY <2>11
<1> QED BY <1>5, <1>6

\* A channel of a level is replaced, and what the level owes.
Replayed(d, l, c, x, owing) ==
  [d EXCEPT !.detail[l][c] = x, !.owes = IF owing THEN @ \union {l} ELSE @ \ {l}]

Carried(q, l, c, x) == [q EXCEPT ![l] = [q[l] EXCEPT ![c] = x]]
OwedAt(w, l, owing) == IF owing THEN w \union {l} ELSE w \ {l}

LEMMA ReplayedIs ==
  ASSUME NEW n \in Nat, NEW d \in Docs(n), NEW l, NEW c, NEW x, NEW owing \in BOOLEAN
  PROVE  Replayed(d, l, c, x, owing)
           = Parts(Carried(d.detail, l, c, x), d.on, d.target, OwedAt(d.owes, l, owing), d.level)
<1> DEFINE q == d.detail
           o == d.on
           t == d.target
           w == d.owes
           a == d.level
           e == [q EXCEPT ![l] = [q[l] EXCEPT ![c] = x]]
           b == IF owing THEN w \union {l} ELSE w \ {l}
           y == [detail |-> q, on |-> o, target |-> t, owes |-> w, level |-> a]
           z == [detail |-> e, on |-> o, target |-> t, owes |-> w, level |-> a]
<1>1. d = y
  BY DEF Docs
<1>2. Replayed(d, l, c, x, owing) = [[d EXCEPT !.detail = e] EXCEPT !.owes = b]
  BY DEF Replayed
<1> HIDE DEF q, o, t, w, a, e, b
<1>3. [y EXCEPT !.detail = e] = z
  OBVIOUS
<1>4. [z EXCEPT !.owes = b] = Parts(e, o, t, b, a)
  BY DEF Parts
<1> HIDE DEF y, z
<1> QED BY <1>1, <1>2, <1>3, <1>4 DEF q, o, t, w, a, e, b, Carried, OwedAt

LEMMA SwappedView ==
  ASSUME NEW n, Good(mr, n, {}), sess.level \in 1 .. n, NEW step, NEW owing \in BOOLEAN, NEW e,
         Consistent(mr, sess.level, step, e), owing => sess.level >= 2
  PROVE  View(Swapped(step, owing))
           = Replayed(View(mr), sess.level, step.chan, step.disp, owing)
<1> DEFINE l == sess.level
           vs == Verts
           f == [mr.disp EXCEPT ![l] = e]
           u == Exchanged(mr, l, step)
           y == InvalidateAbove(u, l)
           o == Redebted(y, l, owing)
           t == IfMirrored(o, l, vs)
           b == IF owing THEN mr.debt \union {l} ELSE mr.debt \ {l}
<1>1. /\ Shaped(mr, n) /\ n \in Nat /\ l \in 1 .. n /\ l \in 0 .. n /\ mr \in Stack(n)
      /\ View(mr) \in Docs(n) /\ mr.disp \in [1 .. n -> Detail] /\ mr.debt \in SUBSET (2 .. n)
  <2>1. Shaped(mr, n) /\ n \in Nat /\ mr \in Stack(n) /\ View(mr) \in Docs(n)
    BY GoodShape
  <2>2. l \in 1 .. n /\ l \in 0 .. n
    BY <2>1
  <2> QED BY <2>1, <2>2, StackFields
<1>2. Swapped(step, owing) = t
  BY DEF Swapped, Replaced, Exchanged
<1>3. Consistent(mr, l, step, e) /\ (owing => l >= 2)
  OBVIOUS
<1> HIDE DEF l, t, o
<1>4. /\ Shaped(u, n) /\ OnlyStore(mr, u)
      /\ \A k \in 1 .. n : k # l => u.disp[k] = mr.disp[k]
      /\ u.disp[l] = e
  BY <1>1, <1>3, Exchanging
<1> HIDE DEF u
<1>5. u.disp = f
  <2>1. u.disp \in [1 .. n -> Detail]
    BY <1>1, <1>4, ShapedFacts, StackFields
  <2> QED BY <1>1, <1>4, <2>1
<1> HIDE DEF f
<1>6. Shaped(y, n) /\ SameView(u, y)
  BY <1>1, <1>4, InvalidatingView, InvalidatingShape
<1> HIDE DEF y
<1>7. Shaped(o, n)
  BY <1>1, <1>6, RedebtedSame DEF SameBut, o
<1>8. View(o) = Parts(f, mr.on, mr.target, b, mr.active)
  <2>1. y \in Stack(n)
    BY <1>6, ShapedFacts
  <2>2. y.disp = f /\ y.on = mr.on /\ y.target = mr.target /\ y.debt = mr.debt /\ y.active = mr.active
    BY <1>4, <1>5, <1>6 DEF SameView, OnlyStore
  <2>3. o = [y EXCEPT !.debt = b]
    <3>1. (IF l >= 2 /\ owing THEN y.debt \union {l} ELSE y.debt \ {l}) = b
      BY <1>3, <2>2
    <3> HIDE DEF b
    <3> QED BY <3>1 DEF o, Redebted
  <2> HIDE DEF b
  <2>4. o.disp = f /\ o.on = mr.on /\ o.target = mr.target /\ o.debt = b /\ o.active = mr.active
    BY <2>1, <2>2, <2>3 DEF Stack
  <2> QED BY <2>4 DEF View, Parts
<1>9. View(t) = View(o)
  BY <1>1, <1>7, MirroredView DEF t
<1>10. Replayed(View(mr), l, step.chan, step.disp, owing) = Parts(f, mr.on, mr.target, b, mr.active)
  <2> DEFINE d == View(mr)
             c == step.chan
             x == step.disp
  <2>1. Replayed(d, l, c, x, owing)
          = Parts(Carried(d.detail, l, c, x), d.on, d.target, OwedAt(d.owes, l, owing), d.level)
    <3> HIDE DEF d, c, x
    <3>1. d \in Docs(n)
      BY <1>1 DEF d
    <3> QED BY <1>1, <3>1, ReplayedIs
  <2>2. d.detail = mr.disp /\ d.on = mr.on /\ d.target = mr.target /\ d.owes = mr.debt
        /\ d.level = mr.active
    BY DEF View
  <2>3. e = [mr.disp[l] EXCEPT ![c] = x]
    BY <1>3 DEF Consistent
  <2> HIDE DEF d, c, x
  <2>4. Carried(d.detail, l, c, x) = f /\ OwedAt(d.owes, l, owing) = b
    BY <2>2, <2>3 DEF f, Carried, OwedAt
  <2>5. Replayed(d, l, c, x, owing) = Parts(f, mr.on, mr.target, b, mr.active)
    BY <2>1, <2>2, <2>4
  <2> QED BY <2>5 DEF d, c, x
<1> QED BY <1>2, <1>8, <1>9, <1>10 DEF l

\* A swap of the plain stack is the same replacement.
LEMMA PromiseSwapped ==
  ASSUME NEW l, NEW x, NEW owing
  PROVE  Promise!Swapped(Mapped(l, x), owing) = Replayed(Document, l, x.chan, x.disp, owing)
BY DEF Promise!Swapped, Mapped, Replayed

\* Both keep the same of what is swapped out.
LEMMA PromiseOtherSide ==
  ASSUME NEW n, Good(mr, n, {}), sess.level \in 1 .. n, mr.domains[sess.level] # "none",
         NEW step \in Step, Document = View(mr)
  PROVE  /\ Mapped(sess.level, OtherSide(step)) = Promise!OtherSide(Mapped(sess.level, step))
         /\ OtherSide(step) \in Step
<1> DEFINE l == sess.level
           o == OtherSide(step)
           d == Document.detail[l][step.chan]
<1>1. o \in Step /\ o.chan = step.chan /\ o.disp = d
  <2>1. Reverses(mr, l, o, step)
    BY OtherSideIs
  <2>2. Document.detail = mr.disp
    BY DEF View
  <2> QED BY <2>1, <2>2 DEF Reverses
<1>2. o.pre = step.pre /\ o.post = step.post
  BY OtherDebt
<1> HIDE DEF o
<1>3. Promise!OtherSide(Mapped(l, step)) = [Mapped(l, step) EXCEPT !.disp = d]
  BY DEF Promise!OtherSide, Mapped
<1> HIDE DEF d, l
<1>4. [Mapped(l, step) EXCEPT !.disp = d] = Mapped(l, o)
  BY <1>1, <1>2 DEF Mapped
<1> QED BY <1>1, <1>3, <1>4 DEF o, l

\* The document and the logs of a session that can seek.
SeeksFrom(n) ==
  /\ Good(mr, n, {}) /\ n \in Nat /\ sess.level \in 1 .. n /\ Shaped(mr, n)
  /\ mr.domains[sess.level] # "none" /\ History(mr, sess.level, past, future)
  /\ ~sess.open /\ Complete = past /\ Document = View(mr)
  /\ sess.level \in Promise!Levels /\ sess.level \in Nat
  /\ past \in Seq(Step) /\ future \in Seq(Step)

LEMMA SeeksAt ==
  ASSUME Unmirrored = {}, Inv, Extra, CanSeek
  PROVE  \E n : SeeksFrom(n)
<1>1. /\ ~sess.open /\ mr.domains[sess.level] # "none" /\ sess.level \in Levels(mr)
      /\ History(mr, sess.level, past, future)
  BY Seeking
<1>2. ~edited
  BY DEF CanSeek
<1>3. \E m, f : Folds(m, f)
  BY <1>1, Standing
<1>4. ASSUME NEW m, NEW f, Folds(m, f)
      PROVE  SeeksFrom(m)
  <2>1. /\ Good(mr, m, {}) /\ m \in Nat /\ Document = View(mr) /\ sess.level \in 1 .. m
        /\ Len(Document.detail) = m
    BY <1>1, <1>2, <1>4 DEF Folds
  <2>2. Shaped(mr, m) /\ sess.level \in Nat
    BY <2>1, GoodShape
  <2>3. sess.level \in Promise!Levels
    BY <2>1 DEF Promise!Levels
  <2>4. Complete = past /\ past \in Seq(Step) /\ future \in Seq(Step)
    BY <1>1, InvParts DEF Complete
  <2> QED BY <1>1, <2>1, <2>2, <2>3, <2>4 DEF SeeksFrom
<1> QED BY <1>3, <1>4

LEMMA UndoStrokeSim ==
  ASSUME Unmirrored = {}, Inv, Extra, UndoStroke
  PROVE  Promise!Next
<1> DEFINE step == Last(past)
           owing == step.pre
           l == sess.level
           t == Swapped(step, owing)
           o == OtherSide(step)
           x == Mapped(l, step)
<1>1. /\ CanSeek /\ past # <<>> /\ Becomes(t)
      /\ future' = <<o>> \o future /\ past' = Front(past) /\ UNCHANGED <<sess, saved>>
  BY DEF UndoStroke
<1>2. PICK n : SeeksFrom(n)
  BY <1>1, SeeksAt
<1>3. /\ Good(mr, n, {}) /\ l \in 1 .. n /\ Shaped(mr, n) /\ mr.domains[l] # "none"
      /\ History(mr, l, past, future) /\ ~sess.open /\ Complete = past /\ Document = View(mr)
      /\ l \in Promise!Levels /\ l \in Nat /\ past \in Seq(Step) /\ future \in Seq(Step)
  BY <1>2 DEF SeeksFrom
<1>4. PICK e : Undoes(mr, l, past, future, e)
  BY <1>1, <1>3, Undoing
<1>5. Consistent(mr, l, step, e) /\ step \in Step
  BY <1>4 DEF Undoes
<1>6. owing \in BOOLEAN /\ (owing => l >= 2)
  <2>1. step.pre \in BOOLEAN
    BY <1>5 DEF Step
  <2>2. Owed(past, l)
    BY DEF Extra
  <2>3. step.pre \/ step.post => l >= 2
    <3> HIDE DEF l
    <3> QED BY <1>1, <1>3, <2>2, OwedFront
  <2> QED BY <2>1, <2>3
<1> HIDE DEF step
<1>7. Good(t, n, {}) /\ View(t) = Replayed(View(mr), l, step.chan, step.disp, owing)
  <2>1. l \notin Unmirrored => sess.mirror
    BY <1>1, Seeking
  <2> HIDE DEF owing
  <2>2. Good(t, n, {}) /\ t.on = mr.on /\ Under(t, l) = Under(mr, l) /\ t.disp[l] = e
    <3>1. Good(mr, n, {}) /\ Consistent(mr, l, step, e)
      BY <1>3, <1>5
    <3>2. t = Swapped(step, owing)
      OBVIOUS
    <3> HIDE DEF t
    <3> QED BY <1>3, <2>1, <3>1, <3>2, SwappedGood
  <2>3. View(t) = Replayed(View(mr), l, step.chan, step.disp, owing)
    BY <1>3, <1>5, <1>6, SwappedView
  <2> QED BY <2>2, <2>3
<1> HIDE DEF t, owing
<1>8. Document' = Promise!Swapped(x, owing)
  <2>1. Document' = View(t)
    BY <1>1, <1>7, After
  <2>2. Promise!Swapped(x, owing) = Replayed(Document, l, step.chan, step.disp, owing)
    BY PromiseSwapped
  <2> QED BY <1>3, <1>7, <2>1, <2>2
<1>9. Mapped(l, o) = Promise!OtherSide(x) /\ o \in Step
  BY <1>3, <1>5, PromiseOtherSide
<1> HIDE DEF o
<1>10. /\ Log(l, Front(past)) = SubSeq(Log(l, past), 1, Len(Log(l, past)) - 1)
       /\ Log(l, past)[Len(Log(l, past))] = x /\ Log(l, past) # <<>>
       /\ Log(l, <<o>> \o future) = <<Promise!OtherSide(x)>> \o Log(l, future)
  <2> HIDE DEF l
  <2>1. /\ Log(l, Front(past)) = SubSeq(Log(l, past), 1, Len(Log(l, past)) - 1)
        /\ Log(l, past)[Len(Log(l, past))] = x
    BY <1>1, <1>3, LogFront DEF step
  <2>2. Log(l, past) # <<>>
    BY <1>1, <1>3, LogEmpty
  <2>3. Log(l, <<o>> \o future) = <<Mapped(l, o)>> \o Log(l, future)
    BY <1>3, <1>9, LogFirst
  <2> QED BY <1>9, <2>1, <2>2, <2>3
<1>11. x.level = l /\ x.pre = owing
  BY DEF Mapped, owing
<1>12. sess'.level = l /\ Complete' = Front(past) /\ future' = <<o>> \o future
  BY <1>1, <1>3 DEF Complete
<1> DEFINE p == Steps(IF sess.open /\ sess.touched # {} THEN Front(past) ELSE past)
           q == Steps(future)
<1>13. /\ p = Log(l, past) /\ p' = Log(l, Front(past))
       /\ q = Log(l, future) /\ q' = Log(l, <<o>> \o future)
  <2>1. p = Log(l, Complete) /\ q = Log(l, future)
    BY LogsAre
  <2>2. p' = Log(sess'.level, Complete') /\ q' = Log(sess'.level, future')
    BY LogsNext
  <2> HIDE DEF p, q, l
  <2> QED BY <1>3, <1>12, <2>1, <2>2
<1> HIDE DEF x, l
<1>14. Promise!Undo
  <2>1. /\ p # <<>> /\ p[Len(p)].level \in Promise!Levels
        /\ Document' = Promise!Swapped(p[Len(p)], p[Len(p)].pre)
        /\ q' = <<Promise!OtherSide(p[Len(p)])>> \o q
        /\ p' = SubSeq(p, 1, Len(p) - 1)
    <3> HIDE DEF p, q
    <3> QED BY <1>3, <1>8, <1>10, <1>11, <1>13
  <2> QED BY <1>1, <2>1 DEF Promise!Undo
<1> QED BY <1>14 DEF Promise!Next

LEMMA RedoStrokeSim ==
  ASSUME Unmirrored = {}, Inv, Extra, RedoStroke
  PROVE  Promise!Next
<1> DEFINE step == Head(future)
           owing == step.post
           l == sess.level
           t == Swapped(step, owing)
           o == OtherSide(step)
           x == Mapped(l, step)
<1>1. /\ CanSeek /\ future # <<>> /\ Becomes(t)
      /\ past' = Append(past, o) /\ future' = Tail(future) /\ UNCHANGED <<sess, saved>>
  BY DEF RedoStroke
<1>2. PICK n : SeeksFrom(n)
  BY <1>1, SeeksAt
<1>3. /\ Good(mr, n, {}) /\ l \in 1 .. n /\ Shaped(mr, n) /\ mr.domains[l] # "none"
      /\ History(mr, l, past, future) /\ ~sess.open /\ Complete = past /\ Document = View(mr)
      /\ l \in Promise!Levels /\ l \in Nat /\ past \in Seq(Step) /\ future \in Seq(Step)
  BY <1>2 DEF SeeksFrom
<1>4. PICK e : Redoes(mr, l, past, future, e)
  BY <1>1, <1>3, Redoing
<1>5. Consistent(mr, l, step, e) /\ step \in Step
  BY <1>4 DEF Redoes
<1>6. owing \in BOOLEAN /\ (owing => l >= 2)
  <2>1. step.post \in BOOLEAN
    BY <1>5 DEF Step
  <2>2. Owed(future, l)
    BY DEF Extra
  <2>3. step.pre \/ step.post => l >= 2
    <3> HIDE DEF l
    <3> QED BY <1>1, <1>3, <2>2, OwedTail
  <2> QED BY <2>1, <2>3
<1> HIDE DEF step
<1>7. Good(t, n, {}) /\ View(t) = Replayed(View(mr), l, step.chan, step.disp, owing)
  <2>1. l \notin Unmirrored => sess.mirror
    BY <1>1, Seeking
  <2> HIDE DEF owing
  <2>2. Good(t, n, {}) /\ t.on = mr.on /\ Under(t, l) = Under(mr, l) /\ t.disp[l] = e
    <3>1. Good(mr, n, {}) /\ Consistent(mr, l, step, e)
      BY <1>3, <1>5
    <3>2. t = Swapped(step, owing)
      OBVIOUS
    <3> HIDE DEF t
    <3> QED BY <1>3, <2>1, <3>1, <3>2, SwappedGood
  <2>3. View(t) = Replayed(View(mr), l, step.chan, step.disp, owing)
    BY <1>3, <1>5, <1>6, SwappedView
  <2> QED BY <2>2, <2>3
<1> HIDE DEF t, owing
<1>8. Document' = Promise!Swapped(x, owing)
  <2>1. Document' = View(t)
    BY <1>1, <1>7, After
  <2>2. Promise!Swapped(x, owing) = Replayed(Document, l, step.chan, step.disp, owing)
    BY PromiseSwapped
  <2> QED BY <1>3, <1>7, <2>1, <2>2
<1>9. Mapped(l, o) = Promise!OtherSide(x) /\ o \in Step
  BY <1>3, <1>5, PromiseOtherSide
<1> HIDE DEF o
<1>10. /\ Log(l, Tail(future)) = Tail(Log(l, future)) /\ Head(Log(l, future)) = x
       /\ Log(l, future) # <<>>
       /\ Log(l, Append(past, o)) = Append(Log(l, past), Promise!OtherSide(x))
  <2> HIDE DEF l
  <2>1. Log(l, Tail(future)) = Tail(Log(l, future)) /\ Head(Log(l, future)) = x
    BY <1>1, <1>3, LogTail DEF step
  <2>2. Log(l, future) # <<>>
    BY <1>1, <1>3, LogEmpty
  <2>3. Log(l, Append(past, o)) = Append(Log(l, past), Mapped(l, o))
    BY <1>3, <1>9, LogAppend
  <2> QED BY <1>9, <2>1, <2>2, <2>3
<1>11. x.level = l /\ x.post = owing
  BY DEF Mapped, owing
<1>12. sess'.level = l /\ Complete' = Append(past, o) /\ future' = Tail(future)
  BY <1>1, <1>3 DEF Complete
<1> DEFINE p == Steps(IF sess.open /\ sess.touched # {} THEN Front(past) ELSE past)
           q == Steps(future)
<1>13. /\ p = Log(l, past) /\ p' = Log(l, Append(past, o))
       /\ q = Log(l, future) /\ q' = Log(l, Tail(future))
  <2>1. p = Log(l, Complete) /\ q = Log(l, future)
    BY LogsAre
  <2>2. p' = Log(sess'.level, Complete') /\ q' = Log(sess'.level, future')
    BY LogsNext
  <2> HIDE DEF p, q, l
  <2> QED BY <1>3, <1>12, <2>1, <2>2
<1> HIDE DEF x, l
<1>14. Promise!Redo
  <2>1. /\ q # <<>> /\ Head(q).level \in Promise!Levels
        /\ Document' = Promise!Swapped(Head(q), Head(q).post)
        /\ p' = Append(p, Promise!OtherSide(Head(q)))
        /\ q' = Tail(q)
    <3> HIDE DEF p, q
    <3> QED BY <1>3, <1>8, <1>10, <1>11, <1>13
  <2> QED BY <1>1, <2>1 DEF Promise!Redo
<1> QED BY <1>14 DEF Promise!Next

-----------------------------------------------------------------------------
(* The theorem.                                                            *)

LEMMA InitSim == Init => Promise!Init
<1> SUFFICES ASSUME Init PROVE Promise!Init
  OBVIOUS
<1> DEFINE n == host.start
<1>1. n \in 1 .. MaxLevels
  BY StackAssumption DEF Init
<1>2. ~edited /\ ~sess.open /\ past = <<>> /\ future = <<>>
      /\ saved = [detail |-> <<>>, owes |-> {}]
  BY DEF Init, NoSession
<1>3. /\ mr.disp = [l \in 1 .. n |-> Plain] /\ mr.on = [c \in Layers |-> TRUE]
      /\ mr.target = Base /\ mr.debt = {} /\ mr.active = 0
  BY DEF Init
<1>4. Promise!Plain = Plain /\ Promise!Base = Base
  BY DEF Promise!Plain, Plain, Promise!Base, Base, Promise!Flat, Flat, Promise!Channels, Channels
<1>5. Document = [detail |-> [l \in 1 .. n |-> Promise!Plain], on |-> [c \in Layers |-> TRUE],
                  target |-> Promise!Base, owes |-> {}, level |-> 0]
  <2>1. Document = View(mr)
    BY <1>2, DocumentIs DEF DocOf
  <2> HIDE DEF n
  <2> QED BY <1>3, <1>4, <2>1 DEF View
<1> HIDE DEF n
<1>6. /\ Steps(IF sess.open /\ sess.touched # {} THEN Front(past) ELSE past) = <<>>
      /\ Steps(future) = <<>>
  <2>1. Steps(<<>>) = <<>>
    BY DEF Steps
  <2> QED BY <1>2, <2>1
<1> QED BY <1>1, <1>2, <1>5, <1>6 DEF Promise!Init

LEMMA StepSim ==
  ASSUME Unmirrored = {}, Inv, Extra, [Next]_vars
  PROVE  [Promise!Next]_(Promise!vars)
<1>1. CASE UNCHANGED vars
  <2>1. Document' = Document
    BY <1>1, DocumentIs, DocumentNext DEF vars
  <2>2. Complete' = Complete
    BY <1>1 DEF vars, Complete
  <2>3. UNCHANGED Promise!vars
    BY <1>1, <2>1, <2>2, LogStutters DEF vars
  <2> QED BY <2>3
<1>2. CASE SwitchLevel \/ EditTarget \/ EndStroke
  BY <1>2, SwitchLevelSim, EditTargetSim, EndStrokeSim
<1>3. CASE MaterializeLevel \/ FetchDomain \/ WritebackLevel \/ SetMirror \/ Dab
  <2>1. UNCHANGED Promise!vars
    BY <1>3, MaterializeLevelSim, FetchDomainSim, WritebackLevelSim, SetMirrorSim, DabSim
  <2> QED BY <2>1
<1>4. CASE MeshEdit \/ DownRefit \/ SeedLevel \/ FromLevelPositions \/ CaptureToVdm
  <2>1. Promise!Next
    BY <1>4, MeshEditSim, DownRefitSim, SeedLevelSim, FromLevelPositionsSim, CaptureToVdmSim
  <2> QED BY <2>1
<1>5. CASE AddLevel \/ RemoveTopLevel \/ LayerSetEnabled \/ SerializeStore \/ RestoreStore
  <2>1. Promise!Next
    BY <1>5, AddLevelSim, RemoveTopLevelSim, LayerSetEnabledSim, SerializeStoreSim, RestoreStoreSim
  <2> QED BY <2>1
<1>6. CASE OpenSession \/ BeginStroke \/ UndoStroke \/ RedoStroke \/ DropOldest
  <2>1. Promise!Next
    BY <1>6, OpenSessionSim, BeginStrokeSim, UndoStrokeSim, RedoStrokeSim, DropOldestSim
  <2> QED BY <2>1
<1> QED BY <1>1, <1>2, <1>3, <1>4, <1>5, <1>6 DEF Next

\* Extra is an invariant, given the one that precedes it.
LEMMA ExtraInvariance ==
  ASSUME Unmirrored = {}
  PROVE  Spec => []Extra
<1>1. Init => Extra
  BY InitExtra
<1>2. Inv /\ Extra /\ [Next]_vars => Extra'
  BY ExtraStep
<1>3. Spec => []Inv
  BY Invariance
<1> QED BY <1>1, <1>2, <1>3, PTL DEF Spec

\* Where a session copies every dab to the resident slot, the object
\* implements the plain stack of levels, for any number of levels, vertices,
\* layers and slots and any subdivision and fit: no edit is lost or applied
\* twice, a level that is left or refitted hands its detail down once,
\* undoing and redoing a stroke gives back the level's channel and its debt,
\* and which caches, slots and domains there are never shows.
THEOREM ImplementsLevelStack ==
  ASSUME Mirrors \subseteq {TRUE}
  PROVE  Spec => StackSpec
<1>1. Unmirrored = {}
  BY DEF Unmirrored
<1>2. Init => Promise!Init
  BY InitSim
<1>3. Inv /\ Extra /\ [Next]_vars => [Promise!Next]_(Promise!vars)
  BY <1>1, StepSim
<1>4. Spec => []Inv
  BY Invariance
<1>5. Spec => []Extra
  BY <1>1, ExtraInvariance
<1> QED BY <1>2, <1>3, <1>4, <1>5, PTL DEF Spec, StackSpec, Promise!Spec
=============================================================================
