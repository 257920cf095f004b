------------------------- MODULE GridStrokeLogProofs -------------------------
(***************************************************************************)
(* The grids store and the log of its strokes stay well formed, for any    *)
(* surface, depth, layers, kernels and host, and a level added to the      *)
(* store and dropped again leaves it as it was.                            *)
(*                                                                         *)
(* Inv says of the store that its channels have different names and every  *)
(* one all the levels, and of the log that each step keeps parts of levels *)
(* as they can be: what undo puts back fits wherever it still belongs.     *)
(*                                                                         *)
(* Then the readings of a history.  Each point of it between two steps has *)
(* a reading of its own, what a domain and its store hold there, and the   *)
(* steps lead from one reading to the next (Valued): what the host's calls *)
(* and dabs, undo and redo make of the readings, up to what the fold of a  *)
(* stroke captures.  GridStrokeLogCoherence goes on from there.            *)
(***************************************************************************)
EXTENDS GridStrokeLog, SequenceTheorems, FiniteSetTheorems, WellFoundedInduction, TLAPS

-----------------------------------------------------------------------------
(* Loops.                                                                  *)

\* A set of numbers that holds 0 and is closed under the next holds them all.
LEMMA NextIn ==
  ASSUME NEW n \in Nat, NEW P, 0 \in P, \A k \in 1 .. n : k - 1 \in P => k \in P
  PROVE  \A k \in 0 .. n : k \in P
<1> DEFINE T == {k \in 0 .. n : k \notin P}
<1>1. SUFFICES ASSUME T # {} PROVE FALSE
  OBVIOUS
<1>2. T \subseteq Nat
  OBVIOUS
<1>3. PICK k \in T : \A j \in T : ~(<<j, k>> \in OpToRel(<, Nat))
  BY <1>1, <1>2, NatLessThanWellFounded, WFMin
<1>4. \A j \in T : ~(j < k)
  BY <1>2, <1>3 DEF OpToRel
<1>5. k \in 0 .. n /\ k \notin P
  OBVIOUS
<1>6. k \in 1 .. n /\ k - 1 \in 0 .. n /\ k - 1 < k
  BY <1>5
<1>7. k - 1 \in P
  BY <1>4, <1>6
<1> QED BY <1>5, <1>6, <1>7

-----------------------------------------------------------------------------
(* Samples, levels, channels and stores.                                   *)

\* What the levels and the channels of a store of D levels are, tokens below n.
Held == {"none", "chunks", "blob"}
LevelAt(l, n) == [tok : 0 .. n - 1, owes : BOOLEAN, val : [Sites -> Sample(l)], held : Held]
LevelsTo(D, n) ==
  {f \in [1 .. D -> UNION {LevelAt(l, n) : l \in 1 .. D}] : \A l \in 1 .. D : f[l] \in LevelAt(l, n)}
Types == {"float"} \cup {Layers[n].type : n \in DOMAIN Layers}
Channel(D, n) ==
  [name : Names, type : Types, rule : {"authored", "delta"}, persist : BOOLEAN,
   tok : 0 .. n - 1, levels : LevelsTo(D, n)]

\* The stores with channels of these names.
Store(nm, n) == {s \in [DOMAIN nm -> Channel(Depth, n)] : \A c \in DOMAIN nm : s[c].name = nm[c]}

LEMMA LevelsAre ==
  ASSUME NEW D \in Nat, NEW n \in Nat, NEW f
  PROVE  f \in LevelsTo(D, n)
           <=> DOMAIN f = 1 .. D /\ f = [l \in 1 .. D |-> f[l]] /\ \A l \in 1 .. D : f[l] \in LevelAt(l, n)
BY DEF LevelsTo

LEMMA SampleFacts ==
  ASSUME NEW l \in Nat, NEW x \in Sample(l)
  PROVE  x \in Seq(0 .. M - 1) /\ Len(x) = l /\ DOMAIN x = 1 .. l /\ \A k \in 1 .. l : x[k] \in 0 .. M - 1
BY StoreAssumption DEF Sample

LEMMA SampleOf ==
  ASSUME NEW l \in Nat, NEW x \in Seq(0 .. M - 1), Len(x) = l
  PROVE  x \in Sample(l)
<1>1. x \in [1 .. l -> 0 .. M - 1]
  BY LenProperties
<1> QED BY <1>1 DEF Sample

LEMMA ProlongedSample ==
  ASSUME NEW l \in Nat \ {0}, NEW x \in Sample(l)
  PROVE  Prolonged(x) \in Sample(l + 1) /\ Injected(Prolonged(x)) = x
<1>1. x \in Seq(0 .. M - 1) /\ Len(x) = l /\ x[l] \in 0 .. M - 1
  BY SampleFacts
<1>2. Prolonged(x) = Append(x, x[l])
  BY <1>1 DEF Prolonged, Last
<1>3. /\ Append(x, x[l]) \in Seq(0 .. M - 1) /\ Len(Append(x, x[l])) = l + 1
      /\ \A k \in 1 .. l : Append(x, x[l])[k] = x[k]
  BY <1>1
<1>4. Prolonged(x) \in Sample(l + 1)
  <2>1. l + 1 \in Nat
    OBVIOUS
  <2> QED BY <1>2, <1>3, <2>1, SampleOf
<1>5. Front(Append(x, x[l])) = x
  <2>1. Front(Append(x, x[l])) = SubSeq(Append(x, x[l]), 1, l)
    BY <1>3 DEF Front
  <2>2. /\ SubSeq(Append(x, x[l]), 1, l) \in Seq(0 .. M - 1)
        /\ Len(SubSeq(Append(x, x[l]), 1, l)) = l
        /\ \A k \in 1 .. l : SubSeq(Append(x, x[l]), 1, l)[k] = x[k]
    <3> DEFINE y == Append(x, x[l])
    <3>1. y \in Seq(0 .. M - 1) /\ 1 \in 1 .. Len(y) + 1 /\ l \in 0 .. Len(y)
      BY <1>3
    <3>2. \A k \in 1 .. l : y[1 + k - 1] = x[k] /\ 1 + k - 1 = k
      BY <1>3
    <3> HIDE DEF y
    <3>3. SubSeq(y, 1, l) \in Seq(0 .. M - 1) /\ Len(SubSeq(y, 1, l)) = l
      <4>1. \A i \in 1 .. l : y[i] \in 0 .. M - 1
        BY <1>1, <3>2, SampleFacts
      <4>2. 1 \in Int /\ l \in Int /\ 1 <= l
        OBVIOUS
      <4>3. SubSeq(y, 1, l) \in Seq(0 .. M - 1) /\ Len(SubSeq(y, 1, l)) = l - 1 + 1
        BY <4>1, <4>2, SubSeqProperties
      <4> QED BY <4>3
    <3>4. \A k \in 1 .. l : SubSeq(y, 1, l)[k] = y[k]
      BY <3>1
    <3> QED BY <3>2, <3>3, <3>4 DEF y
  <2> QED BY <1>1, <2>1, <2>2, SeqEqual
<1> QED BY <1>2, <1>4, <1>5 DEF Injected

LEMMA InjectedSample ==
  ASSUME NEW l \in Nat \ {0, 1}, NEW x \in Sample(l)
  PROVE  Injected(x) \in Sample(l - 1) /\ Averaged(x) \in Sample(l - 1)
<1>1. x \in Seq(0 .. M - 1) /\ Len(x) = l /\ \A k \in 1 .. l : x[k] \in 0 .. M - 1
  BY SampleFacts
<1>2. Injected(x) \in Sample(l - 1)
  <2>1. SubSeq(x, 1, l - 1) \in Seq(0 .. M - 1) /\ Len(SubSeq(x, 1, l - 1)) = l - 1
    BY <1>1
  <2>2. l - 1 \in Nat /\ Injected(x) = SubSeq(x, 1, l - 1)
    BY <1>1 DEF Injected, Front
  <2> QED BY <2>1, <2>2, SampleOf
<1>3. Averaged(x) = [k \in 1 .. l - 1 |-> (x[k] + x[l]) % M]
  BY <1>1 DEF Averaged, Last
<1>4. \A k \in 1 .. l - 1 : (x[k] + x[l]) % M \in 0 .. M - 1
  BY <1>1, StoreAssumption
<1>5. Averaged(x) \in Sample(l - 1)
  BY <1>3, <1>4 DEF Sample
<1> QED BY <1>2, <1>5

LEMMA AddedSample ==
  ASSUME NEW l \in Nat, NEW x \in Sample(l), NEW d \in [1 .. l -> Int]
  PROVE  Added(x, d) \in Sample(l) /\ Less(x, d) \in Sample(l)
<1>1. DOMAIN x = 1 .. l /\ \A k \in 1 .. l : x[k] \in Int
  BY SampleFacts, StoreAssumption
<1>2. \A k \in 1 .. l : (x[k] + d[k]) % M \in 0 .. M - 1 /\ (x[k] - d[k]) % M \in 0 .. M - 1
  BY <1>1, StoreAssumption
<1> QED BY <1>1, <1>2 DEF Added, Less, Sample

-----------------------------------------------------------------------------
(* Levels of one channel changed.                                          *)

LEMMA LevelPut ==
  ASSUME NEW D \in Nat, NEW n \in Nat, NEW f \in LevelsTo(D, n), NEW l \in 1 .. D,
         NEW r \in LevelAt(l, n)
  PROVE  [f EXCEPT ![l] = r] \in LevelsTo(D, n)
<1>1. DOMAIN f = 1 .. D /\ \A k \in 1 .. D : f[k] \in LevelAt(k, n)
  BY LevelsAre
<1>2. \A k \in 1 .. D : [f EXCEPT ![l] = r][k] \in LevelAt(k, n)
  BY <1>1
<1>3. /\ DOMAIN [f EXCEPT ![l] = r] = 1 .. D
      /\ [f EXCEPT ![l] = r] = [k \in 1 .. D |-> [f EXCEPT ![l] = r][k]]
  BY <1>1
<1> QED BY <1>2, <1>3, LevelsAre

LEMMA LevelFields ==
  ASSUME NEW l, NEW n, NEW r \in LevelAt(l, n)
  PROVE  /\ \A h \in Held : [r EXCEPT !.held = h] \in LevelAt(l, n)
         /\ \A b \in BOOLEAN : [r EXCEPT !.owes = b] \in LevelAt(l, n)
         /\ \A v \in [Sites -> Sample(l)] : [r EXCEPT !.val = v] \in LevelAt(l, n)
         /\ \A v \in [Sites -> Sample(l)], h \in Held :
              /\ [r EXCEPT !.val = v, !.held = h] \in LevelAt(l, n)
              /\ [r EXCEPT !.held = h, !.val = v] \in LevelAt(l, n)
         /\ r.val \in [Sites -> Sample(l)] /\ r.held \in Held /\ r.owes \in BOOLEAN
         /\ r.tok \in 0 .. n - 1
BY Zenon DEF LevelAt

LEMMA ChannelLevels ==
  ASSUME NEW D \in Nat, NEW n \in Nat, NEW ch \in Channel(D, n)
  PROVE  /\ ch.levels \in LevelsTo(D, n) /\ DOMAIN ch.levels = 1 .. D /\ Len(ch.levels) = D
         /\ \A l \in 1 .. D : ch.levels[l] \in LevelAt(l, n)
         /\ ch.name \in Names
<1>1. ch.levels \in LevelsTo(D, n) /\ ch.name \in Names
  BY DEF Channel
<1>2. DOMAIN ch.levels = 1 .. D
  BY <1>1, LevelsAre
<1> QED BY <1>1, <1>2, LevelsAre

LEMMA Relevel ==
  ASSUME NEW D \in Nat, NEW n \in Nat, NEW ch \in Channel(D, n), NEW f \in LevelsTo(D, n)
  PROVE  /\ [ch EXCEPT !.levels = f] \in Channel(D, n)
         /\ [ch EXCEPT !.levels = f].name = ch.name
         /\ [ch EXCEPT !.levels = f].levels = f
BY DEF Channel

\* A level of a channel replaced.
LEMMA RelevelAt ==
  ASSUME NEW D \in Nat, NEW n \in Nat, NEW ch \in Channel(D, n), NEW l \in 1 .. D,
         NEW r \in LevelAt(l, n)
  PROVE  /\ [ch EXCEPT !.levels[l] = r] \in Channel(D, n)
         /\ [ch EXCEPT !.levels[l] = r].name = ch.name
<1>1. [ch.levels EXCEPT ![l] = r] \in LevelsTo(D, n)
  BY ChannelLevels, LevelPut
<1>2. [ch EXCEPT !.levels[l] = r] = [ch EXCEPT !.levels = [ch.levels EXCEPT ![l] = r]]
  OBVIOUS
<1> QED BY <1>1, <1>2, Relevel

LEMMA TouchedIs ==
  ASSUME NEW D \in Nat, NEW n \in Nat, NEW ch \in Channel(D, n), NEW l \in 1 .. D
  PROVE  Touched(ch, l) \in Channel(D, n) /\ Touched(ch, l).name = ch.name
<1>1. ch.levels[l] \in LevelAt(l, n) /\ DOMAIN ch.levels = 1 .. D
  BY ChannelLevels
<1>2. [ch.levels[l] EXCEPT !.held = "chunks"] \in LevelAt(l, n)
  BY Zenon, <1>1, LevelFields DEF Held
<1>3. Touched(ch, l) = [ch EXCEPT !.levels[l] = [ch.levels[l] EXCEPT !.held = "chunks"]]
  BY DEF Touched
<1> QED BY <1>2, <1>3, RelevelAt

LEMMA RevaluedIs ==
  ASSUME NEW D \in Nat, NEW n \in Nat, NEW ch \in Channel(D, n), NEW l \in 1 .. D,
         NEW v \in [Sites -> Sample(l)]
  PROVE  /\ [ch EXCEPT !.levels[l].val = v] \in Channel(D, n)
         /\ [ch EXCEPT !.levels[l].val = v].name = ch.name
         /\ [ch EXCEPT !.levels[l].val = v].levels[l].val = v
<1> DEFINE r == [ch.levels[l] EXCEPT !.val = v]
<1>1. ch.levels[l] \in LevelAt(l, n) /\ DOMAIN ch.levels = 1 .. D
  BY ChannelLevels
<1>2. r \in LevelAt(l, n) /\ r.val = v
  BY <1>1, LevelFields DEF LevelAt
<1>3. [ch EXCEPT !.levels[l].val = v] = [ch EXCEPT !.levels[l] = r]
  OBVIOUS
<1> HIDE DEF r
<1>4. [ch EXCEPT !.levels[l] = r].levels[l] = r
  BY <1>1 DEF Channel
<1> QED BY <1>2, <1>3, <1>4, RelevelAt

LEMMA SeededIs ==
  ASSUME NEW D \in Nat, NEW n \in Nat, NEW f \in LevelsTo(D, n), NEW l \in 1 .. D
  PROVE  SeededFromBelow(f, l) \in LevelsTo(D, n)
<1>1. \A k \in 1 .. D : f[k] \in LevelAt(k, n)
  BY LevelsAre
<1>2. CASE ~(l < 2 \/ f[l - 1].held = "none")
  <2> DEFINE v == [x \in Sites |-> Prolonged(f[l - 1].val[x])]
             r == [f[l] EXCEPT !.val = v, !.held = "chunks"]
             q == [f[l - 1] EXCEPT !.held = "chunks"]
  <2>1. l - 1 \in 1 .. D /\ l - 1 \in Nat \ {0} /\ l - 1 # l /\ l - 1 + 1 = l
    BY <1>2
  <2>2. \A x \in Sites : f[l - 1].val[x] \in Sample(l - 1)
    BY Zenon, <1>1, <2>1, LevelFields
  <2>3. \A x \in Sites : Prolonged(f[l - 1].val[x]) \in Sample(l)
    BY <2>1, <2>2, ProlongedSample
  <2>4. v \in [Sites -> Sample(l)]
    BY <2>3
  <2> HIDE DEF v
  <2>5. r \in LevelAt(l, n) /\ q \in LevelAt(l - 1, n)
    BY Zenon, <1>1, <2>1, <2>4, LevelFields DEF Held
  <2>6. SeededFromBelow(f, l) = [[f EXCEPT ![l] = r] EXCEPT ![l - 1] = q]
    <3>1. DOMAIN f = 1 .. D /\ f = [k \in 1 .. D |-> f[k]]
      BY LevelsAre
    <3> QED BY <1>2, <2>1, <3>1 DEF SeededFromBelow, v
  <2> HIDE DEF r, q
  <2>7. [f EXCEPT ![l] = r] \in LevelsTo(D, n)
    BY <2>1, <2>5, LevelPut
  <2>8. [[f EXCEPT ![l] = r] EXCEPT ![l - 1] = q] \in LevelsTo(D, n)
    <3> DEFINE g == [f EXCEPT ![l] = r]
    <3> HIDE DEF g
    <3>1. g \in LevelsTo(D, n)
      BY <2>7 DEF g
    <3>2. [g EXCEPT ![l - 1] = q] \in LevelsTo(D, n)
      BY <2>1, <2>5, <3>1, LevelPut
    <3> QED BY <3>2 DEF g
  <2> QED BY <2>6, <2>8
<1> QED BY <1>2 DEF SeededFromBelow

LEMMA RestrictedIs ==
  ASSUME NEW D \in Nat, NEW n \in Nat, NEW f \in LevelsTo(D, n), NEW l \in 1 .. D
  PROVE  RestrictedToBelow(f, l) \in LevelsTo(D, n)
<1>1. \A k \in 1 .. D : f[k] \in LevelAt(k, n)
  BY LevelsAre
<1>2. CASE ~(l < 2 \/ f[l].held = "none")
  <2> DEFINE v == [x \in Sites |-> Injected(f[l].val[x])]
             r == [f[l] EXCEPT !.held = "chunks"]
             q == [f[l - 1] EXCEPT !.val = v, !.held = "chunks"]
  <2>1. l - 1 \in 1 .. D /\ l \in Nat \ {0, 1} /\ l - 1 # l
    BY <1>2
  <2>2. \A x \in Sites : f[l].val[x] \in Sample(l)
    BY Zenon, <1>1, <2>1, LevelFields
  <2>3. \A x \in Sites : Injected(f[l].val[x]) \in Sample(l - 1)
    BY <2>1, <2>2, InjectedSample
  <2>4. v \in [Sites -> Sample(l - 1)]
    BY <2>3
  <2> HIDE DEF v
  <2>5. r \in LevelAt(l, n) /\ q \in LevelAt(l - 1, n)
    BY Zenon, <1>1, <2>1, <2>4, LevelFields DEF Held
  <2>6. RestrictedToBelow(f, l) = [[f EXCEPT ![l - 1] = q] EXCEPT ![l] = r]
    <3>1. DOMAIN f = 1 .. D /\ f = [k \in 1 .. D |-> f[k]]
      BY LevelsAre
    <3> QED BY <1>2, <2>1, <3>1 DEF RestrictedToBelow, v
  <2> HIDE DEF r, q
  <2>7. [f EXCEPT ![l - 1] = q] \in LevelsTo(D, n)
    BY <2>1, <2>5, LevelPut
  <2>8. [[f EXCEPT ![l - 1] = q] EXCEPT ![l] = r] \in LevelsTo(D, n)
    <3> DEFINE g == [f EXCEPT ![l - 1] = q]
    <3> HIDE DEF g
    <3>1. g \in LevelsTo(D, n)
      BY <2>7 DEF g
    <3>2. [g EXCEPT ![l] = r] \in LevelsTo(D, n)
      BY <2>1, <2>5, <3>1, LevelPut
    <3> QED BY <3>2 DEF g
  <2> QED BY <2>6, <2>8
<1> QED BY <1>2 DEF RestrictedToBelow

-----------------------------------------------------------------------------
(* Folds up the levels.                                                    *)

\* A loop of n rounds over S from base, round k as the function g[k], and a run.
Rounds(n, S, g) == g \in [1 .. n -> [S -> S]]
IsRun(f, n, S, base, g) ==
  f \in [0 .. n -> S] /\ f[0] = base /\ \A k \in 1 .. n : f[k] = g[k][f[k - 1]]

\* There is one.
LEMMA RunExists ==
  ASSUME NEW n \in Nat, NEW S, NEW base \in S, NEW g, Rounds(n, S, g)
  PROVE  \E f : IsRun(f, n, S, base, g)
<1>0. g \in [1 .. n -> [S -> S]]
  BY DEF Rounds
<1> DEFINE Run(f, m) == f \in [0 .. m -> S] /\ f[0] = base
                        /\ \A k \in 1 .. m : f[k] = g[k][f[k - 1]]
           P == {m \in 0 .. n : \E f : Run(f, m)}
<1>1. 0 \in P
  <2>1. Run([k \in 0 .. 0 |-> base], 0)
    OBVIOUS
  <2> HIDE DEF Run
  <2> QED BY <2>1
<1>2. ASSUME NEW m \in 1 .. n, m - 1 \in P
      PROVE  m \in P
  <2>1. PICK f : Run(f, m - 1)
    BY <1>2
  <2> DEFINE h == [k \in 0 .. m |-> IF k = m THEN g[m][f[m - 1]] ELSE f[k]]
  <2>2. f[m - 1] \in S /\ g[m][f[m - 1]] \in S
    BY <1>0, <2>1
  <2>3. h \in [0 .. m -> S]
    <3>1. \A k \in 0 .. m : k # m => k \in 0 .. m - 1
      OBVIOUS
    <3> QED BY <2>1, <2>2, <3>1
  <2>4. h[0] = base
    BY <2>1
  <2>5. ASSUME NEW k \in 1 .. m PROVE h[k] = g[k][h[k - 1]]
    <3>1. k - 1 \in 0 .. m - 1 /\ k - 1 # m /\ k - 1 \in 0 .. m /\ k \in 0 .. m
      OBVIOUS
    <3>2. h[k - 1] = f[k - 1]
      BY <3>1
    <3>3. CASE k = m
      BY <3>2, <3>3
    <3>4. CASE k # m
      <4>1. k \in 1 .. m - 1 /\ h[k] = f[k]
        BY <3>4
      <4> QED BY <2>1, <3>2, <4>1
    <3> QED BY <3>3, <3>4
  <2> HIDE DEF h
  <2>6. Run(h, m)
    BY <2>3, <2>4, <2>5
  <2> QED BY <2>6
<1>3. n \in P
  <2> HIDE DEF P
  <2>1. \A k \in 0 .. n : k \in P
    BY <1>1, <1>2, NextIn
  <2> QED BY <2>1
<1> QED BY <1>3 DEF IsRun

LEMMA ScatteredIs ==
  ASSUME NEW D \in Nat, NEW n \in Nat, NEW ch \in Channel(D, n), NEW l \in 1 .. D,
         NEW d \in [Verts -> Sample(l)], NEW vs
  PROVE  /\ Scattered(ch, l, d, vs) \in Channel(D, n)
         /\ Scattered(ch, l, d, vs).name = ch.name
         /\ Scattered(ch, l, d, vs).levels[l].val \in [Sites -> Sample(l)]
<1> DEFINE u == Touched(ch, l)
           v == [x \in Sites |-> IF x[2] \in vs THEN d[x[2]] ELSE u.levels[l].val[x]]
<1>1. u \in Channel(D, n) /\ u.name = ch.name
  BY TouchedIs
<1>2. u.levels[l].val \in [Sites -> Sample(l)]
  <2> HIDE DEF u
  <2>1. u.levels[l] \in LevelAt(l, n)
    BY <1>1, ChannelLevels
  <2> QED BY Zenon, <2>1, LevelFields
<1>3. v \in [Sites -> Sample(l)]
  <2>1. \A x \in Sites : x[2] \in Verts
    BY DEF Sites
  <2> HIDE DEF u
  <2> QED BY <1>2, <2>1
<1>4. Scattered(ch, l, d, vs) = [u EXCEPT !.levels[l].val = v]
  BY DEF Scattered
<1> HIDE DEF v
<1> HIDE DEF u
<1>5. /\ [u EXCEPT !.levels[l].val = v] \in Channel(D, n)
      /\ [u EXCEPT !.levels[l].val = v].name = u.name
      /\ [u EXCEPT !.levels[l].val = v].levels[l].val = v
  BY <1>1, <1>3, RevaluedIs
<1> QED BY <1>1, <1>3, <1>4, <1>5

LEMMA NoteEditIs ==
  ASSUME NEW D \in Nat, NEW n \in Nat, NEW ch \in Channel(D, n), NEW l \in 1 .. D
  PROVE  NoteEdit(ch, l) \in Channel(D, n) /\ NoteEdit(ch, l).name = ch.name
<1> DEFINE r == [ch.levels[l] EXCEPT !.owes = TRUE]
<1>1. r \in LevelAt(l, n)
  BY Zenon, ChannelLevels, LevelFields
<1>2. [ch EXCEPT !.levels[l].owes = TRUE] = [ch EXCEPT !.levels[l] = r]
  OBVIOUS
<1> HIDE DEF r
<1> QED BY <1>1, <1>2, RelevelAt DEF NoteEdit

LEMMA RestrictDownIs ==
  ASSUME NEW D \in Nat, NEW n \in Nat, NEW ch \in Channel(D, n), NEW l \in 2 .. D
  PROVE  RestrictChannelDown(ch, l) \in Channel(D, n) /\ RestrictChannelDown(ch, l).name = ch.name
<1>1. l \in 1 .. D /\ l - 1 \in 1 .. D /\ l - 1 # l /\ l \in Nat \ {0, 1}
  OBVIOUS
<1>2. /\ ch.levels \in LevelsTo(D, n) /\ DOMAIN ch.levels = 1 .. D
      /\ ch.levels[l] \in LevelAt(l, n) /\ ch.levels[l - 1] \in LevelAt(l - 1, n)
  BY <1>1, ChannelLevels
<1>3. CASE ch.levels[l].held = "none"
  BY <1>3 DEF RestrictChannelDown
<1>4. CASE ch.levels[l].held # "none" /\ ch.type # "float"
  <2>1. RestrictedToBelow(ch.levels, l) \in LevelsTo(D, n)
    BY <1>1, <1>2, RestrictedIs
  <2>2. RestrictChannelDown(ch, l) = [ch EXCEPT !.levels = RestrictedToBelow(ch.levels, l)]
    BY <1>4 DEF RestrictChannelDown
  <2> QED BY <2>1, <2>2, Relevel
<1>5. CASE ch.levels[l].held # "none" /\ ch.type = "float"
  <2> DEFINE v == [x \in Sites |-> Averaged(ch.levels[l].val[x])]
             r == [ch.levels[l] EXCEPT !.held = "chunks"]
             q == [ch.levels[l - 1] EXCEPT !.val = v, !.held = "chunks"]
             f == [ch.levels EXCEPT ![l - 1] = q]
             g == [f EXCEPT ![l] = r]
  <2>1. \A x \in Sites : ch.levels[l].val[x] \in Sample(l)
    BY Zenon, <1>2, LevelFields
  <2>2. v \in [Sites -> Sample(l - 1)]
    BY <1>1, <2>1, InjectedSample
  <2>3. RestrictChannelDown(ch, l) = [ch EXCEPT !.levels = g]
    BY <1>1, <1>2, <1>5 DEF RestrictChannelDown
  <2> HIDE DEF v
  <2>4. r \in LevelAt(l, n) /\ q \in LevelAt(l - 1, n)
    BY Zenon, <1>2, <2>2, LevelFields DEF Held
  <2> HIDE DEF r, q
  <2>5. f \in LevelsTo(D, n)
    BY <1>1, <1>2, <2>4, LevelPut
  <2> HIDE DEF f
  <2>6. g \in LevelsTo(D, n)
    BY <1>1, <2>4, <2>5, LevelPut
  <2> HIDE DEF g
  <2> QED BY <2>3, <2>6, Relevel
<1> QED BY <1>3, <1>4, <1>5

\* Seeds, and levels just allocated.
LEMMA SeedIs ==
  ASSUME NEW l \in Nat, NEW n \in Names
  PROVE  Seed(n, l) \in [Sites -> Sample(l)] /\ Blank(l) \in [Sites -> Sample(l)]
<1>1. Blank(l) \in [Sites -> Sample(l)]
  BY StoreAssumption DEF Blank, Zero, Sample
<1>2. ASSUME n \in DOMAIN Layers
      PROVE  Seed(n, l) \in [Sites -> Sample(l)]
  <2>1. Layers[n].seed \in 0 .. M - 1
    BY <1>2, LogAssumption
  <2> QED BY <1>2, <2>1 DEF Seed, Sample
<1> QED BY <1>1, <1>2 DEF Seed

LEMMA NewChannelIs ==
  ASSUME NEW D \in Nat, NEW n \in Nat, NEW name \in Names, NEW type \in Types,
         NEW rule \in {"authored", "delta"}, NEW persist \in BOOLEAN, NEW tok \in Nat, tok + D < n
  PROVE  /\ NewChannel(name, type, rule, persist, D, tok) \in Channel(D, n)
         /\ NewChannel(name, type, rule, persist, D, tok).name = name
<1> DEFINE f == [l \in 1 .. D |-> AllocLevel(rule, l, tok + l)]
<1>1. ASSUME NEW l \in 1 .. D PROVE f[l] \in LevelAt(l, n)
  <2>1. tok + l \in 0 .. n - 1 /\ l \in Nat
    OBVIOUS
  <2>2. Blank(l) \in [Sites -> Sample(l)]
    <3>1. "disp" \in Names
      BY DEF Names
    <3> QED BY <2>1, <3>1, SeedIs
  <2> QED BY <2>1, <2>2 DEF AllocLevel, LevelAt, Held
<1>2. DOMAIN f = 1 .. D /\ f = [l \in 1 .. D |-> f[l]]
  OBVIOUS
<1>3. tok \in 0 .. n - 1
  OBVIOUS
<1>4. NewChannel(name, type, rule, persist, D, tok)
        = [name |-> name, type |-> type, rule |-> rule, persist |-> persist, tok |-> tok,
           levels |-> f]
  BY DEF NewChannel
<1> HIDE DEF f
<1>5. f \in LevelsTo(D, n)
  BY <1>1, <1>2, LevelsAre
<1> QED BY <1>3, <1>4, <1>5 DEF Channel

LEMMA FieldChannelIs ==
  ASSUME NEW n \in Nat, NEW name \in {"mask"} \cup DOMAIN Layers, NEW tok \in Nat, tok + Depth < n
  PROVE  FieldChannel(name, tok) \in Channel(Depth, n) /\ FieldChannel(name, tok).name = name
<1>1. Depth \in Nat /\ name \in Names
  BY LogAssumption DEF Names
<1>2. CASE name = "mask"
  <2>1. "float" \in Types
    BY DEF Types
  <2>2. PICK b \in BOOLEAN : FieldChannel(name, tok) = NewChannel(name, "float", "authored", b, Depth, tok)
    BY <1>2, Zenon DEF FieldChannel
  <2>3. /\ NewChannel(name, "float", "authored", b, Depth, tok) \in Channel(Depth, n)
        /\ NewChannel(name, "float", "authored", b, Depth, tok).name = name
    BY <1>1, <2>1, NewChannelIs
  <2> QED BY <2>2, <2>3
<1>3. CASE name # "mask"
  <2>1. Layers[name].type \in Types /\ Layers[name].persist \in BOOLEAN
    BY <1>3, LogAssumption DEF Types
  <2>2. FieldChannel(name, tok)
          = NewChannel(name, Layers[name].type, "authored", Layers[name].persist, Depth, tok)
    BY <1>3 DEF FieldChannel
  <2>3. /\ NewChannel(name, Layers[name].type, "authored", Layers[name].persist, Depth, tok) \in Channel(Depth, n)
        /\ NewChannel(name, Layers[name].type, "authored", Layers[name].persist, Depth, tok).name = name
    BY <1>1, <2>1, NewChannelIs
  <2> QED BY <2>2, <2>3
<1> QED BY <1>2, <1>3

\* What reaches level n of an edit of level l.
Reaching(delta, l, x, n) == [k \in 1 .. n |-> IF k <= l THEN delta[x][k] ELSE delta[x][l]]
Reached(delta, l, levels, n) ==
  IF levels[n].held = "none" THEN SeededFromBelow(levels, n)
  ELSE [levels EXCEPT ![n].val = [x \in Sites |-> Added(@[x], Reaching(delta, l, x, n))],
                      ![n].held = "chunks"]

LEMMA ReachedIs ==
  ASSUME NEW D \in Nat, NEW n \in Nat, NEW f \in LevelsTo(D, n), NEW l \in 1 .. D,
         NEW delta \in [Sites -> [1 .. l -> Int]], NEW m \in 1 .. D
  PROVE  Reached(delta, l, f, m) \in LevelsTo(D, n)
<1>1. DOMAIN f = 1 .. D /\ f[m] \in LevelAt(m, n)
  BY LevelsAre
<1>2. CASE f[m].held = "none"
  BY <1>2, SeededIs DEF Reached
<1>3. CASE f[m].held # "none"
  <2> DEFINE v == [x \in Sites |-> Added(f[m].val[x], Reaching(delta, l, x, m))]
             r == [f[m] EXCEPT !.val = v, !.held = "chunks"]
  <2>0. f[m].val \in [Sites -> Sample(m)]
    BY Zenon, <1>1, LevelFields
  <2>1. \A x \in Sites : f[m].val[x] \in Sample(m)
    BY <2>0
  <2>2. ASSUME NEW x \in Sites PROVE Reaching(delta, l, x, m) \in [1 .. m -> Int]
    <3>1. \A k \in 1 .. m : (k <= l => delta[x][k] \in Int) /\ delta[x][l] \in Int
      OBVIOUS
    <3> QED BY <3>1 DEF Reaching
  <2>3. m \in Nat
    OBVIOUS
  <2>4. v \in [Sites -> Sample(m)]
    BY <2>1, <2>2, <2>3, AddedSample
  <2> HIDE DEF v
  <2>5. r \in LevelAt(m, n)
    BY Zenon, <1>1, <2>4, LevelFields DEF Held
  <2>6. Reached(delta, l, f, m) = [f EXCEPT ![m] = r]
    BY <1>1, <1>3 DEF Reached, v
  <2> HIDE DEF r
  <2>7. [f EXCEPT ![m] = r] \in LevelsTo(D, n)
    BY <2>5, LevelPut
  <2> QED BY <2>6, <2>7
<1> QED BY <1>2, <1>3

\* Levels f as they are when an edit of level l has reached level m.
Climbs(u, f, l, delta, D) ==
  u[l] = f /\ \A m \in l .. D : m # l => u[m] = Reached(delta, l, u[m - 1], m)

LEMMA ProlongateClimbs ==
  ASSUME NEW D \in Nat, NEW n \in Nat, NEW ch \in Channel(D, n), NEW l \in 1 .. D,
         NEW delta \in [Sites -> [1 .. l -> Int]]
  PROVE  \E u : /\ \A m \in l .. D : u[m] \in LevelsTo(D, n)
               /\ Climbs(u, ch.levels, l, delta, D)
               /\ \/ ProlongateEditUp(ch, l, delta) = ch
                  \/ ProlongateEditUp(ch, l, delta) = [ch EXCEPT !.levels = u[D]]
<1> DEFINE S == LevelsTo(D, n)
           G(u) == [m \in l .. D |-> IF m = l THEN ch.levels ELSE Reached(delta, l, u[m - 1], m)]
           upto == CHOOSE u : u = G(u)
           round(k) == [f \in S |-> Reached(delta, l, f, l + k)]
           g == [k \in 1 .. D - l |-> round(k)]
<1>1. ch.levels \in S /\ Len(ch.levels) = D
  BY ChannelLevels
<1>2. /\ D - l \in Nat /\ \A k \in 0 .. D - l : l + k \in l .. D
      /\ \A m \in l .. D : m - l \in 0 .. D - l /\ (m # l => m - l \in 1 .. D - l /\ m - 1 \in l .. D)
  OBVIOUS
<1>3. \A k \in 1 .. D - l : \A f \in S : Reached(delta, l, f, l + k) \in S
  <2>1. \A k \in 1 .. D - l : l + k \in 1 .. D
    OBVIOUS
  <2> HIDE DEF S
  <2> QED BY <2>1, ReachedIs DEF S
<1>4. Rounds(D - l, S, g)
  <2> HIDE DEF S
  <2> QED BY <1>3 DEF Rounds
<1>5. PICK r : IsRun(r, D - l, S, ch.levels, g)
  <2> HIDE DEF S, g
  <2> QED BY <1>1, <1>2, <1>4, RunExists
<1>6. \A k \in 1 .. D - l : r[k] = Reached(delta, l, r[k - 1], l + k)
  <2>1. \A k \in 1 .. D - l : k - 1 \in 0 .. D - l
    OBVIOUS
  <2> HIDE DEF S
  <2>2. \A k \in 1 .. D - l : r[k - 1] \in S /\ r[k] = g[k][r[k - 1]]
    BY <1>5, <2>1 DEF IsRun
  <2> QED BY <2>2
<1>7. [m \in l .. D |-> r[m - l]] = G([m \in l .. D |-> r[m - l]])
  <2> DEFINE h == [m \in l .. D |-> r[m - l]]
  <2>1. \A m \in l .. D : m # l => r[m - l] = Reached(delta, l, h[m - 1], m)
    <3> SUFFICES ASSUME NEW m \in l .. D, m # l PROVE r[m - l] = Reached(delta, l, h[m - 1], m)
      OBVIOUS
    <3>1. m - l \in 1 .. D - l /\ m - 1 \in l .. D /\ m - 1 - l = m - l - 1 /\ l + (m - l) = m
      OBVIOUS
    <3>2. h[m - 1] = r[m - l - 1]
      BY <3>1
    <3> HIDE DEF h
    <3>3. r[m - l] = Reached(delta, l, r[m - l - 1], l + (m - l))
      BY <1>6, <3>1
    <3> QED BY <3>1, <3>2, <3>3
  <2>2. r[l - l] = ch.levels
    BY <1>5 DEF IsRun
  <2> HIDE DEF S, g
  <2>3. h = [m \in l .. D |-> IF m = l THEN ch.levels ELSE Reached(delta, l, h[m - 1], m)]
    <3>1. \A m \in l .. D : r[m - l] = IF m = l THEN ch.levels ELSE Reached(delta, l, h[m - 1], m)
      BY <2>1, <2>2
    <3> QED BY <3>1
  <2> QED BY <2>3
<1>8. upto = G(upto)
  <2> HIDE DEF G
  <2> QED BY <1>7
<1> HIDE DEF upto
<1>9. ASSUME NEW m \in l .. D PROVE upto[m] \in S
  <2> DEFINE P == {k \in 0 .. D - l : upto[l + k] \in S}
  <2>1. 0 \in P
    BY <1>1, <1>2, <1>8
  <2>2. ASSUME NEW k \in 1 .. D - l, k - 1 \in P PROVE k \in P
    <3>1. l + k \in l .. D /\ l + k # l /\ l + k - 1 = l + (k - 1)
      BY <1>2
    <3>2. upto[l + k] = Reached(delta, l, upto[l + (k - 1)], l + k)
      BY <1>8, <3>1
    <3>3. upto[l + (k - 1)] \in S
      BY <2>2
    <3> HIDE DEF S
    <3>4. upto[l + k] \in S
      BY <1>3, <3>2, <3>3
    <3> QED BY <3>4
  <2> HIDE DEF P
  <2>3. \A k \in 0 .. D - l : k \in P
    BY <1>2, <2>1, <2>2, NextIn
  <2>4. m - l \in P /\ l + (m - l) = m
    BY <1>2, <2>3
  <2> QED BY <2>4 DEF P
<1>10. \/ ProlongateEditUp(ch, l, delta) = ch
       \/ ProlongateEditUp(ch, l, delta) = [ch EXCEPT !.levels = upto[D]]
  BY <1>1 DEF ProlongateEditUp, upto, Reached, Reaching
<1>11. Climbs(upto, ch.levels, l, delta, D)
  BY <1>2, <1>8 DEF Climbs
<1> HIDE DEF G
<1> QED BY <1>9, <1>10, <1>11

LEMMA ProlongateIs ==
  ASSUME NEW D \in Nat, NEW n \in Nat, NEW ch \in Channel(D, n), NEW l \in 1 .. D,
         NEW delta \in [Sites -> [1 .. l -> Int]]
  PROVE  /\ ProlongateEditUp(ch, l, delta) \in Channel(D, n)
         /\ ProlongateEditUp(ch, l, delta).name = ch.name
<1>1. PICK u : /\ \A m \in l .. D : u[m] \in LevelsTo(D, n)
               /\ \/ ProlongateEditUp(ch, l, delta) = ch
                  \/ ProlongateEditUp(ch, l, delta) = [ch EXCEPT !.levels = u[D]]
  BY ProlongateClimbs
<1> DEFINE f == u[D]
<1>2. f \in LevelsTo(D, n)
  BY <1>1
<1> HIDE DEF f
<1>3. [ch EXCEPT !.levels = f] \in Channel(D, n) /\ [ch EXCEPT !.levels = f].name = ch.name
  BY <1>2, Relevel
<1> QED BY <1>1, <1>3 DEF f

LEMMA FlushedIs ==
  ASSUME NEW D \in Nat, NEW n \in Nat, NEW ch \in Channel(D, n), NEW l \in 1 .. D,
         NEW d \in [Verts -> Sample(l)], NEW vs
  PROVE  Flushed(ch, l, d, vs) \in Channel(D, n) /\ Flushed(ch, l, d, vs).name = ch.name
<1> DEFINE t == Scattered(ch, l, d, vs)
           delta == [x \in Sites |-> Less(t.levels[l].val[x], ch.levels[l].val[x])]
           p == ProlongateEditUp(t, l, delta)
<1>1. t \in Channel(D, n) /\ t.name = ch.name /\ t.levels[l].val \in [Sites -> Sample(l)]
  BY ScatteredIs
<1> HIDE DEF t
<1>2. ch.levels[l].val \in [Sites -> Sample(l)]
  BY Zenon, ChannelLevels, LevelFields
<1>3. l \in Nat /\ \A x \in Sample(l) : x \in [1 .. l -> Int]
  BY StoreAssumption DEF Sample
<1>4. delta \in [Sites -> [1 .. l -> Int]]
  <2>1. \A x \in Sites : Less(t.levels[l].val[x], ch.levels[l].val[x]) \in Sample(l)
    BY <1>1, <1>2, <1>3, AddedSample
  <2> QED BY <1>3, <2>1
<1>5. Flushed(ch, l, d, vs) = NoteEdit(p, l)
  BY DEF Flushed, t
<1> HIDE DEF delta
<1>6. p \in Channel(D, n) /\ p.name = ch.name
  BY <1>1, <1>4, ProlongateIs
<1> HIDE DEF p
<1> QED BY <1>5, <1>6, NoteEditIs

\* A layer channel shows its seed when it is first painted on.
LEMMA SeededChannel ==
  ASSUME NEW n \in Nat, NEW ch \in Channel(Depth, n)
  PROVE  Seeded(ch) \in Channel(Depth, n) /\ Seeded(ch).name = ch.name
<1> DEFINE u == Touched(ch, L)
<1>1. Depth \in Nat /\ L \in 1 .. Depth /\ L \in Nat /\ ch.name \in Names
  BY LogAssumption, ChannelLevels
<1>2. u \in Channel(Depth, n) /\ u.name = ch.name
  BY <1>1, TouchedIs
<1>3. Seeded(ch) = ch \/ Seeded(ch) = [u EXCEPT !.levels[L].val = Seed(ch.name, L)]
  BY DEF Seeded
<1>4. Seed(ch.name, L) \in [Sites -> Sample(L)]
  BY <1>1, SeedIs
<1> HIDE DEF u
<1>5. /\ [u EXCEPT !.levels[L].val = Seed(ch.name, L)] \in Channel(Depth, n)
      /\ [u EXCEPT !.levels[L].val = Seed(ch.name, L)].name = u.name
  BY <1>1, <1>2, <1>4, RevaluedIs
<1> QED BY <1>2, <1>3, <1>5

-----------------------------------------------------------------------------
(* Stores.                                                                 *)

\* The names of a store: at least one, each of them once.
Named(nm) ==
  /\ nm \in Seq(Names) /\ Len(nm) >= 1
  /\ \A c, d \in DOMAIN nm : nm[c] = nm[d] => c = d

LEMMA StoreHas ==
  ASSUME NEW nm, NEW n \in Nat, NEW s \in Store(nm, n), NEW c \in DOMAIN nm
  PROVE  /\ s[c] \in Channel(Depth, n) /\ s[c].name = nm[c] /\ DOMAIN s = DOMAIN nm
         /\ DOMAIN s[c].levels = 1 .. Depth /\ Len(s[c].levels) = Depth
         /\ \A l \in 1 .. Depth : s[c].levels[l] \in LevelAt(l, n)
<1>1. s[c] \in Channel(Depth, n) /\ s[c].name = nm[c] /\ DOMAIN s = DOMAIN nm
  BY DEF Store
<1>2. Depth \in Nat
  BY LogAssumption
<1> QED BY <1>1, <1>2, ChannelLevels

LEMMA StoreLevel ==
  ASSUME NEW nm, NEW n \in Nat, NEW s \in Store(nm, n), NEW c \in DOMAIN nm, NEW l \in Levels
  PROVE  /\ s[c].levels[l] \in LevelAt(l, n)
         /\ s[c].levels[l].val \in [Sites -> Sample(l)] /\ s[c].levels[l].held \in Held
         /\ s[c].levels[l].owes \in BOOLEAN /\ s[c].levels[l].tok \in 0 .. n - 1
<1>1. s[c].levels[l] \in LevelAt(l, n)
  BY StoreHas DEF Levels
<1> HIDE DEF LevelAt
<1> QED BY Zenon, <1>1, LevelFields

LEMMA StoreBy ==
  ASSUME NEW nm, NEW n \in Nat, NEW u, DOMAIN u = DOMAIN nm, u = [c \in DOMAIN nm |-> u[c]],
         \A c \in DOMAIN nm : u[c] \in Channel(Depth, n) /\ u[c].name = nm[c]
  PROVE  u \in Store(nm, n)
BY DEF Store

LEMMA FindIs ==
  ASSUME NEW nm, Named(nm), NEW n \in Nat, NEW s \in Store(nm, n), NEW name
  PROVE  /\ FindChannel(s, name) = 0 <=> \A c \in DOMAIN nm : nm[c] # name
         /\ FindChannel(s, name) # 0
              => FindChannel(s, name) \in DOMAIN nm /\ nm[FindChannel(s, name)] = name
<1>1. 0 \notin DOMAIN nm
  BY DEF Named
<1>2. DOMAIN s = DOMAIN nm /\ \A c \in DOMAIN nm : s[c].name = nm[c]
  BY DEF Store
<1> QED BY <1>1, <1>2 DEF FindChannel

\* Tokens may be used up.
LEMMA LevelGrows ==
  ASSUME NEW l, NEW n \in Nat, NEW m \in Nat, n <= m
  PROVE  LevelAt(l, n) \subseteq LevelAt(l, m)
<1>1. 0 .. n - 1 \subseteq 0 .. m - 1
  OBVIOUS
<1> QED BY <1>1 DEF LevelAt

LEMMA ChannelGrows ==
  ASSUME NEW D \in Nat, NEW n \in Nat, NEW m \in Nat, n <= m
  PROVE  Channel(D, n) \subseteq Channel(D, m)
<1>1. 0 .. n - 1 \subseteq 0 .. m - 1
  OBVIOUS
<1>2. LevelsTo(D, n) \subseteq LevelsTo(D, m)
  <2> SUFFICES ASSUME NEW f \in LevelsTo(D, n) PROVE f \in LevelsTo(D, m)
    OBVIOUS
  <2>1. DOMAIN f = 1 .. D /\ f = [l \in 1 .. D |-> f[l]] /\ \A l \in 1 .. D : f[l] \in LevelAt(l, n)
    BY LevelsAre
  <2>2. \A l \in 1 .. D : f[l] \in LevelAt(l, m)
    BY <2>1, LevelGrows
  <2> QED BY <2>1, <2>2, LevelsAre
<1> QED BY <1>1, <1>2 DEF Channel

LEMMA StoreGrows ==
  ASSUME NEW nm, NEW n \in Nat, NEW m \in Nat, n <= m
  PROVE  Store(nm, n) \subseteq Store(nm, m)
<1>1. Channel(Depth, n) \subseteq Channel(Depth, m)
  BY LogAssumption, ChannelGrows
<1> QED BY <1>1 DEF Store

\* One channel of a store replaced.
LEMMA StorePut ==
  ASSUME NEW nm, NEW n \in Nat, NEW s \in Store(nm, n), NEW c, NEW ch,
         c \in DOMAIN nm => ch \in Channel(Depth, n) /\ ch.name = nm[c]
  PROVE  [s EXCEPT ![c] = ch] \in Store(nm, n)
<1> DEFINE u == [s EXCEPT ![c] = ch]
<1>1. DOMAIN s = DOMAIN nm /\ \A d \in DOMAIN nm : s[d] \in Channel(Depth, n) /\ s[d].name = nm[d]
  BY DEF Store
<1>2. DOMAIN u = DOMAIN nm /\ u = [d \in DOMAIN nm |-> u[d]]
  BY <1>1
<1>3. \A d \in DOMAIN nm : u[d] \in Channel(Depth, n) /\ u[d].name = nm[d]
  BY <1>1
<1> HIDE DEF u
<1>4. u \in Store(nm, n)
  BY <1>2, <1>3, StoreBy
<1> QED BY <1>4 DEF u

\* Every level of every channel replaced.
Leveled(s, g) ==
  [c \in DOMAIN s |-> [s[c] EXCEPT !.levels = [l \in DOMAIN s[c].levels |-> g[c][l]]]]

LEMMA LeveledIs ==
  ASSUME NEW nm, NEW n \in Nat, NEW s \in Store(nm, n), NEW g,
         \A c \in DOMAIN nm : \A l \in 1 .. Depth : g[c][l] \in LevelAt(l, n)
  PROVE  Leveled(s, g) \in Store(nm, n)
<1> DEFINE u == Leveled(s, g)
<1>0. Depth \in Nat
  BY LogAssumption
<1>1. DOMAIN s = DOMAIN nm /\ \A c \in DOMAIN nm : s[c] \in Channel(Depth, n) /\ s[c].name = nm[c]
  BY DEF Store
<1>2. ASSUME NEW c \in DOMAIN nm PROVE u[c] \in Channel(Depth, n) /\ u[c].name = nm[c]
  <2> DEFINE f == [l \in 1 .. Depth |-> g[c][l]]
  <2>1. DOMAIN s[c].levels = 1 .. Depth
    BY StoreHas
  <2>2. f \in LevelsTo(Depth, n)
    <3>1. DOMAIN f = 1 .. Depth /\ f = [l \in 1 .. Depth |-> f[l]] /\ \A l \in 1 .. Depth : f[l] = g[c][l]
      OBVIOUS
    <3> HIDE DEF f
    <3> QED BY <1>0, <3>1, LevelsAre
  <2>3. u[c] = [s[c] EXCEPT !.levels = f]
    BY <1>1, <2>1 DEF Leveled
  <2> HIDE DEF f, u
  <2>4. /\ [s[c] EXCEPT !.levels = f] \in Channel(Depth, n)
        /\ [s[c] EXCEPT !.levels = f].name = s[c].name
    BY <1>0, <1>1, <2>2, Relevel
  <2> QED BY <1>1, <2>3, <2>4
<1>3. DOMAIN u = DOMAIN nm /\ u = [c \in DOMAIN nm |-> u[c]]
  BY <1>1 DEF Leveled
<1> HIDE DEF u
<1>4. u \in Store(nm, n)
  BY <1>2, <1>3, StoreBy
<1> QED BY <1>4 DEF u

LEMMA ReheldIs ==
  ASSUME NEW nm, NEW n \in Nat, NEW s \in Store(nm, n), NEW ls, NEW one, NEW other \in Held
  PROVE  Reheld(s, ls, one, other) \in Store(nm, n)
<1> DEFINE g == [c \in DOMAIN nm |-> [l \in 1 .. Depth |->
                   IF l \in ls /\ s[c].levels[l].held = one
                   THEN [s[c].levels[l] EXCEPT !.held = other] ELSE s[c].levels[l]]]
<1>1. ASSUME NEW c \in DOMAIN nm, NEW l \in 1 .. Depth PROVE g[c][l] \in LevelAt(l, n)
  <2>1. s[c].levels[l] \in LevelAt(l, n)
    BY StoreHas
  <2>2. [s[c].levels[l] EXCEPT !.held = other] \in LevelAt(l, n)
    BY Zenon, <2>1, LevelFields
  <2> QED BY <2>1, <2>2
<1>2. DOMAIN s = DOMAIN nm /\ \A c \in DOMAIN nm : DOMAIN s[c].levels = 1 .. Depth
  <2>1. DOMAIN s = DOMAIN nm
    BY DEF Store
  <2>2. \A c \in DOMAIN nm : DOMAIN s[c].levels = 1 .. Depth
    BY StoreHas
  <2> QED BY <2>1, <2>2
<1>3. Reheld(s, ls, one, other) = Leveled(s, g)
  BY <1>2 DEF Reheld, EachLevel, Leveled
<1> HIDE DEF g
<1> QED BY <1>1, <1>3, LeveledIs

LEMMA EvictedIs ==
  ASSUME NEW nm, NEW n \in Nat, NEW s \in Store(nm, n), NEW ls
  PROVE  EvictLevels(s, ls) \in Store(nm, n) /\ EnsureResident(s, ls) \in Store(nm, n)
<1>1. "blob" \in Held /\ "chunks" \in Held
  BY DEF Held
<1> QED BY <1>1, ReheldIs DEF EvictLevels, EnsureResident

-----------------------------------------------------------------------------
(* What a step captures.                                                   *)

\* What a step of the log keeps.
Part(X, l) == UNION {[T -> Sample(l)] : T \in SUBSET X}
IdsAt(l) == [name : Names, chan : Nat, lev : Nat, level : {l}]
Leaves == {Owner[v] : v \in Verts}
BlocksAt(l) == [id : IdsAt(l), grid : Grids, val : Part(Sites, l)]
Blocks == UNION {BlocksAt(l) : l \in Levels}
FinersAt(l, n) ==
  [id : IdsAt(l), owes : BOOLEAN, whole : BOOLEAN, state : LevelAt(l, n), blocks : SUBSET BlocksAt(l)]
Finers(n) == UNION {FinersAt(l, n) : l \in Levels}
AllDebts == [id : UNION {IdsAt(l) : l \in Levels}, owes : BOOLEAN]
PosNodes == [leaf : Leaves, val : Part(Verts, L)]
MaskNodes == [leaf : Leaves, val : Part(Verts, L), id : UNION {IdsAt(l) : l \in Levels}]
Step(n) ==
  [pos : SUBSET PosNodes, mask : SUBSET MaskNodes, blocks : SUBSET Blocks,
   finer : SUBSET Finers(n), pre : BOOLEAN, post : BOOLEAN,
   preAttr : SUBSET AllDebts, postAttr : SUBSET AllDebts]

LEMMA StepGrows ==
  ASSUME NEW n \in Nat, NEW m \in Nat, n <= m
  PROVE  Step(n) \subseteq Step(m)
<1>1. \A l \in Levels : FinersAt(l, n) \subseteq FinersAt(l, m)
  <2>1. \A l \in Levels : LevelAt(l, n) \subseteq LevelAt(l, m)
    BY LevelGrows
  <2> QED BY <2>1 DEF FinersAt
<1>2. Finers(n) \subseteq Finers(m)
  BY <1>1 DEF Finers
<1> QED BY <1>2 DEF Step

\* What is resolved is there.
LEMMA ResolveIs ==
  ASSUME NEW nm, Named(nm), NEW n \in Nat, NEW s \in Store(nm, n), NEW id, Resolve(s, id) # 0
  PROVE  Resolve(s, id) \in DOMAIN nm /\ id.level \in 1 .. Depth
<1>1. /\ Resolve(s, id) = FindChannel(s, id.name) /\ FindChannel(s, id.name) # 0
      /\ id.level \in DOMAIN s[FindChannel(s, id.name)].levels
  BY DEF Resolve
<1>2. FindChannel(s, id.name) \in DOMAIN nm
  BY <1>1, FindIs
<1>3. DOMAIN s[FindChannel(s, id.name)].levels = 1 .. Depth
  BY <1>2, StoreHas
<1> QED BY <1>1, <1>2, <1>3

LEMMA IdentityIs ==
  ASSUME NEW nm, Named(nm), NEW n \in Nat, NEW s \in Store(nm, n), NEW c \in DOMAIN nm, NEW l \in Levels
  PROVE  Identity(s, c, l) \in IdsAt(l) /\ Identity(s, c, l) \in UNION {IdsAt(k) : k \in Levels}
<1>1. s[c] \in Channel(Depth, n) /\ s[c].levels[l] \in LevelAt(l, n)
  BY StoreHas DEF Levels
<1>2. s[c].name \in Names /\ s[c].tok \in Nat /\ s[c].levels[l].tok \in Nat
  BY <1>1 DEF Channel, LevelAt
<1>3. Identity(s, c, l) \in IdsAt(l)
  BY <1>2 DEF Identity, IdsAt
<1> QED BY <1>3

LEMMA DebtsAre ==
  ASSUME NEW nm, Named(nm), NEW n \in Nat, NEW s \in Store(nm, n)
  PROVE  DebtsAt(s) \subseteq AllDebts
<1>1. DOMAIN s = DOMAIN nm /\ L \in Levels
  BY LogAssumption DEF Store, Levels
<1>2. \A c \in DOMAIN nm : s[c].levels[L].owes \in BOOLEAN
  BY <1>1, StoreLevel
<1>3. \A c \in DOMAIN nm : Identity(s, c, L) \in UNION {IdsAt(k) : k \in Levels}
  BY <1>1, IdentityIs
<1> QED BY <1>1, <1>2, <1>3 DEF DebtsAt, AllDebts

LEMMA BlockIs ==
  ASSUME NEW nm, Named(nm), NEW n \in Nat, NEW s \in Store(nm, n), NEW c \in DOMAIN nm, NEW l \in Levels,
         NEW g \in Grids
  PROVE  Block(s, c, l, g) \in BlocksAt(l)
<1> DEFINE v == [x \in InGrid(g) |-> s[c].levels[l].val[x]]
<1>1. Identity(s, c, l) \in IdsAt(l)
  BY IdentityIs
<1>2. s[c].levels[l].val \in [Sites -> Sample(l)]
  BY StoreLevel
<1>3. InGrid(g) \in SUBSET Sites
  BY DEF InGrid
<1>4. v \in [InGrid(g) -> Sample(l)]
  BY <1>2, <1>3
<1> HIDE DEF v
<1>5. v \in Part(Sites, l)
  BY <1>3, <1>4 DEF Part
<1>6. Block(s, c, l, g) = [id |-> Identity(s, c, l), grid |-> g, val |-> v]
  BY DEF Block, v
<1> QED BY <1>1, <1>5, <1>6 DEF BlocksAt

LEMMA GridsOfIs ==
  ASSUME NEW vs \in SUBSET Verts
  PROVE  GridsOf(vs) \subseteq Grids
BY StoreAssumption DEF GridsOf

LEMMA CaptureGridsIs ==
  ASSUME NEW nm, Named(nm), NEW n \in Nat, NEW s \in Store(nm, n), NEW step \in Step(n),
         NEW cs \in SUBSET DOMAIN nm, NEW grids \in SUBSET Grids
  PROVE  CaptureGrids(step, s, cs, grids) \in Step(n)
<1> DEFINE made == {c \in cs : \A d \in step.preAttr : d.id.lev # Identity(s, c, L).lev}
           new(c) == {g \in grids : \A b \in step.blocks :
                                      ~(b.id.lev = Identity(s, c, L).lev /\ b.grid = g)}
           a == {[id |-> Identity(s, c, L), owes |-> s[c].levels[L].owes] : c \in made}
           b == UNION {{Block(s, c, L, g) : g \in new(c)} : c \in cs}
<1>1. L \in Levels
  BY LogAssumption DEF Levels
<1>2. a \subseteq AllDebts
  <2>1. \A c \in DOMAIN nm : s[c].levels[L].owes \in BOOLEAN
    BY <1>1, StoreLevel
  <2>2. \A c \in DOMAIN nm : Identity(s, c, L) \in UNION {IdsAt(k) : k \in Levels}
    BY <1>1, IdentityIs
  <2>3. made \subseteq DOMAIN nm
    OBVIOUS
  <2> HIDE DEF made
  <2> QED BY <2>1, <2>2, <2>3 DEF AllDebts
<1>3. b \subseteq Blocks
  <2>1. \A c \in DOMAIN nm, g \in Grids : Block(s, c, L, g) \in BlocksAt(L)
    BY <1>1, BlockIs
  <2>2. \A c : new(c) \subseteq Grids
    OBVIOUS
  <2> HIDE DEF new
  <2> QED BY <1>1, <2>1, <2>2 DEF Blocks
<1>4. CaptureGrids(step, s, cs, grids)
        = [step EXCEPT !.preAttr = step.preAttr \cup a, !.blocks = step.blocks \cup b]
  BY DEF CaptureGrids, Step
<1> HIDE DEF a, b
<1> QED BY <1>2, <1>3, <1>4 DEF Step

LEMMA FinerIs ==
  ASSUME NEW nm, Named(nm), NEW n \in Nat, NEW s \in Store(nm, n), NEW c \in DOMAIN nm, NEW l \in Levels,
         NEW grids \in SUBSET Grids
  PROVE  FinerMask(s, c, l, grids) \in FinersAt(l, n)
<1> DEFINE bs == IF Allocated(s, l, c) THEN {Block(s, c, l, g) : g \in grids} ELSE {}
           w == ~Allocated(s, l, c)
<1>1. Identity(s, c, l) \in IdsAt(l)
  BY IdentityIs
<1>2. s[c].levels[l] \in LevelAt(l, n) /\ s[c].levels[l].owes \in BOOLEAN
  BY StoreLevel
<1>3. bs \in SUBSET BlocksAt(l)
  BY BlockIs
<1>4. w \in BOOLEAN
  OBVIOUS
<1>5. FinerMask(s, c, l, grids)
        = [id |-> Identity(s, c, l), owes |-> s[c].levels[l].owes, whole |-> w,
           state |-> s[c].levels[l], blocks |-> bs]
  BY DEF FinerMask
<1> HIDE DEF bs, w
<1> QED BY <1>1, <1>2, <1>3, <1>4, <1>5 DEF FinersAt

LEMMA CaptureFinerIs ==
  ASSUME NEW nm, Named(nm), NEW n \in Nat, NEW s \in Store(nm, n), NEW step \in Step(n),
         NEW c \in DOMAIN nm, NEW grids \in SUBSET Grids
  PROVE  CaptureFinerMask(step, s, c, grids) \in Step(n)
<1> DEFINE a == {FinerMask(s, c, l, grids) : l \in L + 1 .. Depth}
<1>1. L + 1 .. Depth \subseteq Levels
  BY LogAssumption DEF Levels
<1>2. a \subseteq Finers(n)
  BY <1>1, FinerIs DEF Finers
<1>3. CaptureFinerMask(step, s, c, grids) = [step EXCEPT !.finer = step.finer \cup a]
  BY DEF CaptureFinerMask, Step
<1> HIDE DEF a
<1> QED BY <1>2, <1>3 DEF Step

LEMMA CaptureLeafIs ==
  ASSUME NEW nm, Named(nm), NEW n \in Nat, NEW s \in Store(nm, n), NEW step \in Step(n),
         NEW pos \in [Verts -> Sample(L)], NEW mask \in [Verts -> Sample(L)], NEW g \in Leaves,
         NEW fields, "mask" \in fields => FindChannel(s, "mask") # 0
  PROVE  CaptureLeaf(step, s, pos, mask, g, fields) \in Step(n)
<1> DEFINE p == [v \in Owned(g) |-> pos[v]]
           m == [v \in Owned(g) |-> mask[v]]
           id == Identity(s, FindChannel(s, "mask"), L)
           newPos == "co" \in fields /\ \A k \in step.pos : k.leaf # g
           newMask == "mask" \in fields /\ \A k \in step.mask : k.leaf # g
           ps == IF newPos THEN step.pos \cup {[leaf |-> g, val |-> p]} ELSE step.pos
           ms == IF newMask THEN step.mask \cup {[leaf |-> g, val |-> m, id |-> id]} ELSE step.mask
<1>1. L \in Levels
  BY LogAssumption DEF Levels
<1>2. Owned(g) \in SUBSET Verts
  BY DEF Owned
<1>3. p \in Part(Verts, L) /\ m \in Part(Verts, L)
  <2>1. p \in [Owned(g) -> Sample(L)] /\ m \in [Owned(g) -> Sample(L)]
    BY <1>2
  <2> HIDE DEF p, m
  <2> QED BY <1>2, <2>1 DEF Part
<1>4. "mask" \in fields => id \in UNION {IdsAt(k) : k \in Levels}
  <2> SUFFICES ASSUME "mask" \in fields PROVE id \in UNION {IdsAt(k) : k \in Levels}
    OBVIOUS
  <2>1. FindChannel(s, "mask") \in DOMAIN nm
    BY FindIs
  <2> QED BY <1>1, <2>1, IdentityIs
<1> HIDE DEF p, m, id
<1>5. ps \in SUBSET PosNodes
  BY <1>3 DEF Step, PosNodes
<1>6. ms \in SUBSET MaskNodes
  BY <1>3, <1>4 DEF Step, MaskNodes
<1>7. CaptureLeaf(step, s, pos, mask, g, fields) = [step EXCEPT !.pos = ps, !.mask = ms]
  BY DEF CaptureLeaf, Step, p, m, id
<1> HIDE DEF ps, ms
<1> QED BY <1>5, <1>6, <1>7 DEF Step

-----------------------------------------------------------------------------
(* What is put back, and what is taken in exchange.                        *)

LEMMA PartIs ==
  ASSUME NEW X, NEW l, NEW f
  PROVE  f \in Part(X, l) <=> DOMAIN f \subseteq X /\ f \in [DOMAIN f -> Sample(l)]
BY DEF Part

LEMMA PutIs ==
  ASSUME NEW X, NEW l, NEW d \in [X -> Sample(l)], NEW ns, \A k \in ns : k.val \in [DOMAIN k.val -> Sample(l)]
  PROVE  Put(d, ns) \in [X -> Sample(l)]
<1>1. ASSUME NEW v \in X, \E k \in ns : v \in DOMAIN k.val
      PROVE  (CHOOSE k \in ns : v \in DOMAIN k.val).val[v] \in Sample(l)
  <2> DEFINE k == CHOOSE k \in ns : v \in DOMAIN k.val
  <2>1. k \in ns /\ v \in DOMAIN k.val
    BY <1>1
  <2> HIDE DEF k
  <2>2. k.val[v] \in Sample(l)
    BY <2>1
  <2> QED BY <2>2 DEF k
<1> QED BY <1>1 DEF Put

\* What is put in place of it is of its level.
LEMMA PutBlockIs ==
  ASSUME NEW l, NEW n, NEW lev \in LevelAt(l, n), NEW bs \in SUBSET BlocksAt(l)
  PROVE  PutBlock(lev, bs) \in LevelAt(l, n)
<1> DEFINE v == Put(lev.val, bs)
<1>1. lev.val \in [Sites -> Sample(l)]
  BY Zenon, LevelFields
<1>2. \A b \in bs : b.val \in Part(Sites, l)
  BY DEF BlocksAt
<1>3. \A b \in bs : b.val \in [DOMAIN b.val -> Sample(l)]
  BY <1>2, PartIs
<1>4. v \in [Sites -> Sample(l)]
  BY <1>1, <1>3, PutIs
<1> HIDE DEF v
<1>5. "chunks" \in Held
  BY DEF Held
<1>6. [lev EXCEPT !.held = "chunks", !.val = v] \in LevelAt(l, n)
  BY Zenon, <1>4, <1>5, LevelFields
<1>7. PutBlock(lev, bs) = lev \/ PutBlock(lev, bs) = [lev EXCEPT !.held = "chunks", !.val = v]
  BY DEF PutBlock, v, LevelAt
<1> QED BY <1>6, <1>7

\* Blocks of a level.
LEMMA BlocksOf ==
  ASSUME NEW b \in Blocks
  PROVE  b.id.level \in Levels /\ b \in BlocksAt(b.id.level) /\ b.id \in IdsAt(b.id.level)
<1>1. PICK l \in Levels : b \in BlocksAt(l)
  BY DEF Blocks
<1>2. b.id \in IdsAt(l)
  BY <1>1 DEF BlocksAt
<1>3. b.id.level = l
  BY <1>2 DEF IdsAt
<1> QED BY <1>1, <1>2, <1>3

LEMMA FinersOf ==
  ASSUME NEW n, NEW f \in Finers(n)
  PROVE  f.id.level \in Levels /\ f \in FinersAt(f.id.level, n) /\ f.id \in IdsAt(f.id.level)
<1>1. PICK l \in Levels : f \in FinersAt(l, n)
  BY DEF Finers
<1>2. f.id \in IdsAt(l)
  BY <1>1 DEF FinersAt
<1>3. f.id.level = l
  BY <1>2 DEF IdsAt
<1> QED BY <1>1, <1>2, <1>3

LEMMA PutBlocksIs ==
  ASSUME NEW nm, NEW n \in Nat, NEW s \in Store(nm, n), NEW bs \in SUBSET Blocks
  PROVE  PutBlocks(s, bs) \in Store(nm, n)
<1> DEFINE g == [c \in DOMAIN nm |-> [l \in 1 .. Depth |->
                   PutBlock(s[c].levels[l], Kept(s, bs, c, l))]]
<1>1. ASSUME NEW c \in DOMAIN nm, NEW l \in 1 .. Depth PROVE g[c][l] \in LevelAt(l, n)
  <2>1. s[c].levels[l] \in LevelAt(l, n)
    BY StoreHas
  <2>2. Kept(s, bs, c, l) \in SUBSET BlocksAt(l)
    BY BlocksOf DEF Kept
  <2> QED BY <2>1, <2>2, PutBlockIs
<1>2. DOMAIN s = DOMAIN nm /\ \A c \in DOMAIN nm : DOMAIN s[c].levels = 1 .. Depth
  BY StoreHas DEF Store
<1>3. PutBlocks(s, bs) = Leveled(s, g)
  BY <1>2 DEF PutBlocks, EachLevel, Leveled
<1> HIDE DEF g
<1> QED BY <1>1, <1>3, LeveledIs

LEMMA PutFinerLevelIs ==
  ASSUME NEW l, NEW n, NEW lev \in LevelAt(l, n), NEW fs \in SUBSET FinersAt(l, n)
  PROVE  PutFinerLevel(lev, fs) \in LevelAt(l, n)
<1>1. CASE fs # {}
  <2> DEFINE f == CHOOSE f \in fs : TRUE
             r == PutBlock(lev, f.blocks)
  <2>1. f \in FinersAt(l, n)
    BY <1>1
  <2>2. PutFinerLevel(lev, fs) = IF f.whole THEN f.state ELSE [r EXCEPT !.owes = f.owes]
    BY <1>1 DEF PutFinerLevel
  <2> HIDE DEF f
  <2>3. f.state \in LevelAt(l, n) /\ f.blocks \in SUBSET BlocksAt(l) /\ f.owes \in BOOLEAN
    BY <2>1 DEF FinersAt
  <2>4. r \in LevelAt(l, n)
    BY <2>3, PutBlockIs
  <2> HIDE DEF r
  <2>5. [r EXCEPT !.owes = f.owes] \in LevelAt(l, n)
    BY Zenon, <2>3, <2>4, LevelFields
  <2> QED BY <2>2, <2>3, <2>5
<1>2. CASE fs = {}
  BY <1>2 DEF PutFinerLevel
<1> QED BY <1>1, <1>2

LEMMA PutFinerIs ==
  ASSUME NEW nm, NEW n \in Nat, NEW s \in Store(nm, n), NEW fs \in SUBSET Finers(n)
  PROVE  PutFiner(s, fs) \in Store(nm, n)
<1> DEFINE g == [c \in DOMAIN nm |-> [l \in 1 .. Depth |->
                   PutFinerLevel(s[c].levels[l], Kept(s, fs, c, l))]]
<1>1. ASSUME NEW c \in DOMAIN nm, NEW l \in 1 .. Depth PROVE g[c][l] \in LevelAt(l, n)
  <2>1. s[c].levels[l] \in LevelAt(l, n)
    BY StoreHas
  <2>2. Kept(s, fs, c, l) \in SUBSET FinersAt(l, n)
    BY FinersOf DEF Kept
  <2> QED BY <2>1, <2>2, PutFinerLevelIs
<1>2. DOMAIN s = DOMAIN nm /\ \A c \in DOMAIN nm : DOMAIN s[c].levels = 1 .. Depth
  BY StoreHas DEF Store
<1>3. PutFiner(s, fs) = Leveled(s, g)
  BY <1>2 DEF PutFiner, EachLevel, Leveled
<1> HIDE DEF g
<1> QED BY <1>1, <1>3, LeveledIs

LEMMA TakenBlocksAre ==
  ASSUME NEW nm, Named(nm), NEW n \in Nat, NEW s \in Store(nm, n), NEW bs \in SUBSET Blocks
  PROVE  /\ TakenBlocks(s, bs) \in SUBSET Blocks
         /\ \A l \in Levels : bs \in SUBSET BlocksAt(l) => TakenBlocks(s, bs) \in SUBSET BlocksAt(l)
<1> DEFINE took(b) == IF Resolve(s, b.id) = 0 THEN b
                      ELSE [b EXCEPT !.val = [x \in DOMAIN b.val |->
                              s[Resolve(s, b.id)].levels[b.id.level].val[x]]]
<1>1. ASSUME NEW l \in Levels, NEW b \in BlocksAt(l), b.id.level = l PROVE took(b) \in BlocksAt(l)
  <2>1. CASE Resolve(s, b.id) # 0
    <3> DEFINE v == [x \in DOMAIN b.val |-> s[Resolve(s, b.id)].levels[b.id.level].val[x]]
    <3>1. Resolve(s, b.id) \in DOMAIN nm
      BY <2>1, ResolveIs
    <3>2. s[Resolve(s, b.id)].levels[b.id.level].val \in [Sites -> Sample(l)]
      BY <1>1, <3>1, StoreLevel
    <3>3. b.val \in Part(Sites, l)
      BY DEF BlocksAt
    <3>4. DOMAIN b.val \subseteq Sites
      BY <3>3, PartIs
    <3>5. v \in [DOMAIN b.val -> Sample(l)]
      BY <3>2, <3>4
    <3>6. took(b) = [b EXCEPT !.val = v]
      BY <2>1
    <3>7. DOMAIN v = DOMAIN b.val
      OBVIOUS
    <3> HIDE DEF v, took
    <3>8. v \in Part(Sites, l)
      BY <3>4, <3>5, <3>7, PartIs
    <3> QED BY <3>6, <3>8 DEF BlocksAt
  <2>2. CASE Resolve(s, b.id) = 0
    BY <2>2
  <2> QED BY <2>1, <2>2
<1>2. ASSUME NEW l \in Levels, NEW b \in BlocksAt(l) PROVE b.id.level = l
  BY DEF BlocksAt, IdsAt
<1>3. TakenBlocks(s, bs) = {took(b) : b \in bs}
  <2>1. \A b \in bs : [b EXCEPT !.val = [x \in DOMAIN @ |->
                              s[Resolve(s, b.id)].levels[b.id.level].val[x]]]
                        = [b EXCEPT !.val = [x \in DOMAIN b.val |->
                              s[Resolve(s, b.id)].levels[b.id.level].val[x]]]
    BY DEF Blocks, BlocksAt
  <2> QED BY <2>1 DEF TakenBlocks
<1> HIDE DEF took
<1>4. \A l \in Levels : \A b \in BlocksAt(l) : took(b) \in BlocksAt(l)
  BY <1>1, <1>2
<1>5. \A b \in bs : took(b) \in Blocks
  BY <1>4, BlocksOf DEF Blocks
<1> QED BY <1>3, <1>4, <1>5

-----------------------------------------------------------------------------
(* The live state, and a step swapped with it.                             *)

\* The live state of a session.
MaskAt(l) == [Verts -> Sample(l)]
Masks ==
  {m \in [Levels -> {None} \cup UNION {MaskAt(l) : l \in Levels}] :
     m[L] \in MaskAt(L) /\ \A l \in Levels : m[l] = None \/ m[l] \in MaskAt(l)}
Lives(nm, n) == [store : Store(nm, n), pos : MaskAt(L), owes : BOOLEAN, mask : Masks]

LEMMA MasksBy ==
  ASSUME NEW m, DOMAIN m = Levels, m = [l \in Levels |-> m[l]],
         \A l \in Levels : (l # L /\ m[l] = None) \/ m[l] \in MaskAt(l)
  PROVE  m \in Masks
<1>1. L \in Levels
  BY LogAssumption DEF Levels
<1> QED BY <1>1 DEF Masks

LEMMA MasksAre ==
  ASSUME NEW m \in Masks
  PROVE  /\ DOMAIN m = Levels /\ m = [l \in Levels |-> m[l]] /\ m[L] \in MaskAt(L) /\ L \in Levels
         /\ \A l \in Levels : m[l] = None \/ m[l] \in MaskAt(l)
         /\ \A l \in Levels : (l # L /\ m[l] = None) \/ m[l] \in MaskAt(l)
BY LogAssumption DEF Masks, Levels

LEMMA DroppedIs ==
  ASSUME NEW m \in Masks
  PROVE  Dropped(m) \in Masks
<1> DEFINE d == Dropped(m)
<1>1. \A l \in Levels : ~(L > L) /\ (l > L => l # L)
  BY LogAssumption DEF Levels
<1>2. DOMAIN d = Levels /\ d = [l \in Levels |-> d[l]] /\ \A l \in Levels : (d[l] = None /\ l > L) \/ d[l] = m[l]
  BY DEF Dropped
<1>3. \A l \in Levels : (l # L /\ d[l] = None) \/ d[l] \in MaskAt(l)
  BY <1>1, <1>2, MasksAre
<1> HIDE DEF d
<1>4. d \in Masks
  BY <1>2, <1>3, MasksBy
<1> QED BY <1>4 DEF d

LEMMA MaskPut ==
  ASSUME NEW m \in Masks, NEW l \in Levels, NEW v \in MaskAt(l)
  PROVE  [m EXCEPT ![l] = v] \in Masks
<1> DEFINE d == [m EXCEPT ![l] = v]
<1>2. DOMAIN d = Levels /\ d = [k \in Levels |-> d[k]] /\ \A k \in Levels : d[k] = IF k = l THEN v ELSE m[k]
  BY MasksAre
<1>3. \A k \in Levels : (k # L /\ d[k] = None) \/ d[k] \in MaskAt(k)
  BY <1>2, MasksAre
<1> HIDE DEF d
<1>4. d \in Masks
  BY <1>2, <1>3, MasksBy
<1> QED BY <1>4 DEF d

LEMMA TakenFinerIs ==
  ASSUME NEW nm, Named(nm), NEW n \in Nat, NEW s \in Store(nm, n), NEW fs \in SUBSET Finers(n)
  PROVE  TakenFiner(s, fs) \in SUBSET Finers(n)
<1> DEFINE took(f) == LET c == Resolve(s, f.id) IN
                        IF c = 0 THEN f
                        ELSE IF f.whole THEN [f EXCEPT !.state = s[c].levels[f.id.level]]
                        ELSE [f EXCEPT !.blocks = TakenBlocks(s, @),
                                       !.owes = s[c].levels[f.id.level].owes]
<1>1. ASSUME NEW f \in fs PROVE took(f) \in Finers(n)
  <2> DEFINE c == Resolve(s, f.id)
             l == f.id.level
             tb == TakenBlocks(s, f.blocks)
             b == s[c].levels[l].owes
  <2>1. l \in Levels /\ f \in FinersAt(l, n)
    BY FinersOf
  <2>2. CASE c # 0
    <3>1. c \in DOMAIN nm
      BY <2>2, ResolveIs
    <3>2. s[c].levels[l] \in LevelAt(l, n) /\ b \in BOOLEAN
      BY <2>1, <3>1, StoreLevel
    <3>3. f.blocks \in SUBSET BlocksAt(l) /\ f.blocks \in SUBSET Blocks
      BY <2>1 DEF FinersAt, Blocks
    <3>4. tb \in SUBSET BlocksAt(l)
      BY <2>1, <3>3, TakenBlocksAre
    <3>5. took(f) = IF f.whole THEN [f EXCEPT !.state = s[c].levels[l]]
                    ELSE [f EXCEPT !.blocks = tb, !.owes = b]
      BY <2>1, <2>2 DEF FinersAt
    <3> HIDE DEF took, tb, b
    <3>6. [f EXCEPT !.state = s[c].levels[l]] \in FinersAt(l, n)
      BY <2>1, <3>2 DEF FinersAt
    <3>7. [f EXCEPT !.blocks = tb, !.owes = b] \in FinersAt(l, n)
      BY <2>1, <3>2, <3>4 DEF FinersAt
    <3> QED BY <2>1, <3>5, <3>6, <3>7 DEF Finers
  <2>3. CASE c = 0
    BY <2>3
  <2> QED BY <2>2, <2>3
<1>2. TakenFiner(s, fs) = {took(f) : f \in fs}
  BY DEF TakenFiner
<1> HIDE DEF took
<1> QED BY <1>1, <1>2

LEMMA TakenNode ==
  ASSUME NEW d \in MaskAt(L), NEW T \in {PosNodes, MaskNodes}, NEW k \in T
  PROVE  [k EXCEPT !.val = [v \in DOMAIN @ |-> d[v]]] \in T
<1> DEFINE v == [x \in DOMAIN k.val |-> d[x]]
<1>1. k.val \in Part(Verts, L)
  <2>1. k \in PosNodes \/ k \in MaskNodes
    OBVIOUS
  <2> QED BY <2>1 DEF PosNodes, MaskNodes
<1>2. DOMAIN k.val \subseteq Verts
  BY <1>1, PartIs
<1>3. v \in [DOMAIN k.val -> Sample(L)] /\ DOMAIN v = DOMAIN k.val
  BY <1>2 DEF MaskAt
<1> HIDE DEF v
<1>4. v \in Part(Verts, L)
  BY <1>2, <1>3, PartIs
<1>5. [k EXCEPT !.val = [x \in DOMAIN @ |-> d[x]]] = [k EXCEPT !.val = v]
  BY DEF v
<1>6. CASE T = PosNodes
  BY <1>4, <1>5, <1>6 DEF PosNodes
<1>7. CASE T = MaskNodes
  BY <1>4, <1>5, <1>7 DEF MaskNodes
<1> QED BY <1>6, <1>7

LEMMA TakenIs ==
  ASSUME NEW d \in MaskAt(L)
  PROVE  /\ \A ns \in SUBSET PosNodes : Taken(d, ns) \in SUBSET PosNodes /\ Put(d, ns) \in MaskAt(L)
         /\ \A ns \in SUBSET MaskNodes : Taken(d, ns) \in SUBSET MaskNodes /\ Put(d, ns) \in MaskAt(L)
<1>1. /\ \A k \in PosNodes : [k EXCEPT !.val = [v \in DOMAIN @ |-> d[v]]] \in PosNodes
      /\ \A k \in MaskNodes : [k EXCEPT !.val = [v \in DOMAIN @ |-> d[v]]] \in MaskNodes
  BY TakenNode
<1>2. /\ \A k \in PosNodes : k.val \in Part(Verts, L)
      /\ \A k \in MaskNodes : k.val \in Part(Verts, L)
  BY DEF PosNodes, MaskNodes
<1>3. /\ \A k \in PosNodes : k.val \in [DOMAIN k.val -> Sample(L)]
      /\ \A k \in MaskNodes : k.val \in [DOMAIN k.val -> Sample(L)]
  BY <1>2, PartIs
<1>4. /\ \A ns \in SUBSET PosNodes : Put(d, ns) \in MaskAt(L)
      /\ \A ns \in SUBSET MaskNodes : Put(d, ns) \in MaskAt(L)
  BY <1>3, PutIs DEF MaskAt
<1> QED BY <1>1, <1>4 DEF Taken

LEMMA ApplyDebtsIs ==
  ASSUME NEW nm, Named(nm), NEW n \in Nat, NEW lv \in Lives(nm, n), NEW owes \in BOOLEAN,
         NEW attrs \in SUBSET AllDebts
  PROVE  ApplyDebts(lv, owes, attrs) \in Lives(nm, n)
<1> DEFINE s == lv.store
           g == [c \in DOMAIN nm |-> [l \in 1 .. Depth |->
                   IF Kept(s, attrs, c, l) = {} THEN s[c].levels[l]
                   ELSE [s[c].levels[l] EXCEPT !.owes = (CHOOSE d \in Kept(s, attrs, c, l) : TRUE).owes]]]
<1>0. s \in Store(nm, n)
  BY DEF Lives
<1> HIDE DEF s
<1>1. ASSUME NEW c \in DOMAIN nm, NEW l \in 1 .. Depth PROVE g[c][l] \in LevelAt(l, n)
  <2>1. s[c].levels[l] \in LevelAt(l, n)
    BY <1>0, StoreHas
  <2> DEFINE d == CHOOSE d \in Kept(s, attrs, c, l) : TRUE
  <2>2. Kept(s, attrs, c, l) # {} => d \in Kept(s, attrs, c, l)
    OBVIOUS
  <2>3. Kept(s, attrs, c, l) # {} => d.owes \in BOOLEAN
    BY <2>2 DEF Kept, AllDebts
  <2>4. g[c][l] = IF Kept(s, attrs, c, l) = {} THEN s[c].levels[l]
                  ELSE [s[c].levels[l] EXCEPT !.owes = d.owes]
    OBVIOUS
  <2> HIDE DEF d, g
  <2>5. \A b \in BOOLEAN : [s[c].levels[l] EXCEPT !.owes = b] \in LevelAt(l, n)
    BY Zenon, <2>1, LevelFields
  <2> QED BY <2>1, <2>3, <2>4, <2>5
<1>2. DOMAIN s = DOMAIN nm /\ \A c \in DOMAIN nm : DOMAIN s[c].levels = 1 .. Depth
  <2>1. DOMAIN s = DOMAIN nm
    BY <1>0 DEF Store
  <2>2. \A c \in DOMAIN nm : DOMAIN s[c].levels = 1 .. Depth
    BY <1>0, StoreHas
  <2> QED BY <2>1, <2>2
<1> DEFINE u == Leveled(s, g)
<1>3. ApplyDebts(lv, owes, attrs) = [lv EXCEPT !.owes = owes, !.store = u]
  BY Zenon, <1>2 DEF ApplyDebts, EachLevel, Leveled, s
<1> HIDE DEF g
<1>4. u \in Store(nm, n)
  BY <1>0, <1>1, LeveledIs
<1> HIDE DEF u
<1> QED BY <1>3, <1>4 DEF Lives

LEMMA SwapIs ==
  ASSUME NEW nm, Named(nm), NEW n \in Nat, NEW lv \in Lives(nm, n), NEW step \in Step(n)
  PROVE  ApplySwap(lv, step).live \in Lives(nm, n) /\ ApplySwap(lv, step).step \in Step(n)
<1> DEFINE known == {k \in step.mask : Resolve(lv.store, k.id) # 0}
           s == EnsureResident(lv.store, {L})
           p == Put(lv.pos, step.pos)
           m == Dropped([lv.mask EXCEPT ![L] = Put(lv.mask[L], known)])
           u == PutFiner(PutBlocks(s, step.blocks), step.finer)
           tp == Taken(lv.pos, step.pos)
           tm == Taken(lv.mask[L], known) \cup (step.mask \ known)
           tb == TakenBlocks(s, step.blocks)
           tf == TakenFiner(s, step.finer)
<1>1. /\ lv.store \in Store(nm, n) /\ lv.pos \in MaskAt(L) /\ lv.mask \in Masks
      /\ step.pos \in SUBSET PosNodes /\ step.mask \in SUBSET MaskNodes
      /\ step.blocks \in SUBSET Blocks /\ step.finer \in SUBSET Finers(n)
  BY DEF Lives, Step
<1>2. ApplySwap(lv, step).live = [lv EXCEPT !.pos = p, !.mask = m, !.store = u]
  BY DEF ApplySwap, Lives
<1>3. ApplySwap(lv, step).step = [step EXCEPT !.pos = tp, !.mask = tm, !.blocks = tb, !.finer = tf]
  BY DEF ApplySwap, Step
<1>4. s \in Store(nm, n)
  BY <1>1, EvictedIs
<1>5. known \in SUBSET MaskNodes /\ lv.mask[L] \in MaskAt(L) /\ L \in Levels
  BY <1>1, MasksAre
<1> HIDE DEF s, known
<1>6. p \in MaskAt(L) /\ tp \in SUBSET PosNodes
  BY <1>1, TakenIs
<1>7. m \in Masks
  <2>1. Put(lv.mask[L], known) \in MaskAt(L)
    BY <1>5, TakenIs
  <2>2. [lv.mask EXCEPT ![L] = Put(lv.mask[L], known)] \in Masks
    BY <1>1, <1>5, <2>1, MaskPut
  <2> QED BY <2>2, DroppedIs
<1>8. u \in Store(nm, n)
  <2>1. PutBlocks(s, step.blocks) \in Store(nm, n)
    BY <1>1, <1>4, PutBlocksIs
  <2> QED BY <1>1, <2>1, PutFinerIs
<1>9. tm \in SUBSET MaskNodes
  <2>1. Taken(lv.mask[L], known) \in SUBSET MaskNodes
    BY <1>5, TakenIs
  <2> QED BY <1>1, <2>1
<1>10. tb \in SUBSET Blocks /\ tf \in SUBSET Finers(n)
  BY <1>1, <1>4, TakenBlocksAre, TakenFinerIs
<1> HIDE DEF p, m, u, tp, tm, tb, tf
<1>11. [lv EXCEPT !.pos = p, !.mask = m, !.store = u] \in Lives(nm, n)
  BY <1>6, <1>7, <1>8 DEF Lives
<1>12. [step EXCEPT !.pos = tp, !.mask = tm, !.blocks = tb, !.finer = tf] \in Step(n)
  BY <1>6, <1>9, <1>10 DEF Step
<1> QED BY <1>2, <1>3, <1>11, <1>12

LEMMA ReplayedIs ==
  ASSUME NEW nm, Named(nm), NEW n \in Nat, NEW lv \in Lives(nm, n), NEW step \in Step(n)
  PROVE  /\ Undone(lv, step).live \in Lives(nm, n) /\ Undone(lv, step).step \in Step(n)
         /\ Redone(lv, step).live \in Lives(nm, n) /\ Redone(lv, step).step \in Step(n)
<1>1. ApplySwap(lv, step).live \in Lives(nm, n) /\ ApplySwap(lv, step).step \in Step(n)
  BY SwapIs
<1>2. /\ step.pre \in BOOLEAN /\ step.post \in BOOLEAN
      /\ step.preAttr \in SUBSET AllDebts /\ step.postAttr \in SUBSET AllDebts
  BY DEF Step
<1> QED BY <1>1, <1>2, ApplyDebtsIs DEF Undone, Redone

-----------------------------------------------------------------------------
(* The mask.                                                               *)

LEMMA StoreSeq ==
  ASSUME NEW nm, Named(nm), NEW n \in Nat, NEW s \in Store(nm, n)
  PROVE  /\ s \in Seq(Channel(Depth, n)) /\ Len(s) = Len(nm) /\ DOMAIN s = 1 .. Len(nm)
         /\ DOMAIN nm = 1 .. Len(nm) /\ Len(nm) \in Nat
<1>1. DOMAIN nm = 1 .. Len(nm) /\ Len(nm) \in Nat
  BY DEF Named
<1>2. s \in [1 .. Len(nm) -> Channel(Depth, n)]
  BY <1>1 DEF Store
<1> QED BY <1>1, <1>2

LEMMA ValueIs ==
  ASSUME NEW nm, Named(nm), NEW n \in Nat, NEW s \in Store(nm, n), NEW name \in Names, NEW l \in Levels
  PROVE  ValueAt(s, name, l) \in [Sites -> Sample(l)]
<1>1. l \in Nat
  BY LogAssumption DEF Levels
<1>2. Seed(name, l) \in [Sites -> Sample(l)]
  BY <1>1, SeedIs
<1>3. FindChannel(s, name) # 0 => s[FindChannel(s, name)].levels[l].val \in [Sites -> Sample(l)]
  BY FindIs, StoreLevel
<1> QED BY <1>2, <1>3 DEF ValueAt

LEMMA ReadIs ==
  ASSUME NEW nm, Named(nm), NEW n \in Nat, NEW s \in Store(nm, n), NEW name \in Names, NEW l \in Levels
  PROVE  [w \in Verts |-> ValueAt(s, name, l)[<<Canon[w], w>>]] \in MaskAt(l)
<1>1. \A w \in Verts : <<Canon[w], w>> \in Sites
  BY LogAssumption, StoreAssumption DEF Sites
<1>2. ValueAt(s, name, l) \in [Sites -> Sample(l)]
  BY ValueIs
<1> QED BY <1>1, <1>2 DEF MaskAt

LEMMA MaskOfIs ==
  ASSUME NEW nm, Named(nm), NEW n \in Nat, NEW s \in Store(nm, n), NEW l \in Levels
  PROVE  MaskOf(s, l) \in MaskAt(l)
<1>1. "mask" \in Names
  BY DEF Names
<1> QED BY <1>1, ReadIs DEF MaskOf

LEMMA FlushMaskIs ==
  ASSUME NEW nm, Named(nm), NEW n \in Nat, NEW lv \in Lives(nm, n), NEW l \in Levels,
         lv.mask[l] \in MaskAt(l), NEW vs
  PROVE  FlushMask(lv, l, vs) \in Lives(nm, n)
<1> DEFINE c == FindChannel(lv.store, "mask")
           ch == Flushed(lv.store[c], l, lv.mask[l], vs)
           u == [lv.store EXCEPT ![c] = ch]
           m == [k \in Levels |-> IF k > l /\ lv.mask[k] # None THEN MaskOf(u, k) ELSE lv.mask[k]]
<1>1. lv.store \in Store(nm, n) /\ lv.mask \in Masks /\ Depth \in Nat
  BY LogAssumption DEF Lives
<1>2. FlushMask(lv, l, vs) = [lv EXCEPT !.store = u, !.mask = m]
  BY DEF FlushMask, Lives
<1> HIDE DEF c
<1>3. ASSUME c \in DOMAIN nm PROVE ch \in Channel(Depth, n) /\ ch.name = nm[c]
  <2>1. lv.store[c] \in Channel(Depth, n) /\ lv.store[c].name = nm[c]
    BY <1>1, <1>3, StoreHas
  <2>2. lv.mask[l] \in [Verts -> Sample(l)] /\ l \in 1 .. Depth
    BY DEF MaskAt, Levels
  <2> QED BY <1>1, <2>1, <2>2, FlushedIs
<1> HIDE DEF ch
<1>4. u \in Store(nm, n)
  BY <1>1, <1>3, StorePut
<1> HIDE DEF u
<1>5. m \in Masks
  <2>1. DOMAIN m = Levels /\ m = [k \in Levels |-> m[k]]
    OBVIOUS
  <2>2. \A k \in Levels : m[k] = lv.mask[k] \/ m[k] \in MaskAt(k)
    BY <1>4, MaskOfIs
  <2>3. \A k \in Levels : (k # L /\ m[k] = None) \/ m[k] \in MaskAt(k)
    BY <1>1, <2>2, MasksAre
  <2> HIDE DEF m
  <2> QED BY <2>1, <2>3, MasksBy
<1> HIDE DEF m
<1> QED BY <1>2, <1>4, <1>5 DEF Lives

\* Two sequences of names without one in common.
LEMMA NamedAppend ==
  ASSUME NEW nm, Named(nm), NEW ms \in Seq(Names), \A a, b \in DOMAIN ms : ms[a] = ms[b] => a = b,
         \A a \in DOMAIN ms : \A c \in DOMAIN nm : nm[c] # ms[a]
  PROVE  /\ Named(nm \o ms) /\ Len(nm \o ms) = Len(nm) + Len(ms)
         /\ \A c \in DOMAIN nm : c \in DOMAIN (nm \o ms) /\ (nm \o ms)[c] = nm[c]
         /\ \A a \in DOMAIN ms : Len(nm) + a \in DOMAIN (nm \o ms) /\ (nm \o ms)[Len(nm) + a] = ms[a]
<1> DEFINE r == nm \o ms
           p == Len(nm)
           q == Len(ms)
<1>1. nm \in Seq(Names) /\ p \in Nat /\ q \in Nat /\ p >= 1 /\ DOMAIN nm = 1 .. p /\ DOMAIN ms = 1 .. q
  BY DEF Named
<1>2. /\ r \in Seq(Names) /\ Len(r) = p + q
      /\ \A i \in 1 .. p + q : r[i] = IF i <= p THEN nm[i] ELSE ms[i - p]
  BY <1>1, ConcatProperties
<1> HIDE DEF r, p, q
<1>3. DOMAIN r = 1 .. p + q
  BY <1>2
<1>4. ASSUME NEW i \in 1 .. p + q, NEW j \in 1 .. p + q, r[i] = r[j] PROVE i = j
  <2>1. CASE i <= p /\ j <= p
    <3>1. i \in DOMAIN nm /\ j \in DOMAIN nm
      BY <1>1, <2>1
    <3>2. nm[i] = nm[j]
      BY <1>2, <1>4, <2>1
    <3> QED BY <3>1, <3>2 DEF Named
  <2>2. CASE i > p /\ j > p
    <3>1. i - p \in DOMAIN ms /\ j - p \in DOMAIN ms /\ ms[i - p] = ms[j - p]
      BY <1>1, <1>2, <1>4, <2>2
    <3>2. i - p = j - p
      BY <3>1
    <3> QED BY <1>1, <3>2
  <2>3. CASE i <= p /\ j > p
    <3>1. i \in DOMAIN nm /\ j - p \in DOMAIN ms /\ nm[i] = ms[j - p]
      BY <1>1, <1>2, <1>4, <2>3
    <3> QED BY <3>1
  <2>4. CASE i > p /\ j <= p
    <3>1. j \in DOMAIN nm /\ i - p \in DOMAIN ms /\ nm[j] = ms[i - p]
      BY <1>1, <1>2, <1>4, <2>4
    <3> QED BY <3>1
  <2> QED BY <1>1, <2>1, <2>2, <2>3, <2>4
<1>5. Named(r)
  BY <1>1, <1>2, <1>3, <1>4 DEF Named
<1>6. \A c \in DOMAIN nm : c \in DOMAIN r /\ r[c] = nm[c]
  BY <1>1, <1>2, <1>3
<1>7. \A a \in DOMAIN ms : p + a \in DOMAIN r /\ r[p + a] = ms[a]
  <2> SUFFICES ASSUME NEW a \in DOMAIN ms PROVE p + a \in DOMAIN r /\ r[p + a] = ms[a]
    OBVIOUS
  <2> DEFINE i == p + a
  <2>1. i \in 1 .. p + q /\ ~(i <= p) /\ i - p = a
    BY <1>1
  <2> HIDE DEF i
  <2>2. i \in DOMAIN r /\ r[i] = ms[a]
    BY <1>2, <1>3, <2>1
  <2> QED BY <2>2 DEF i
<1> QED BY <1>2, <1>5, <1>6, <1>7 DEF r, p, q

-----------------------------------------------------------------------------
(* Channels made, removed and settled.                                     *)

\* A finite set in a sequence, each member once.
LEMMA SetToSeqIs ==
  ASSUME NEW S, IsFiniteSet(S)
  PROVE  /\ SetToSeq(S) \in Seq(S)
         /\ \A a, b \in DOMAIN SetToSeq(S) : SetToSeq(S)[a] = SetToSeq(S)[b] => a = b
         /\ \A x \in S : \E a \in DOMAIN SetToSeq(S) : SetToSeq(S)[a] = x
<1> DEFINE n == Cardinality(S)
           f == CHOOSE f \in [1 .. n -> S] : IsInjective(f)
<1>1. n \in Nat /\ ExistsBijection(1 .. n, S)
  BY FS_CardinalityType
<1>2. \E g \in [1 .. n -> S] : IsInjective(g)
  BY <1>1 DEF ExistsBijection, Bijection, Injection
<1>3. f \in [1 .. n -> S] /\ IsInjective(f)
  BY <1>2
<1>4. f = SetToSeq(S)
  BY DEF SetToSeq
<1> HIDE DEF f
<1>5. IsFiniteSet(1 .. n) /\ Cardinality(1 .. n) = n
  BY <1>1, FS_Interval
<1>6. f \in Injection(1 .. n, S)
  BY <1>3 DEF Injection
<1>7. f \in Surjection(1 .. n, S)
  BY <1>5, <1>6, FS_Injection
<1>8. \A x \in S : \E a \in DOMAIN f : f[a] = x
  BY <1>3, <1>7 DEF Surjection
<1>9. f \in Seq(S)
  BY <1>1, <1>3
<1> QED BY <1>3, <1>4, <1>8, <1>9 DEF IsInjective

\* Store u has the channels of s, and others made for fields of ns.
Wider(nm, s, nu, u, ns, tok) ==
  /\ \A c \in DOMAIN nm : c \in DOMAIN nu /\ nu[c] = nm[c] /\ u[c] = s[c]
  /\ \A i \in DOMAIN nu : i \notin DOMAIN nm =>
       nu[i] \in ns /\ u[i].tok >= tok /\ u[i] = FieldChannel(nu[i], u[i].tok)
  /\ \A i, j \in DOMAIN nu : i \notin DOMAIN nm /\ j \notin DOMAIN nm /\ u[i].tok = u[j].tok => i = j

\* Channels made for the fields ns.
LEMMA ChannelsAdded ==
  ASSUME NEW nm, Named(nm), NEW tok \in Nat, NEW s \in Store(nm, tok),
         NEW ns \in SUBSET ({"mask"} \cup DOMAIN Layers),
         NEW u, u = EnsureChannels(s, ns, tok), NEW m, m = tok + (Len(u) - Len(s)) * (Depth + 1)
  PROVE  /\ Len(u) - Len(s) \in Nat /\ m \in Nat /\ tok <= m
         /\ \E nu : /\ Named(nu) /\ u \in Store(nu, m) /\ Wider(nm, s, nu, u, ns, tok)
                    /\ \A n \in ns : \E c \in DOMAIN nu : nu[c] = n
<1> DEFINE S == {n \in ns : FindChannel(s, n) = 0}
           ms == SetToSeq(S)
           q == Len(ms)
           h == tok + q * (Depth + 1)
           new == [k \in DOMAIN ms |-> FieldChannel(ms[k], tok + (k - 1) * (Depth + 1))]
           nu == nm \o ms
<1>1. IsFiniteSet(S)
  <2>1. IsFiniteSet({"mask"} \cup DOMAIN Layers)
    BY LogAssumption, FS_Union, FS_Singleton
  <2>2. S \in SUBSET ({"mask"} \cup DOMAIN Layers)
    OBVIOUS
  <2> QED BY <2>1, <2>2, FS_Subset
<1>2. /\ ms \in Seq(S) /\ \A a, b \in DOMAIN ms : ms[a] = ms[b] => a = b
      /\ \A x \in S : \E a \in DOMAIN ms : ms[a] = x
  BY <1>1, SetToSeqIs
<1>3. /\ \A x \in S : x \in ns /\ x \in Names /\ x \in {"mask"} \cup DOMAIN Layers
                      /\ \A c \in DOMAIN nm : nm[c] # x
      /\ \A n \in ns : n \in S \/ \E c \in DOMAIN nm : nm[c] = n
  BY FindIs DEF Names
<1>4. u = s \o new
  BY DEF EnsureChannels
<1> HIDE DEF S, ms
<1>5. q \in Nat /\ DOMAIN ms = 1 .. q /\ (\A a \in 1 .. q : ms[a] \in S) /\ ms \in Seq(Names)
  BY <1>2, <1>3
<1>6. Depth \in Nat
  BY LogAssumption
<1>7. h \in Nat /\ tok <= h /\ \A k \in 1 .. q : tok + (k - 1) * (Depth + 1) \in Nat
                                  /\ tok + (k - 1) * (Depth + 1) + Depth < h
  <2>1. q * (Depth + 1) \in Nat
    BY <1>5, <1>6
  <2>2. ASSUME NEW k \in 1 .. q
        PROVE  /\ (k - 1) * (Depth + 1) \in Nat
               /\ (k - 1) * (Depth + 1) + Depth < q * (Depth + 1)
    <3>1. k - 1 \in Nat /\ q - k \in Nat /\ q = (k - 1) + (q - k) + 1
      BY <1>5
    <3>2. q * (Depth + 1) = (k - 1) * (Depth + 1) + (q - k) * (Depth + 1) + (Depth + 1)
      BY <1>5, <1>6, <3>1
    <3>3. (k - 1) * (Depth + 1) \in Nat /\ (q - k) * (Depth + 1) \in Nat
      BY <1>6, <3>1
    <3> QED BY <1>5, <1>6, <3>2, <3>3
  <2> QED BY <1>6, <2>1, <2>2
<1> HIDE DEF h
<1>8. \A k \in 1 .. q : new[k] \in Channel(Depth, h) /\ new[k].name = ms[k]
  <2> SUFFICES ASSUME NEW k \in 1 .. q PROVE new[k] \in Channel(Depth, h) /\ new[k].name = ms[k]
    OBVIOUS
  <2> DEFINE t == tok + (k - 1) * (Depth + 1)
  <2>1. t \in Nat /\ t + Depth < h /\ ms[k] \in {"mask"} \cup DOMAIN Layers
    BY <1>3, <1>5, <1>7
  <2>2. new[k] = FieldChannel(ms[k], t)
    BY <1>5
  <2> HIDE DEF t, new
  <2>3. FieldChannel(ms[k], t) \in Channel(Depth, h) /\ FieldChannel(ms[k], t).name = ms[k]
    BY <1>7, <2>1, FieldChannelIs
  <2> QED BY <2>2, <2>3
<1>9. new \in Seq(Channel(Depth, h)) /\ Len(new) = q
  BY <1>5, <1>8
<1> HIDE DEF new
<1>10. s \in Store(nm, h)
  BY <1>7, StoreGrows
<1>11. s \in Seq(Channel(Depth, h)) /\ Len(s) = Len(nm) /\ DOMAIN nm = 1 .. Len(nm) /\ Len(nm) \in Nat
  BY <1>7, <1>10, StoreSeq
<1>12. /\ u \in Seq(Channel(Depth, h)) /\ Len(u) = Len(nm) + q
       /\ \A i \in 1 .. Len(nm) + q : u[i] = IF i <= Len(nm) THEN s[i] ELSE new[i - Len(nm)]
  <2>3. u = s \o new
    BY <1>4
  <2>1. /\ s \o new \in Seq(Channel(Depth, h)) /\ Len(s \o new) = Len(s) + Len(new)
        /\ \A i \in 1 .. Len(s) + Len(new) :
             (s \o new)[i] = IF i <= Len(s) THEN s[i] ELSE new[i - Len(s)]
    BY <1>9, <1>11, ConcatProperties
  <2> HIDE DEF q
  <2> QED BY <1>9, <1>11, <2>1, <2>3
<1>13. /\ Named(nu) /\ Len(nu) = Len(nm) + q
       /\ \A c \in DOMAIN nm : c \in DOMAIN nu /\ nu[c] = nm[c]
       /\ \A a \in DOMAIN ms : Len(nm) + a \in DOMAIN nu /\ nu[Len(nm) + a] = ms[a]
  <2>1. \A a \in DOMAIN ms : \A c \in DOMAIN nm : nm[c] # ms[a]
    BY <1>3, <1>5
  <2>2. \A a, b \in DOMAIN ms : ms[a] = ms[b] => a = b
    BY <1>2
  <2> QED BY <1>5, <2>1, <2>2, NamedAppend
<1> HIDE DEF nu
<1>14. u \in Store(nu, h)
  <2>1. DOMAIN nu = 1 .. Len(nm) + q
    BY <1>13 DEF Named
  <2>2. DOMAIN u = 1 .. Len(nm) + q /\ u = [c \in 1 .. Len(nm) + q |-> u[c]]
    BY <1>12
  <2>3. ASSUME NEW c \in 1 .. Len(nm) + q PROVE u[c] \in Channel(Depth, h) /\ u[c].name = nu[c]
    <3>1. CASE c <= Len(nm)
      <4>1. c \in DOMAIN nm /\ u[c] = s[c] /\ nu[c] = nm[c]
        BY <1>11, <1>12, <1>13, <3>1
      <4> QED BY <1>7, <1>10, <4>1, StoreHas
    <3>2. CASE c > Len(nm)
      <4>1. c - Len(nm) \in 1 .. q /\ c = Len(nm) + (c - Len(nm))
        BY <1>5, <1>11, <3>2
      <4>2. u[c] = new[c - Len(nm)]
        BY <1>11, <1>12, <3>2
      <4>3. nu[c] = ms[c - Len(nm)]
        BY <1>5, <1>13, <4>1
      <4> QED BY <1>8, <4>1, <4>2, <4>3
    <3> QED BY <1>11, <3>1, <3>2
  <2> QED BY <1>7, <2>1, <2>2, <2>3, StoreBy
<1>15. \A n \in ns : \E c \in DOMAIN nu : nu[c] = n
  <2> SUFFICES ASSUME NEW n \in ns PROVE \E c \in DOMAIN nu : nu[c] = n
    OBVIOUS
  <2>1. CASE n \in S
    BY <1>2, <1>13, <2>1
  <2>2. CASE \E c \in DOMAIN nm : nm[c] = n
    BY <1>13, <2>2
  <2> QED BY <1>3, <2>1, <2>2
<1>16. Len(u) - Len(s) = q /\ m = h
  <2>1. Len(u) - Len(s) = q
    BY <1>5, <1>11, <1>12
  <2> QED BY <2>1 DEF h
<1>17. Wider(nm, s, nu, u, ns, tok)
  <2>1. \A c \in DOMAIN nm : c \in DOMAIN nu /\ nu[c] = nm[c] /\ u[c] = s[c]
    BY <1>5, <1>11, <1>12, <1>13
  <2> DEFINE at(i) == i - Len(nm)
             t(k) == tok + (k - 1) * (Depth + 1)
  <2>2. ASSUME NEW i \in DOMAIN nu, i \notin DOMAIN nm
        PROVE  /\ at(i) \in 1 .. q /\ nu[i] \in ns /\ u[i] = FieldChannel(nu[i], t(at(i)))
               /\ u[i].tok = t(at(i)) /\ t(at(i)) >= tok
    <3>1. i \in 1 .. Len(nm) + q /\ i > Len(nm)
      BY <1>5, <1>11, <1>13, <2>2 DEF Named
    <3>2. at(i) \in 1 .. q /\ i = Len(nm) + at(i)
      BY <1>5, <1>11, <3>1
    <3> DEFINE k == at(i)
    <3>3. k \in 1 .. q /\ i = Len(nm) + k
      BY <3>2
    <3>4. u[i] = new[k]
      BY <1>11, <1>12, <3>1
    <3>5. nu[i] = ms[k] /\ ms[k] \in ns
      BY <1>3, <1>5, <1>13, <3>3
    <3>6. new[k] = FieldChannel(ms[k], t(k))
      BY <1>5, <3>3 DEF new
    <3>7. FieldChannel(ms[k], t(k)).tok = t(k)
      BY DEF FieldChannel, NewChannel
    <3>8. t(k) >= tok
      <4>1. (k - 1) * (Depth + 1) \in Nat
        BY <1>5, <1>6, <3>3
      <4> QED BY <4>1
    <3> HIDE DEF t, new, at, k
    <3>9. k = at(i)
      BY DEF k
    <3> QED BY <3>3, <3>4, <3>5, <3>6, <3>7, <3>8, <3>9
  <2>3. ASSUME NEW i \in 1 .. q, NEW j \in 1 .. q, t(i) = t(j) PROVE i = j
    <3> DEFINE e == Depth + 1
    <3>1. e \in Nat \ {0} /\ i \in Nat /\ j \in Nat /\ q \in Nat
      BY <1>5, <1>6
    <3>2. (i - 1) * e \in Int /\ (j - 1) * e \in Int /\ tok + (i - 1) * e = tok + (j - 1) * e
      BY <2>3, <3>1
    <3>3. (i - 1) * e = (j - 1) * e
      BY <3>2
    <3> HIDE DEF e
    <3>4. (i - j) * e = 0
      BY <3>1, <3>3
    <3>5. i - j = 0
      BY <3>1, <3>4
    <3> QED BY <3>1, <3>5
  <2>4. ASSUME NEW i \in DOMAIN nu, NEW j \in DOMAIN nu, i \notin DOMAIN nm, j \notin DOMAIN nm,
               u[i].tok = u[j].tok
        PROVE  i = j
    <3>1. at(i) \in 1 .. q /\ at(j) \in 1 .. q /\ t(at(i)) = t(at(j))
      BY <2>2, <2>4
    <3>2. at(i) = at(j)
      BY <2>3, <3>1
    <3>3. i \in Nat /\ j \in Nat
      BY <1>13 DEF Named
    <3> QED BY <1>11, <3>2, <3>3
  <2>5. \A i \in DOMAIN nu : i \notin DOMAIN nm =>
          nu[i] \in ns /\ u[i].tok >= tok /\ u[i] = FieldChannel(nu[i], u[i].tok)
    BY <2>2
  <2> HIDE DEF at, t
  <2> QED BY <2>1, <2>4, <2>5 DEF Wider
<1> HIDE DEF q
<1> QED BY <1>5, <1>7, <1>13, <1>14, <1>15, <1>16, <1>17

LEMMA ChannelsMade ==
  ASSUME NEW nm, Named(nm), NEW tok \in Nat, NEW s \in Store(nm, tok),
         NEW ns \in SUBSET ({"mask"} \cup DOMAIN Layers)
  PROVE  LET u == EnsureChannels(s, ns, tok)
         IN  /\ Len(u) - Len(s) \in Nat /\ tok + (Len(u) - Len(s)) * (Depth + 1) \in Nat
             /\ tok <= tok + (Len(u) - Len(s)) * (Depth + 1)
             /\ \E nu : /\ Named(nu) /\ u \in Store(nu, tok + (Len(u) - Len(s)) * (Depth + 1))
                        /\ \A c \in DOMAIN nm : c \in DOMAIN nu /\ nu[c] = nm[c]
                        /\ \A n \in ns : \E c \in DOMAIN nu : nu[c] = n
<1> DEFINE u == EnsureChannels(s, ns, tok)
           m == tok + (Len(u) - Len(s)) * (Depth + 1)
<1>1. u = EnsureChannels(s, ns, tok) /\ m = tok + (Len(u) - Len(s)) * (Depth + 1)
  OBVIOUS
<1> HIDE DEF u, m
<1>2. /\ Len(u) - Len(s) \in Nat /\ m \in Nat /\ tok <= m
      /\ \E nu : /\ Named(nu) /\ u \in Store(nu, m) /\ Wider(nm, s, nu, u, ns, tok)
                 /\ \A n \in ns : \E c \in DOMAIN nu : nu[c] = n
  BY <1>1, ChannelsAdded
<1>3. \A nu : Wider(nm, s, nu, u, ns, tok) => \A c \in DOMAIN nm : c \in DOMAIN nu /\ nu[c] = nm[c]
  BY DEF Wider
<1> QED BY <1>1, <1>2, <1>3

LEMMA EachIs ==
  ASSUME NEW nm, NEW n \in Nat, NEW s \in Store(nm, n), NEW g,
         \A c \in DOMAIN nm : g[c] \in Channel(Depth, n) /\ g[c].name = s[c].name
  PROVE  [c \in DOMAIN s |-> g[c]] \in Store(nm, n)
<1>1. DOMAIN s = DOMAIN nm /\ \A c \in DOMAIN nm : s[c].name = nm[c]
  BY DEF Store
<1> DEFINE u == [c \in DOMAIN s |-> g[c]]
<1>2. DOMAIN u = DOMAIN nm /\ u = [c \in DOMAIN nm |-> u[c]] /\ \A c \in DOMAIN nm : u[c] = g[c]
  BY <1>1
<1> HIDE DEF u
<1>3. u \in Store(nm, n)
  BY <1>1, <1>2, StoreBy
<1> QED BY <1>3 DEF u

\* The store a dab finds.
LEMMA EnsuredIs ==
  ASSUME NEW nm, Named(nm), NEW tok \in Nat, NEW s \in Store(nm, tok),
         NEW ns \in SUBSET ({"mask"} \cup DOMAIN Layers)
  PROVE  LET u == Ensured(s, ns, tok)
             m == tok + (Len(u) - Len(s)) * (Depth + 1)
         IN  /\ m \in Nat /\ tok <= m
             /\ \E nu : /\ Named(nu) /\ u \in Store(nu, m)
                        /\ \A c \in DOMAIN nm : c \in DOMAIN nu /\ nu[c] = nm[c]
                        /\ \A n \in ns : \E c \in DOMAIN nu : nu[c] = n
<1> DEFINE w == EnsureChannels(s, ns, tok)
           u == Ensured(s, ns, tok)
           m == tok + (Len(w) - Len(s)) * (Depth + 1)
<1>1. m \in Nat /\ tok <= m
  BY ChannelsMade
<1>2. PICK nu : /\ Named(nu) /\ w \in Store(nu, m)
                /\ \A c \in DOMAIN nm : c \in DOMAIN nu /\ nu[c] = nm[c]
                /\ \A n \in ns : \E c \in DOMAIN nu : nu[c] = n
  BY ChannelsMade
<1> DEFINE g == [c \in DOMAIN nu |-> IF w[c].name \in ns THEN Seeded(w[c]) ELSE w[c]]
<1> HIDE DEF m
<1>3. \A c \in DOMAIN nu : g[c] \in Channel(Depth, m) /\ g[c].name = w[c].name
  <2> HIDE DEF w
  <2>1. \A c \in DOMAIN nu : w[c] \in Channel(Depth, m)
    BY <1>1, <1>2, StoreHas
  <2>2. \A c \in DOMAIN nu : Seeded(w[c]) \in Channel(Depth, m) /\ Seeded(w[c]).name = w[c].name
    BY <1>1, <2>1, SeededChannel
  <2> QED BY <2>1, <2>2
<1>4. DOMAIN w = DOMAIN nu
  BY <1>2 DEF Store
<1>5. u = [c \in DOMAIN w |-> g[c]]
  BY <1>4 DEF Ensured, EachChannel
<1> HIDE DEF w, g
<1>6. [c \in DOMAIN w |-> g[c]] \in Store(nu, m)
  BY <1>1, <1>2, <1>3, EachIs
<1> HIDE DEF u
<1>7. u \in Store(nu, m)
  BY <1>5, <1>6
<1>8. Len(u) = Len(nu) /\ Len(w) = Len(nu)
  BY <1>1, <1>2, <1>7, StoreSeq
<1>9. m = tok + (Len(u) - Len(s)) * (Depth + 1)
  BY <1>8 DEF m
<1> HIDE DEF m
<1> QED BY <1>1, <1>2, <1>7, <1>9 DEF u

\* What is owed is settled.
LEMMA SettledIs ==
  ASSUME NEW nm, Named(nm), NEW n \in Nat, NEW lv \in Lives(nm, n), NEW l \in 2 .. Depth
  PROVE  SettledDown(lv, l) \in Lives(nm, n)
<1> DEFINE settled(ch) ==
             IF ~ch.levels[l].owes THEN ch
             ELSE [RestrictChannelDown(ch, l) EXCEPT
                     !.levels[l].owes = FALSE,
                     !.levels[l - 1].owes = @ \/ (l > 2 /\ ch.levels[l].held # "none")]
           g == [c \in DOMAIN nm |-> settled(lv.store[c])]
           s == [c \in DOMAIN lv.store |-> g[c]]
           v == IF lv.mask[l - 1] # None /\ Owes(lv.store, "mask", l) THEN MaskOf(s, l - 1)
                ELSE lv.mask[l - 1]
<1>1. lv.store \in Store(nm, n) /\ lv.mask \in Masks /\ Depth \in Nat
  BY LogAssumption DEF Lives
<1>2. l - 1 \in Levels /\ l \in 1 .. Depth /\ l - 1 \in 1 .. Depth /\ l # l - 1
  BY <1>1 DEF Levels
<1>3. ASSUME NEW ch \in Channel(Depth, n)
      PROVE  settled(ch) \in Channel(Depth, n) /\ settled(ch).name = ch.name
  <2> DEFINE r == RestrictChannelDown(ch, l)
             b == r.levels[l - 1].owes \/ (l > 2 /\ ch.levels[l].held # "none")
             p == [r.levels[l] EXCEPT !.owes = FALSE]
             q == [r.levels[l - 1] EXCEPT !.owes = b]
             f == [r.levels EXCEPT ![l] = p]
             h == [f EXCEPT ![l - 1] = q]
  <2>1. r \in Channel(Depth, n) /\ r.name = ch.name
    BY <1>1, RestrictDownIs
  <2> HIDE DEF r
  <2>2. /\ r.levels \in LevelsTo(Depth, n) /\ DOMAIN r.levels = 1 .. Depth
        /\ r.levels[l] \in LevelAt(l, n) /\ r.levels[l - 1] \in LevelAt(l - 1, n)
    BY <1>1, <1>2, <2>1, ChannelLevels
  <2>3. [r EXCEPT !.levels[l].owes = FALSE,
                  !.levels[l - 1].owes = @ \/ (l > 2 /\ ch.levels[l].held # "none")]
          = [r EXCEPT !.levels = h]
    BY <1>2, <2>1, <2>2 DEF Channel
  <2>4. b \in BOOLEAN
    OBVIOUS
  <2> HIDE DEF b
  <2>5. p \in LevelAt(l, n) /\ q \in LevelAt(l - 1, n)
    BY Zenon, <2>2, <2>4, LevelFields
  <2> HIDE DEF p, q
  <2>6. f \in LevelsTo(Depth, n)
    BY <1>1, <1>2, <2>2, <2>5, LevelPut
  <2> HIDE DEF f
  <2>7. h \in LevelsTo(Depth, n)
    BY <1>1, <1>2, <2>5, <2>6, LevelPut
  <2>8. settled(ch) = ch \/ settled(ch) = [r EXCEPT !.levels = h]
    BY <2>3 DEF r
  <2> HIDE DEF h
  <2>9. [r EXCEPT !.levels = h] \in Channel(Depth, n) /\ [r EXCEPT !.levels = h].name = r.name
    BY <1>1, <2>1, <2>7, Relevel
  <2> HIDE DEF settled
  <2> QED BY <2>1, <2>8, <2>9
<1>4. SettledDown(lv, l) = [lv EXCEPT !.store = s, !.mask[l - 1] = v]
  <2>1. DOMAIN lv.store = DOMAIN nm
    BY <1>1 DEF Store
  <2>2. s = EachChannel(lv.store, settled)
    BY <2>1 DEF EachChannel
  <2> QED BY Zenon, <2>2 DEF SettledDown
<1> HIDE DEF settled
<1>5. \A c \in DOMAIN nm : g[c] \in Channel(Depth, n) /\ g[c].name = lv.store[c].name
  <2>1. \A c \in DOMAIN nm : lv.store[c] \in Channel(Depth, n)
    BY <1>1, StoreHas
  <2> QED BY <1>3, <2>1
<1> HIDE DEF g
<1>6. s \in Store(nm, n)
  BY <1>1, <1>5, EachIs
<1> HIDE DEF s
<1> DEFINE m == [lv.mask EXCEPT ![l - 1] = v]
<1>7. v = lv.mask[l - 1] \/ v \in MaskAt(l - 1)
  BY <1>2, <1>6, MaskOfIs
<1> HIDE DEF v
<1>8. m \in Masks
  <2>1. CASE v \in MaskAt(l - 1)
    BY <1>1, <1>2, <2>1, MaskPut
  <2>2. CASE v = lv.mask[l - 1]
    <3>1. m = lv.mask
      BY <1>1, <2>2, MasksAre
    <3> QED BY <1>1, <3>1
  <2> QED BY <1>7, <2>1, <2>2
<1>9. [lv EXCEPT !.store = s, !.mask[l - 1] = v] = [lv EXCEPT !.store = s, !.mask = m]
  BY DEF Lives
<1> HIDE DEF m
<1>10. [lv EXCEPT !.store = s, !.mask = m] \in Lives(nm, n)
  BY <1>6, <1>8 DEF Lives
<1> QED BY <1>4, <1>9, <1>10

\* A channel less.
\* Store u has the channels of s but c, each where from says.
Shrunk(s, nm, c, u, nu, from) ==
  /\ \A i \in DOMAIN nu : from[i] \in DOMAIN nm /\ from[i] # c /\ u[i] = s[from[i]]
  /\ \A i, j \in DOMAIN nu : from[i] = from[j] => i = j
  /\ \A k \in DOMAIN nm : k # c => \E i \in DOMAIN nu : from[i] = k
  /\ 1 \in DOMAIN nu /\ from[1] = 1

LEMMA RemovedFrom ==
  ASSUME NEW nm, Named(nm), NEW n \in Nat, NEW s \in Store(nm, n), NEW c \in DOMAIN nm, c # 1,
         NEW u, u = RemoveChannel(s, c)
  PROVE  \E nu, from : Named(nu) /\ u \in Store(nu, n) /\ Shrunk(s, nm, c, u, nu, from)
<1> DEFINE p == Len(nm)
           ch == Channel(Depth, n)
<1>1. /\ nm \in Seq(Names) /\ s \in Seq(ch) /\ Len(s) = p /\ p \in Nat /\ c \in 1 .. p
      /\ \A i \in 1 .. p : s[i] \in ch /\ nm[i] \in Names /\ s[i].name = nm[i]
  <2>1. s \in Seq(ch) /\ Len(s) = p /\ DOMAIN nm = 1 .. p /\ p \in Nat
    BY StoreSeq
  <2>2. nm \in Seq(Names)
    BY DEF Named
  <2>3. \A i \in 1 .. p : s[i] \in ch /\ s[i].name = nm[i]
    BY <2>1, StoreHas
  <2>4. \A i \in 1 .. p : nm[i] \in Names
    BY <2>1, <2>2
  <2> QED BY <2>1, <2>2, <2>3, <2>4
<1>3. ~(c < 2)
  BY <1>1
<1>4. QED
  <2> DEFINE nu == RemoveAt(nm, c)
             at(i) == IF i < c THEN i ELSE i + 1
  <2>1. ASSUME NEW S, NEW t \in Seq(S), Len(t) = p
        PROVE  /\ RemoveAt(t, c) \in Seq(S) /\ Len(RemoveAt(t, c)) = p - 1
               /\ \A i \in 1 .. p - 1 : RemoveAt(t, c)[i] = t[at(i)]
    <3> DEFINE a == SubSeq(t, 1, c - 1)
               b == SubSeq(t, c + 1, p)
    <3>1. \A i \in 1 .. p : t[i] \in S
      BY <2>1
    <3>2. a \in Seq(S) /\ Len(a) = c - 1 /\ \A i \in 1 .. c - 1 : a[i] = t[i]
      <4>1. \A i \in 1 .. c - 1 : t[i] \in S
        BY <1>1, <3>1
      <4>2. 1 \in Int /\ c - 1 \in Int /\ 1 <= c - 1
        BY <1>1, <1>3
      <4>3. /\ a \in Seq(S) /\ Len(a) = c - 1 - 1 + 1
            /\ \A i \in 1 .. c - 1 - 1 + 1 : a[i] = t[1 + i - 1]
        BY <4>1, <4>2, SubSeqProperties
      <4>4. c - 1 - 1 + 1 = c - 1 /\ \A i \in 1 .. c - 1 : 1 + i - 1 = i
        BY <1>1
      <4> HIDE DEF a
      <4> QED BY <4>3, <4>4
    <3>3. b \in Seq(S) /\ Len(b) = p - c /\ \A i \in 1 .. p - c : b[i] = t[c + i]
      <4>1. \A i \in c + 1 .. p : t[i] \in S
        BY <1>1, <3>1
      <4>2. c + 1 \in Int /\ p \in Int /\ (c + 1 <= p => p - (c + 1) + 1 = p - c) /\ (~(c + 1 <= p) => p - c = 0)
        BY <1>1
      <4>3. /\ b \in Seq(S) /\ Len(b) = IF c + 1 <= p THEN p - (c + 1) + 1 ELSE 0
            /\ \A i \in 1 .. p - (c + 1) + 1 : b[i] = t[c + 1 + i - 1]
        <5> DEFINE e == c + 1
        <5>1. e \in Int /\ \A i \in e .. p : t[i] \in S
          BY <4>1, <4>2
        <5> HIDE DEF e
        <5>2. /\ SubSeq(t, e, p) \in Seq(S) /\ Len(SubSeq(t, e, p)) = IF e <= p THEN p - e + 1 ELSE 0
              /\ \A i \in 1 .. p - e + 1 : SubSeq(t, e, p)[i] = t[e + i - 1]
          BY <4>2, <5>1, SubSeqProperties
        <5> QED BY <5>2 DEF e
      <4>4. p - (c + 1) + 1 = p - c /\ \A i \in 1 .. p - c : c + 1 + i - 1 = c + i
        BY <1>1
      <4> HIDE DEF b
      <4> QED BY <4>2, <4>3, <4>4
    <3>4. RemoveAt(t, c) = a \o b
      BY <2>1 DEF RemoveAt
    <3> HIDE DEF a, b
    <3>5. /\ a \o b \in Seq(S) /\ Len(a \o b) = Len(a) + Len(b)
          /\ \A i \in 1 .. Len(a) + Len(b) : (a \o b)[i] = IF i <= Len(a) THEN a[i] ELSE b[i - Len(a)]
      BY <3>2, <3>3, ConcatProperties
    <3>6. Len(a) + Len(b) = p - 1
      BY <1>1, <3>2, <3>3
    <3>7. ASSUME NEW i \in 1 .. p - 1 PROVE (a \o b)[i] = t[at(i)]
      <4>1. CASE i < c
        BY <1>1, <3>2, <3>5, <3>6, <4>1
      <4>2. CASE ~(i < c)
        <5>1. i - (c - 1) \in 1 .. p - c /\ c + (i - (c - 1)) = i + 1 /\ ~(i <= c - 1)
          BY <1>1, <4>2
        <5>2. (a \o b)[i] = b[i - (c - 1)]
          BY <3>2, <3>5, <3>6, <5>1
        <5>3. b[i - (c - 1)] = t[c + (i - (c - 1))]
          BY <3>3, <5>1
        <5> QED BY <4>2, <5>1, <5>2, <5>3
      <4> QED BY <4>1, <4>2
    <3> HIDE DEF at
    <3> QED BY <3>4, <3>5, <3>6, <3>7
  <2>6. u = RemoveAt(s, c)
    BY <1>3 DEF RemoveChannel
  <2>2. u \in Seq(ch) /\ Len(u) = p - 1 /\ \A i \in 1 .. p - 1 : u[i] = s[at(i)]
    BY <1>1, <2>1, <2>6
  <2>3. nu \in Seq(Names) /\ Len(nu) = p - 1 /\ \A i \in 1 .. p - 1 : nu[i] = nm[at(i)]
    BY <1>1, <2>1
  <2>4. \A i \in 1 .. p - 1 : at(i) \in 1 .. p
    BY <1>1
  <2>5. \A i, j \in 1 .. p - 1 : at(i) = at(j) => i = j
    BY <1>1
  <2> HIDE DEF nu, at
  <2>7. Named(nu)
    <3>1. p - 1 >= 1 /\ DOMAIN nu = 1 .. p - 1
      BY <1>1, <1>3, <2>3
    <3>2. \A i, j \in 1 .. p : nm[i] = nm[j] => i = j
      BY <1>1 DEF Named
    <3>3. \A i, j \in 1 .. p - 1 : nu[i] = nu[j] => i = j
      BY <2>3, <2>4, <2>5, <3>2
    <3> QED BY <2>3, <3>1, <3>3 DEF Named
  <2>8. u \in Store(nu, n)
    <3>1. DOMAIN nu = 1 .. p - 1 /\ DOMAIN u = 1 .. p - 1 /\ u = [i \in 1 .. p - 1 |-> u[i]]
      BY <2>2, <2>3
    <3>2. \A i \in 1 .. p - 1 : u[i] \in ch /\ u[i].name = nu[i]
      BY <1>1, <2>2, <2>3, <2>4
    <3> QED BY <3>1, <3>2, StoreBy
  <2>9. DOMAIN nu = 1 .. p - 1 /\ DOMAIN nm = 1 .. p /\ 1 \in 1 .. p - 1
    BY <1>1, <1>3, <2>3
  <2> DEFINE from == [i \in DOMAIN nu |-> at(i)]
  <2>10. \A i \in DOMAIN nu : from[i] = at(i)
    OBVIOUS
  <2> HIDE DEF from
  <2>11. /\ \A i \in DOMAIN nu : from[i] \in DOMAIN nm /\ u[i] = s[from[i]]
         /\ \A i, j \in DOMAIN nu : from[i] = from[j] => i = j
    BY SMTT(30), <2>2, <2>4, <2>5, <2>9, <2>10
  <2>12. \A i \in DOMAIN nu : from[i] # c
    BY <1>1, <2>9, <2>10 DEF at
  <2>13. \A k \in DOMAIN nm : k # c => \E i \in DOMAIN nu : from[i] = k
    <3> TAKE k \in DOMAIN nm
    <3> HAVE k # c
    <3>1. CASE k < c
      <4>1. k \in DOMAIN nu /\ at(k) = k
        BY <1>1, <2>9, <3>1 DEF at
      <4> QED BY <2>10, <4>1
    <3>2. CASE k > c
      <4>1. k - 1 \in DOMAIN nu /\ at(k - 1) = k
        BY <1>1, <2>9, <3>2 DEF at
      <4> QED BY <2>10, <4>1
    <3>3. k \in Nat /\ c \in Nat
      BY <1>1, <2>9
    <3> QED BY <3>1, <3>2, <3>3
  <2>14. from[1] = 1
    BY <1>1, <1>3, <2>9, <2>10 DEF at
  <2>15. 1 \in DOMAIN nu
    BY <2>9
  <2>16. Shrunk(s, nm, c, u, nu, from)
    BY <2>11, <2>12, <2>13, <2>14, <2>15 DEF Shrunk
  <2> QED BY <2>7, <2>8, <2>16

LEMMA RemovedIs ==
  ASSUME NEW nm, Named(nm), NEW n \in Nat, NEW s \in Store(nm, n), NEW c \in DOMAIN nm
  PROVE  \E nu : Named(nu) /\ RemoveChannel(s, c) \in Store(nu, n)
<1>1. CASE c < 2
  BY <1>1 DEF RemoveChannel
<1>2. CASE ~(c < 2)
  <2>1. c # 1
    BY <1>2
  <2> DEFINE u == RemoveChannel(s, c)
  <2>2. u = RemoveChannel(s, c)
    OBVIOUS
  <2> HIDE DEF u
  <2>3. \E nu, from : Named(nu) /\ u \in Store(nu, n) /\ Shrunk(s, nm, c, u, nu, from)
    BY <2>1, <2>2, RemovedFrom
  <2> QED BY <2>2, <2>3
<1> QED BY <1>1, <1>2

-----------------------------------------------------------------------------
(* A stroke folded.                                                        *)

Strokes ==
  {k \in [touched : SUBSET Verts, wrote : SUBSET DocNames, column : [DOMAIN Layers -> {None} \cup MaskAt(L)]] :
     \A n \in DOMAIN Layers : n \in k.wrote => k.column[n] \in MaskAt(L)}
Folding(nm, n) == [live : Lives(nm, n), step : Step(n)]

LEMMA StrokeHas ==
  ASSUME stroke \in Strokes
  PROVE  /\ stroke.touched \in SUBSET Verts /\ stroke.wrote \in SUBSET DocNames
         /\ GridsOf(stroke.touched) \in SUBSET Grids
         /\ \A n \in stroke.wrote \cap DOMAIN Layers : stroke.column[n] \in MaskAt(L)
<1>1. stroke.touched \in SUBSET Verts
  BY DEF Strokes
<1>2. GridsOf(stroke.touched) \subseteq Grids
  BY <1>1, GridsOfIs
<1> QED BY <1>1, <1>2 DEF Strokes

LEMMA FoldCoIs ==
  ASSUME NEW nm, Named(nm), NEW n \in Nat, NEW w \in Folding(nm, n), stroke \in Strokes
  PROVE  FoldCo(w) \in Folding(nm, n)
<1> DEFINE s == w.live.store
           step == CaptureGrids(w.step, s, {1}, GridsOf(stroke.touched))
           ch == Scattered(s[1], L, w.live.pos, stroke.touched)
           u == [s EXCEPT ![1] = ch]
           m == Dropped(w.live.mask)
           b == L >= 2
<1>1. /\ w.live \in Lives(nm, n) /\ s \in Store(nm, n) /\ w.step \in Step(n) /\ w.live.mask \in Masks
      /\ w.live.pos \in [Verts -> Sample(L)] /\ Depth \in Nat /\ L \in 1 .. Depth
  BY LogAssumption DEF Folding, Lives, MaskAt
<1>2. 1 \in DOMAIN nm
  BY DEF Named
<1>3. FoldCo(w) = [step |-> step, live |-> [w.live EXCEPT !.store = u, !.mask = m, !.owes = b]]
  BY DEF FoldCo, Folding, Lives
<1>4. b \in BOOLEAN
  OBVIOUS
<1> HIDE DEF s, b
<1>5. step \in Step(n)
  <2>1. {1} \in SUBSET DOMAIN nm
    BY <1>2
  <2> QED BY <1>1, <2>1, StrokeHas, CaptureGridsIs
<1> HIDE DEF step
<1>6. ch \in Channel(Depth, n) /\ ch.name = nm[1]
  <2>1. s[1] \in Channel(Depth, n) /\ s[1].name = nm[1]
    BY <1>1, <1>2, StoreHas
  <2> QED BY <1>1, <2>1, ScatteredIs
<1> HIDE DEF ch
<1>7. u \in Store(nm, n)
  BY <1>1, <1>6, StorePut
<1> HIDE DEF u
<1>8. m \in Masks
  BY <1>1, DroppedIs
<1> HIDE DEF m
<1>9. [w.live EXCEPT !.store = u, !.mask = m, !.owes = b] \in Lives(nm, n)
  BY <1>1, <1>4, <1>7, <1>8 DEF Lives
<1> QED BY <1>3, <1>5, <1>9 DEF Folding

LEMMA FoldMaskIs ==
  ASSUME NEW nm, Named(nm), NEW n \in Nat, NEW w \in Folding(nm, n), stroke \in Strokes,
         \E c \in DOMAIN nm : nm[c] = "mask"
  PROVE  FoldMask(w) \in Folding(nm, n)
<1> DEFINE s == w.live.store
           c == FindChannel(s, "mask")
           grids == GridsOf(stroke.touched)
           first == CaptureGrids(w.step, s, {c}, grids)
<1>1. /\ w.live \in Lives(nm, n) /\ s \in Store(nm, n) /\ w.step \in Step(n) /\ w.live.mask \in Masks
  BY DEF Folding, Lives
<1>2. c \in DOMAIN nm
  BY <1>1, FindIs
<1>3. FoldMask(w) = [step |-> CaptureFinerMask(first, s, c, grids),
                     live |-> FlushMask(w.live, L, stroke.touched)]
  BY DEF FoldMask
<1> HIDE DEF c, s, grids
<1>4. grids \in SUBSET Grids
  BY StrokeHas DEF grids
<1>5. first \in Step(n)
  <2>1. {c} \in SUBSET DOMAIN nm
    BY <1>2
  <2> QED BY <1>1, <1>4, <2>1, CaptureGridsIs
<1> HIDE DEF first
<1>6. CaptureFinerMask(first, s, c, grids) \in Step(n)
  BY <1>1, <1>2, <1>4, <1>5, CaptureFinerIs
<1>7. L \in Levels /\ w.live.mask[L] \in MaskAt(L)
  BY <1>1, MasksAre
<1>8. FlushMask(w.live, L, stroke.touched) \in Lives(nm, n)
  BY <1>1, <1>7, FlushMaskIs
<1> QED BY <1>3, <1>6, <1>8 DEF Folding

LEMMA FoldLayersIs ==
  ASSUME NEW nm, Named(nm), NEW n \in Nat, NEW w \in Folding(nm, n), stroke \in Strokes,
         NEW ns \in SUBSET (stroke.wrote \cap DOMAIN Layers)
  PROVE  FoldLayers(w, ns) \in Folding(nm, n)
<1> DEFINE s == w.live.store
           cs == {c \in DOMAIN s : s[c].name \in ns}
           step == CaptureGrids(w.step, s, cs, GridsOf(stroke.touched))
           g == [c \in DOMAIN nm |->
                   IF s[c].name \notin ns THEN s[c]
                   ELSE NoteEdit(Scattered(s[c], L, stroke.column[s[c].name], stroke.touched), L)]
           u == [c \in DOMAIN s |-> g[c]]
<1>1. /\ w.live \in Lives(nm, n) /\ s \in Store(nm, n) /\ w.step \in Step(n)
      /\ Depth \in Nat /\ L \in 1 .. Depth
  BY LogAssumption DEF Folding, Lives
<1>2. DOMAIN s = DOMAIN nm
  BY <1>1 DEF Store
<1>3. FoldLayers(w, ns) = [step |-> step, live |-> [w.live EXCEPT !.store = u]]
  BY <1>2 DEF FoldLayers, EachChannel
<1> HIDE DEF s
<1>4. cs \in SUBSET DOMAIN nm
  BY <1>2
<1> HIDE DEF cs
<1>5. step \in Step(n)
  BY <1>1, <1>4, StrokeHas, CaptureGridsIs
<1> HIDE DEF step
<1>6. \A c \in DOMAIN nm : g[c] \in Channel(Depth, n) /\ g[c].name = s[c].name
  <2> SUFFICES ASSUME NEW c \in DOMAIN nm PROVE g[c] \in Channel(Depth, n) /\ g[c].name = s[c].name
    OBVIOUS
  <2>1. s[c] \in Channel(Depth, n)
    BY <1>1, StoreHas
  <2>2. CASE s[c].name \in ns
    <3> DEFINE d == stroke.column[s[c].name]
               t == Scattered(s[c], L, d, stroke.touched)
    <3>1. d \in [Verts -> Sample(L)]
      BY <2>2, StrokeHas DEF MaskAt
    <3>2. g[c] = NoteEdit(t, L)
      BY <2>2
    <3> HIDE DEF d
    <3>3. t \in Channel(Depth, n) /\ t.name = s[c].name
      BY <1>1, <2>1, <3>1, ScatteredIs
    <3> HIDE DEF t
    <3>4. NoteEdit(t, L) \in Channel(Depth, n) /\ NoteEdit(t, L).name = t.name
      <4>1. t \in Channel(Depth, n) /\ L \in 1 .. Depth /\ Depth \in Nat /\ n \in Nat
        BY <1>1, <3>3
      <4> HIDE DEF g, u
      <4> QED BY ONLY <4>1, NoteEditIs
    <3> HIDE DEF g
    <3> QED BY <3>2, <3>3, <3>4
  <2>3. CASE s[c].name \notin ns
    BY <2>1, <2>3
  <2> QED BY <2>2, <2>3
<1> HIDE DEF g
<1>7. u \in Store(nm, n)
  BY <1>1, <1>6, EachIs
<1> HIDE DEF u
<1>8. [w.live EXCEPT !.store = u] \in Lives(nm, n)
  BY <1>1, <1>7 DEF Lives
<1> QED BY <1>3, <1>5, <1>8 DEF Folding

LEMMA FoldIs ==
  ASSUME NEW nm, Named(nm), NEW n \in Nat, NEW w \in Folding(nm, n), stroke \in Strokes,
         "mask" \in stroke.wrote => \E c \in DOMAIN nm : nm[c] = "mask"
  PROVE  Fold(w) \in Folding(nm, n)
<1> DEFINE co == IF "co" \in stroke.wrote THEN FoldCo(w) ELSE w
           mask == IF "mask" \in stroke.wrote THEN FoldMask(co) ELSE co
<1>1. co \in Folding(nm, n)
  BY FoldCoIs
<1>2. Fold(w) = FoldLayers(mask, stroke.wrote \cap DOMAIN Layers)
  BY DEF Fold
<1> HIDE DEF co
<1>3. mask \in Folding(nm, n)
  BY <1>1, FoldMaskIs
<1> HIDE DEF mask
<1> QED BY <1>2, <1>3, FoldLayersIs

-----------------------------------------------------------------------------
(* The invariant.                                                          *)

Uses == [strokes : Nat, dabs : Nat, calls : Nat, toks : Nat]
Stored == \E nm : /\ Named(nm) /\ live \in Lives(nm, used.toks)
                  /\ open /\ "mask" \in stroke.wrote => \E c \in DOMAIN nm : nm[c] = "mask"
Logged ==
  /\ steps \in Seq(Step(used.toks)) /\ cursor \in 0 .. Len(steps)
  /\ floor \in Nat /\ (SeekAcross \/ floor <= cursor)
  /\ open \in BOOLEAN /\ (open => cursor = Len(steps) - 1)
  /\ stroke \in Strokes /\ used \in Uses
Inv == Stored /\ Logged

LEMMA NoStrokeIs == NoStroke \in Strokes
BY DEF NoStroke, Strokes

LEMMA Initially ==
  ASSUME Init
  PROVE  Inv
<1>1. Depth \in Nat /\ L \in Levels /\ "disp" \in Names /\ "float" \in Types /\ TRUE \in BOOLEAN
  BY LogAssumption DEF Levels, Names, Types
<1>2. PICK alive \in SUBSET (Levels \ {L}) :
         live = [store |-> <<NewChannel("disp", "float", "delta", TRUE, Depth, 1)>>,
                 pos |-> [v \in Verts |-> Zero(L)], owes |-> FALSE,
                 mask |-> [l \in Levels |-> IF l \in alive \cup {L}
                                            THEN [v \in Verts |-> Zero(l)] ELSE None]]
  BY DEF Init
<1>3. /\ steps = <<>> /\ cursor = 0 /\ open = FALSE /\ stroke = NoStroke /\ floor = 0
      /\ used = [strokes |-> 0, dabs |-> 0, calls |-> 0, toks |-> Depth + 2]
  BY DEF Init
<1> DEFINE n == Depth + 2
           ch == NewChannel("disp", "float", "delta", TRUE, Depth, 1)
           nm == <<"disp">>
           m == [l \in Levels |-> IF l \in alive \cup {L} THEN [v \in Verts |-> Zero(l)] ELSE None]
           p == [v \in Verts |-> Zero(L)]
<1>4. n \in Nat /\ 1 + Depth < n /\ used.toks = n /\ used \in Uses
  BY <1>1, <1>3 DEF Uses
<1>5. live = [store |-> <<ch>>, pos |-> p, owes |-> FALSE, mask |-> m]
  BY <1>2
<1>6. ch \in Channel(Depth, n) /\ ch.name = "disp"
  <2>1. PICK b \in BOOLEAN : ch = NewChannel("disp", "float", "delta", b, Depth, 1)
    BY Zenon
  <2> HIDE DEF n, ch
  <2>2. /\ NewChannel("disp", "float", "delta", b, Depth, 1) \in Channel(Depth, n)
        /\ NewChannel("disp", "float", "delta", b, Depth, 1).name = "disp"
    BY <1>1, <1>4, NewChannelIs
  <2> QED BY <2>1, <2>2
<1> HIDE DEF n, ch
<1>7. \A l \in Levels : [v \in Verts |-> Zero(l)] \in MaskAt(l)
  <2>1. \A l \in Levels : l \in Nat
    BY <1>1 DEF Levels
  <2>2. 0 \in 0 .. M - 1
    BY StoreAssumption
  <2> QED BY <2>1, <2>2 DEF MaskAt, Zero, Sample
<1>8. m \in Masks /\ p \in MaskAt(L)
  <2>1. p \in MaskAt(L)
    BY <1>1, <1>7
  <2>2. DOMAIN m = Levels /\ m = [l \in Levels |-> m[l]]
    OBVIOUS
  <2>3. \A l \in Levels : (l # L /\ m[l] = None) \/ m[l] \in MaskAt(l)
    BY <1>1, <1>7
  <2> HIDE DEF m
  <2>4. m \in Masks
    BY <2>2, <2>3, MasksBy
  <2> QED BY <2>1, <2>4
<1> HIDE DEF m, p
<1>9. Named(nm)
  BY <1>1 DEF Named
<1>10. <<ch>> \in Store(nm, n)
  <2>1. DOMAIN nm = {1} /\ DOMAIN <<ch>> = {1} /\ nm[1] = "disp" /\ <<ch>>[1] = ch
    OBVIOUS
  <2>2. <<ch>> = [c \in DOMAIN nm |-> <<ch>>[c]]
    OBVIOUS
  <2> HIDE DEF nm
  <2> QED BY <1>4, <1>6, <2>1, <2>2, StoreBy
<1> HIDE DEF nm
<1>11. live \in Lives(nm, n)
  BY <1>5, <1>8, <1>10 DEF Lives
<1>12. Stored
  BY <1>3, <1>4, <1>9, <1>11 DEF Stored
<1>13. Logged
  <2>1. \A T : <<>> \in Seq(T)
    OBVIOUS
  <2>2. steps \in Seq(Step(used.toks)) /\ Len(steps) = 0 /\ cursor = 0 /\ floor = 0
    BY <1>3, <2>1
  <2>3. stroke \in Strokes /\ used \in Uses /\ open = FALSE
    BY <1>3, <1>4, NoStrokeIs
  <2>4. cursor \in 0 .. Len(steps) /\ floor \in Nat /\ floor <= cursor
    BY ONLY <2>2
  <2>5. open \in BOOLEAN /\ ~open
    BY <2>3
  <2> QED BY <2>2, <2>3, <2>4, <2>5 DEF Logged
<1> QED BY <1>12, <1>13 DEF Inv

LEMMA StoredAs ==
  ASSUME Inv
  PROVE  \E nm : /\ Named(nm) /\ live \in Lives(nm, used.toks) /\ live.store \in Store(nm, used.toks)
                 /\ live.owes \in BOOLEAN /\ live.pos \in MaskAt(L) /\ live.mask \in Masks
                 /\ used.toks \in Nat
                 /\ open /\ "mask" \in stroke.wrote => \E c \in DOMAIN nm : nm[c] = "mask"
<1>1. PICK nm : /\ Named(nm) /\ live \in Lives(nm, used.toks)
                /\ open /\ "mask" \in stroke.wrote => \E c \in DOMAIN nm : nm[c] = "mask"
  BY DEF Inv, Stored
<1>2. /\ live.store \in Store(nm, used.toks)
      /\ live.owes \in BOOLEAN /\ live.pos \in MaskAt(L) /\ live.mask \in Masks
  BY <1>1 DEF Lives
<1>3. used.toks \in Nat
  BY DEF Inv, Logged, Uses
<1> QED BY <1>1, <1>2, <1>3

LEMMA BeginStrokeKeeps ==
  ASSUME Inv, BeginStroke
  PROVE  Inv'
<1> DEFINE kept == IF bound THEN SubSeq(steps, 1, cursor) ELSE <<>>
           step == Opened(live.store, live.owes)
<1>1. /\ steps' = Append(kept, step) /\ cursor' = Len(kept) /\ floor' = IF bound THEN floor ELSE 0
      /\ open' = TRUE /\ stroke' = NoStroke /\ live' = live
      /\ used' = [used EXCEPT !.strokes = @ + 1]
  BY DEF BeginStroke
<1>2. used' \in Uses /\ used'.toks = used.toks
  BY <1>1 DEF Inv, Logged, Uses
<1>3. PICK nm : /\ Named(nm) /\ live \in Lives(nm, used.toks) /\ live.store \in Store(nm, used.toks)
                /\ live.owes \in BOOLEAN /\ used.toks \in Nat
  BY StoredAs
<1>4. step \in Step(used.toks)
  <2>1. DebtsAt(live.store) \in SUBSET AllDebts
    BY <1>3, DebtsAre
  <2> QED BY <1>3, <2>1 DEF Opened, Step
<1>5. kept \in Seq(Step(used.toks)) /\ (bound => Len(kept) = cursor) /\ (~bound => Len(kept) = 0)
  <2>1. steps \in Seq(Step(used.toks)) /\ cursor \in 0 .. Len(steps)
    BY DEF Inv, Logged
  <2> DEFINE T == Step(used.toks)
             z == SubSeq(steps, 1, cursor)
  <2> HIDE DEF T
  <2>2. z \in Seq(T) /\ Len(z) = cursor
    <3>1. \A k \in 1 .. cursor : steps[k] \in T
      BY <2>1 DEF T
    <3>2. 1 \in Int /\ cursor \in Int /\ cursor \in Nat
      BY <2>1 DEF T
    <3>3. z \in Seq(T) /\ Len(z) = IF 1 <= cursor THEN cursor - 1 + 1 ELSE 0
      BY <3>1, <3>2, SubSeqProperties
    <3> HIDE DEF z
    <3> QED BY <3>2, <3>3
  <2>3. kept = IF bound THEN z ELSE <<>>
    OBVIOUS
  <2>4. <<>> \in Seq(T) /\ Len(<<>>) = 0
    OBVIOUS
  <2> HIDE DEF z, kept
  <2> QED BY <2>2, <2>3, <2>4 DEF T
<1> HIDE DEF kept, step
<1>6. steps' \in Seq(Step(used.toks)) /\ Len(steps') = Len(kept) + 1 /\ Len(kept) \in Nat
  BY <1>1, <1>4, <1>5
<1>7. Stored'
  <2>1. "mask" \notin stroke'.wrote
    BY <1>1 DEF NoStroke
  <2> QED BY <1>1, <1>2, <1>3, <2>1 DEF Stored
<1>8. cursor' \in 0 .. Len(steps') /\ cursor' = Len(steps') - 1 /\ open' \in BOOLEAN
  BY <1>1, <1>6
<1>9. floor' \in Nat /\ (SeekAcross \/ floor' <= cursor')
  BY <1>1, <1>5, <1>6 DEF Inv, Logged
<1>10. Logged'
  BY <1>1, <1>2, <1>6, <1>8, <1>9, NoStrokeIs DEF Logged
<1> QED BY <1>7, <1>10 DEF Inv

LEMMA ReplayKeeps ==
  ASSUME Inv, ~open, NEW i \in 1 .. Len(steps), NEW lv, NEW step,
         \/ lv = Undone(live, steps[i]).live /\ step = Undone(live, steps[i]).step
         \/ lv = Redone(live, steps[i]).live /\ step = Redone(live, steps[i]).step,
         live' = lv, steps' = [steps EXCEPT ![i] = step],
         cursor' \in 0 .. Len(steps), SeekAcross \/ floor <= cursor',
         UNCHANGED <<open, stroke, floor, used>>
  PROVE  Inv'
<1>1. PICK nm : /\ Named(nm) /\ live \in Lives(nm, used.toks) /\ used.toks \in Nat
  BY StoredAs
<1>2. steps \in Seq(Step(used.toks)) /\ steps[i] \in Step(used.toks)
  BY DEF Inv, Logged
<1>3. lv \in Lives(nm, used.toks) /\ step \in Step(used.toks)
  BY <1>1, <1>2, ReplayedIs
<1>4. steps' \in Seq(Step(used.toks)) /\ Len(steps') = Len(steps)
  BY <1>2, <1>3
<1>5. Stored'
  BY <1>1, <1>3 DEF Stored
<1>6. Logged'
  BY Zenon, <1>4 DEF Inv, Logged
<1> QED BY <1>5, <1>6 DEF Inv

LEMMA UndoKeeps ==
  ASSUME Inv, Undo
  PROVE  Inv'
<1>1. /\ ~open /\ cursor > 0 /\ (SeekAcross \/ cursor > floor) /\ cursor' = cursor - 1
      /\ live' = Undone(live, steps[cursor]).live
      /\ steps' = [steps EXCEPT ![cursor] = Undone(live, steps[cursor]).step]
      /\ UNCHANGED <<open, stroke, floor, used>>
  BY DEF Undo
<1>2. cursor \in 0 .. Len(steps) /\ Len(steps) \in Nat /\ floor \in Nat
  BY DEF Inv, Logged
<1>3. cursor \in 1 .. Len(steps) /\ cursor' \in 0 .. Len(steps) /\ (SeekAcross \/ floor <= cursor')
  BY <1>1, <1>2
<1> DEFINE lv == Undone(live, steps[cursor]).live
           step == Undone(live, steps[cursor]).step
<1>4. live' = lv /\ steps' = [steps EXCEPT ![cursor] = step]
  BY <1>1
<1> QED BY <1>1, <1>3, <1>4, ReplayKeeps

LEMMA RedoKeeps ==
  ASSUME Inv, Redo
  PROVE  Inv'
<1> DEFINE i == cursor + 1
           lv == Redone(live, steps[i]).live
           step == Redone(live, steps[i]).step
<1>1. /\ ~open /\ cursor < Len(steps) /\ cursor' = i
      /\ live' = lv /\ steps' = [steps EXCEPT ![i] = step]
      /\ UNCHANGED <<open, stroke, floor, used>>
  BY DEF Redo
<1>2. cursor \in 0 .. Len(steps) /\ Len(steps) \in Nat /\ floor \in Nat /\ (SeekAcross \/ floor <= cursor)
  BY DEF Inv, Logged
<1>3. i \in 1 .. Len(steps) /\ cursor' \in 0 .. Len(steps) /\ (SeekAcross \/ floor <= cursor')
  BY <1>1, <1>2
<1> HIDE DEF i
<1> QED BY <1>1, <1>3, ReplayKeeps

LEMMA DropOldestKeeps ==
  ASSUME Inv, DropOldest
  PROVE  Inv'
<1>1. /\ ~open /\ cursor >= 1 /\ steps' = Tail(steps) /\ cursor' = cursor - 1
      /\ floor' = IF floor = 0 THEN 0 ELSE floor - 1
      /\ UNCHANGED <<live, open, stroke, used>>
  BY DEF DropOldest
<1>2. /\ steps \in Seq(Step(used.toks)) /\ cursor \in 0 .. Len(steps) /\ floor \in Nat
      /\ (SeekAcross \/ floor <= cursor)
  BY DEF Inv, Logged
<1>3. steps' \in Seq(Step(used.toks)) /\ Len(steps') = Len(steps) - 1 /\ Len(steps) \in Nat
  BY <1>1, <1>2
<1>4. cursor' \in 0 .. Len(steps') /\ floor' \in Nat /\ (SeekAcross \/ floor' <= cursor')
  BY <1>1, <1>2, <1>3
<1> QED BY Zenon, <1>1, <1>3, <1>4 DEF Inv, Stored, Logged

LEMMA SyncKeeps ==
  ASSUME Inv, Sync
  PROVE  Inv'
<1>1. /\ ~open /\ steps' = <<>> /\ cursor' = 0 /\ floor' = 0
      /\ UNCHANGED <<live, open, stroke, used>>
  BY DEF Sync
<1>2. steps' \in Seq(Step(used.toks)) /\ Len(steps') = 0
  BY <1>1
<1> QED BY <1>1, <1>2 DEF Inv, Stored, Logged

LEMMA BumpedIs ==
  ASSUME NEW l \in Levels, NEW m \in MaskAt(l), NEW v \in Verts
  PROVE  [m EXCEPT ![v] = Bumped(@)] \in MaskAt(l)
<1>1. l \in Nat /\ 1 \in 1 .. l
  BY LogAssumption DEF Levels
<1>2. m[v] \in [1 .. l -> 0 .. M - 1]
  BY DEF MaskAt, Sample
<1>3. (m[v][1] + 1) % M \in 0 .. M - 1
  BY <1>1, <1>2, StoreAssumption
<1>4. Bumped(m[v]) \in [1 .. l -> 0 .. M - 1]
  BY <1>1, <1>2, <1>3 DEF Bumped
<1>5. Bumped(m[v]) \in Sample(l)
  BY <1>4 DEF Sample
<1>6. [m EXCEPT ![v] = Bumped(@)] = [m EXCEPT ![v] = Bumped(m[v])]
  BY DEF MaskAt
<1> QED BY <1>5, <1>6 DEF MaskAt

\* What EndStroke, RemoveLayer and Switch leave.
LEMMA KeepsLogged ==
  ASSUME Inv, NEW nm, Named(nm), live' \in Lives(nm, used'.toks),
         steps' \in Seq(Step(used'.toks)), cursor' \in 0 .. Len(steps'),
         floor' \in Nat, SeekAcross \/ floor' <= cursor',
         open' = FALSE, stroke' \in Strokes, used' \in Uses
  PROVE  Inv'
<1>1. Stored'
  BY DEF Stored
<1>2. open' \in BOOLEAN /\ ~open'
  OBVIOUS
<1>3. Logged'
  BY <1>2 DEF Logged
<1> QED BY <1>1, <1>3 DEF Inv

LEMMA DabKeeps ==
  ASSUME Inv, Dab
  PROVE  Inv'
<1>1. PICK fields \in Kernels, v \in Verts :
        LET ns == fields \cap (DOMAIN Layers \cup {"mask"})
            s == Ensured(live.store, ns, used.toks)
            gathered == [n \in DOMAIN Layers |->
                           IF n \in fields /\ stroke.column[n] = None
                           THEN [w \in Verts |-> ValueAt(s, n, L)[<<Canon[w], w>>]]
                           ELSE stroke.column[n]]
        IN  /\ live' = [live EXCEPT
                  !.store = s,
                  !.pos = IF "co" \in fields THEN [live.pos EXCEPT ![v] = Bumped(@)] ELSE @,
                  !.mask = IF "mask" \in fields THEN [live.mask EXCEPT ![L][v] = Bumped(@)]
                           ELSE @]
            /\ stroke' = [touched |-> stroke.touched \cup {v}, wrote |-> stroke.wrote \cup fields,
                          column |-> [n \in DOMAIN Layers |->
                             IF n \in fields THEN [gathered[n] EXCEPT ![v] = Bumped(@)]
                             ELSE gathered[n]]]
            /\ steps' = [steps EXCEPT ![Len(steps)] =
                           CaptureLeaf(@, s, live.pos, live.mask[L], Owner[v], fields)]
            /\ used' = [used EXCEPT !.dabs = @ + 1,
                                    !.toks = @ + (Len(s) - Len(live.store)) * (Depth + 1)]
  BY Zenon DEF Dab
<1> DEFINE ns == fields \cap (DOMAIN Layers \cup {"mask"})
           s == Ensured(live.store, ns, used.toks)
           n2 == used.toks + (Len(s) - Len(live.store)) * (Depth + 1)
           read(n) == [w \in Verts |-> ValueAt(s, n, L)[<<Canon[w], w>>]]
           gathered == [n \in DOMAIN Layers |->
                          IF n \in fields /\ stroke.column[n] = None THEN read(n)
                          ELSE stroke.column[n]]
           column == [n \in DOMAIN Layers |->
                        IF n \in fields THEN [gathered[n] EXCEPT ![v] = Bumped(@)] ELSE gathered[n]]
           p == IF "co" \in fields THEN [live.pos EXCEPT ![v] = Bumped(@)] ELSE live.pos
           m == IF "mask" \in fields
                THEN [live.mask EXCEPT ![L] = [live.mask[L] EXCEPT ![v] = Bumped(@)]] ELSE live.mask
           cap == CaptureLeaf(steps[Len(steps)], s, live.pos, live.mask[L], Owner[v], fields)
<1>2. open /\ UNCHANGED <<cursor, open, floor>>
  BY DEF Dab
<1>3. PICK nm : /\ Named(nm) /\ live \in Lives(nm, used.toks) /\ live.store \in Store(nm, used.toks)
                /\ live.owes \in BOOLEAN /\ live.pos \in MaskAt(L) /\ live.mask \in Masks
                /\ used.toks \in Nat
                /\ (open /\ "mask" \in stroke.wrote => \E c \in DOMAIN nm : nm[c] = "mask")
  BY StoredAs
<1>4. ns \in SUBSET ({"mask"} \cup DOMAIN Layers) /\ fields \in SUBSET DocNames
  BY LogAssumption DEF DocNames
<1>5. n2 \in Nat /\ used.toks <= n2
  BY <1>3, <1>4, EnsuredIs
<1>6. PICK nu : /\ Named(nu) /\ s \in Store(nu, n2)
                /\ \A c \in DOMAIN nm : c \in DOMAIN nu /\ nu[c] = nm[c]
                /\ \A n \in ns : \E c \in DOMAIN nu : nu[c] = n
  <2> DEFINE t == used.toks
             st == live.store
  <2>1. t \in Nat /\ Named(nm) /\ st \in Store(nm, t) /\ ns \in SUBSET ({"mask"} \cup DOMAIN Layers)
    BY <1>3, <1>4
  <2>2. s = Ensured(st, ns, t) /\ n2 = t + (Len(s) - Len(st)) * (Depth + 1)
    OBVIOUS
  <2> HIDE DEF t, st, s, n2, ns
  <2>3. \E nu : /\ Named(nu)
                /\ Ensured(st, ns, t) \in Store(nu, t + (Len(Ensured(st, ns, t)) - Len(st)) * (Depth + 1))
                /\ \A c \in DOMAIN nm : c \in DOMAIN nu /\ nu[c] = nm[c]
                /\ \A n \in ns : \E c \in DOMAIN nu : nu[c] = n
    BY <2>1, EnsuredIs
  <2> QED BY <2>2, <2>3
<1>7. /\ steps' = [steps EXCEPT ![Len(steps)] = cap]
      /\ stroke' = [touched |-> stroke.touched \cup {v}, wrote |-> stroke.wrote \cup fields,
                    column |-> column]
  BY <1>1
<1>8. used' = [used EXCEPT !.dabs = @ + 1, !.toks = n2]
  <2>1. used \in Uses
    BY DEF Inv, Logged
  <2> QED BY <1>1, <2>1 DEF Uses
<1>9. live' = [live EXCEPT !.store = s, !.pos = p, !.mask = m]
  <2>1. [live.mask EXCEPT ![L][v] = Bumped(@)]
          = [live.mask EXCEPT ![L] = [live.mask[L] EXCEPT ![v] = Bumped(@)]]
    OBVIOUS
  <2> QED BY <1>1, <1>3, <2>1 DEF Lives
<1> HIDE DEF s, n2
<1>10. L \in Levels /\ live.mask[L] \in MaskAt(L)
  BY <1>3, MasksAre
<1>11. p \in MaskAt(L) /\ m \in Masks
  <2>1. [live.mask[L] EXCEPT ![v] = Bumped(@)] \in MaskAt(L) /\ [live.pos EXCEPT ![v] = Bumped(@)] \in MaskAt(L)
    BY <1>3, <1>10, BumpedIs
  <2> DEFINE r == [live.mask[L] EXCEPT ![v] = Bumped(@)]
  <2> HIDE DEF r
  <2>2. [live.mask EXCEPT ![L] = r] \in Masks
    BY <1>3, <1>10, <2>1, MaskPut DEF r
  <2>3. m \in Masks
    BY <1>3, <2>2 DEF r
  <2> QED BY <1>3, <2>1, <2>3
<1> HIDE DEF p, m
<1>12. live' \in Lives(nu, n2)
  BY <1>3, <1>6, <1>9, <1>11 DEF Lives
<1>13. used' \in Uses /\ used'.toks = n2
  <2>1. used \in Uses
    BY DEF Inv, Logged
  <2>2. used.dabs + 1 \in Nat
    BY <2>1 DEF Uses
  <2>3. used' = [used EXCEPT !.dabs = used.dabs + 1, !.toks = n2]
    BY <1>8
  <2> DEFINE d == used.dabs + 1
  <2> HIDE DEF d, cap, column, gathered, read, ns
  <2> QED BY ONLY <1>5, <2>1, <2>2, <2>3 DEF Uses, d
<1>14. cap \in Step(n2) /\ steps \in Seq(Step(n2)) /\ Len(steps) \in 1 .. Len(steps)
  <2>1. steps \in Seq(Step(used.toks)) /\ Len(steps) \in 1 .. Len(steps)
    BY <1>2 DEF Inv, Logged
  <2>2. Step(used.toks) \subseteq Step(n2)
    BY <1>3, <1>5, StepGrows
  <2>3. steps \in Seq(Step(n2)) /\ steps[Len(steps)] \in Step(n2)
    BY <2>1, <2>2
  <2>4. Owner[v] \in Leaves
    BY DEF Leaves
  <2>5. "mask" \in fields => FindChannel(s, "mask") # 0
    BY <1>5, <1>6, FindIs
  <2>6. live.pos \in [Verts -> Sample(L)] /\ live.mask[L] \in [Verts -> Sample(L)]
    BY <1>3, <1>10 DEF MaskAt
  <2>7. cap \in Step(n2)
    BY <1>5, <1>6, <2>3, <2>4, <2>5, <2>6, CaptureLeafIs
  <2> QED BY <2>1, <2>3, <2>7
<1> HIDE DEF cap
<1>15. steps' \in Seq(Step(n2)) /\ Len(steps') = Len(steps)
  <2> DEFINE e == Len(steps)
             T == Step(n2)
  <2>1. steps' = [steps EXCEPT ![e] = cap] /\ steps \in Seq(T) /\ cap \in T /\ e \in 1 .. Len(steps)
    BY <1>7, <1>14
  <2> HIDE DEF e, T, column, gathered, read, ns
  <2>2. [steps EXCEPT ![e] = cap] \in Seq(T) /\ Len([steps EXCEPT ![e] = cap]) = Len(steps)
    BY ONLY <2>1
  <2> QED BY <2>1, <2>2 DEF T
<1>16. stroke' \in Strokes
  <2>1. /\ stroke.touched \in SUBSET Verts /\ stroke.wrote \in SUBSET DocNames
        /\ stroke.column \in [DOMAIN Layers -> {None} \cup MaskAt(L)]
        /\ \A n \in DOMAIN Layers : n \in stroke.wrote => stroke.column[n] \in MaskAt(L)
    BY DEF Inv, Logged, Strokes
  <2>2. ASSUME NEW n \in DOMAIN Layers
        PROVE  /\ column[n] \in {None} \cup MaskAt(L)
               /\ n \in stroke.wrote \cup fields => column[n] \in MaskAt(L)
    <3>1. read(n) \in MaskAt(L)
      <4>1. n \in Names
        BY DEF Names
      <4> QED BY <1>5, <1>6, <1>10, <4>1, ReadIs
    <3> HIDE DEF read
    <3>2. /\ gathered[n] \in {None} \cup MaskAt(L)
          /\ n \in stroke.wrote \cup fields => gathered[n] \in MaskAt(L)
      BY <2>1, <3>1
    <3>3. column[n] = IF n \in fields THEN [gathered[n] EXCEPT ![v] = Bumped(@)] ELSE gathered[n]
      OBVIOUS
    <3> HIDE DEF gathered, column
    <3>4. n \in fields => [gathered[n] EXCEPT ![v] = Bumped(@)] \in MaskAt(L)
      BY <1>10, <3>2, BumpedIs
    <3> QED BY <3>2, <3>3, <3>4
  <2>3. column \in [DOMAIN Layers -> {None} \cup MaskAt(L)]
    <3>1. column = [n \in DOMAIN Layers |-> column[n]]
      OBVIOUS
    <3> HIDE DEF column
    <3> QED BY <2>2, <3>1
  <2> HIDE DEF column
  <2> QED BY <1>4, <1>7, <2>1, <2>2, <2>3 DEF Strokes
<1>17. Stored'
  <2>1. "mask" \in stroke'.wrote => \E c \in DOMAIN nu : nu[c] = "mask"
    BY <1>2, <1>3, <1>6, <1>7
  <2> QED BY <1>6, <1>12, <1>13, <2>1 DEF Stored
<1>18. Logged'
  BY <1>2, <1>13, <1>15, <1>16 DEF Inv, Logged
<1> QED BY <1>17, <1>18 DEF Inv

LEMMA EndStrokeKeeps ==
  ASSUME Inv, EndStroke
  PROVE  Inv'
<1> DEFINE n == used.toks
           w == Fold([live |-> live, step |-> Last(steps)])
           b == w.live.owes
           step == [w.step EXCEPT !.post = b, !.postAttr = DebtsAt(w.live.store)]
<1>1. /\ open /\ open' = FALSE /\ live' = w.live /\ stroke' = NoStroke /\ UNCHANGED <<floor, used>>
      /\ \/ steps' = Front(steps) /\ cursor' = cursor
         \/ steps' = Append(Front(steps), step) /\ cursor' = Len(steps)
  BY DEF EndStroke
<1>2. PICK nm : /\ Named(nm) /\ live \in Lives(nm, n) /\ n \in Nat
                /\ (open /\ "mask" \in stroke.wrote => \E c \in DOMAIN nm : nm[c] = "mask")
  BY StoredAs
<1>3. /\ steps \in Seq(Step(n)) /\ cursor = Len(steps) - 1 /\ Len(steps) \in Nat \ {0}
      /\ cursor \in Nat /\ floor \in Nat /\ (SeekAcross \/ floor <= cursor)
      /\ stroke \in Strokes /\ used \in Uses
  BY <1>1 DEF Inv, Logged
<1>4. w \in Folding(nm, n)
  <2>1. Last(steps) \in Step(n)
    BY <1>3 DEF Last
  <2>2. [live |-> live, step |-> Last(steps)] \in Folding(nm, n)
    BY <1>2, <2>1 DEF Folding
  <2> QED BY <1>1, <1>2, <1>3, <2>2, FoldIs
<1> HIDE DEF w
<1>5. w.live \in Lives(nm, n) /\ w.step \in Step(n) /\ w.live.store \in Store(nm, n) /\ b \in BOOLEAN
  BY <1>4 DEF Folding, Lives
<1> HIDE DEF b
<1>6. step \in Step(n)
  <2>1. DebtsAt(w.live.store) \in SUBSET AllDebts
    BY <1>2, <1>5, DebtsAre
  <2> QED BY <1>5, <2>1 DEF Step
<1> HIDE DEF step
<1>7. Front(steps) \in Seq(Step(n)) /\ Len(Front(steps)) = cursor
  <2> DEFINE T == Step(n)
  <2>1. Front(steps) = SubSeq(steps, 1, cursor)
    BY <1>3 DEF Front
  <2> HIDE DEF T
  <2>2. \A k \in 1 .. cursor : steps[k] \in T
    BY <1>3 DEF T
  <2>3. 1 \in Int /\ cursor \in Int
    BY <1>3
  <2>4. SubSeq(steps, 1, cursor) \in Seq(T) /\ Len(SubSeq(steps, 1, cursor)) = IF 1 <= cursor THEN cursor - 1 + 1 ELSE 0
    BY <2>2, <2>3, SubSeqProperties
  <2> DEFINE z == SubSeq(steps, 1, cursor)
  <2> HIDE DEF z
  <2>5. z \in Seq(T) /\ Len(z) = cursor
    BY <1>3, <2>4 DEF z
  <2> QED BY <2>1, <2>5 DEF T, z
<1>8. /\ steps' \in Seq(Step(n)) /\ cursor' \in 0 .. Len(steps') /\ cursor <= cursor' /\ cursor' \in Nat
  BY <1>1, <1>3, <1>6, <1>7
<1>9. floor' \in Nat /\ (SeekAcross \/ floor' <= cursor') /\ used' \in Uses /\ used'.toks = n
  BY <1>1, <1>3, <1>8
<1>10. live' \in Lives(nm, used'.toks) /\ steps' \in Seq(Step(used'.toks))
  BY <1>1, <1>5, <1>8, <1>9
<1> QED BY <1>1, <1>2, <1>8, <1>9, <1>10, NoStrokeIs, KeepsLogged

LEMMA RemoveLayerKeeps ==
  ASSUME Inv, RemoveLayer
  PROVE  Inv'
<1>1. PICK name \in Removable :
        /\ FindChannel(live.store, name) # 0
        /\ live' = [live EXCEPT !.store = RemoveChannel(@, FindChannel(live.store, name))]
  BY DEF RemoveLayer
<1>2. /\ ~open /\ used' = [used EXCEPT !.calls = @ + 1]
      /\ UNCHANGED <<open, stroke, steps, cursor, floor>>
  BY DEF RemoveLayer, Called
<1>3. PICK nm : /\ Named(nm) /\ live \in Lives(nm, used.toks) /\ live.store \in Store(nm, used.toks)
                /\ used.toks \in Nat
  BY StoredAs
<1> DEFINE c == FindChannel(live.store, name)
           u == RemoveChannel(live.store, c)
<1>4. c \in DOMAIN nm
  BY <1>1, <1>3, FindIs
<1>5. live' = [live EXCEPT !.store = u]
  BY <1>1, <1>3 DEF Lives
<1> HIDE DEF c
<1>6. PICK nu : Named(nu) /\ u \in Store(nu, used.toks)
  BY <1>3, <1>4, RemovedIs
<1> HIDE DEF u
<1>7. live' \in Lives(nu, used.toks)
  BY <1>3, <1>5, <1>6 DEF Lives
<1>8. used' \in Uses /\ used'.toks = used.toks
  BY <1>2 DEF Inv, Logged, Uses
<1>9. /\ steps \in Seq(Step(used.toks)) /\ cursor \in 0 .. Len(steps)
      /\ floor \in Nat /\ (SeekAcross \/ floor <= cursor) /\ stroke \in Strokes /\ open \in BOOLEAN
  BY DEF Inv, Logged
<1>10. open' = FALSE
  BY <1>2, <1>9
<1>11. live' \in Lives(nu, used'.toks) /\ steps' \in Seq(Step(used'.toks)) /\ cursor' \in 0 .. Len(steps')
  BY <1>2, <1>7, <1>8, <1>9
<1>12. floor' \in Nat /\ (SeekAcross \/ floor' <= cursor') /\ stroke' \in Strokes
  BY <1>2, <1>9
<1> QED BY <1>6, <1>8, <1>10, <1>11, <1>12, KeepsLogged

LEMMA EditMaskKeeps ==
  ASSUME Inv, EditMask
  PROVE  Inv'
<1>1. PICK l \in Levels, v \in Verts :
        LET s == EnsureChannels(live.store, {"mask"}, used.toks)
            m == IF live.mask[l] = None THEN MaskOf(s, l) ELSE live.mask[l]
            edited == [m EXCEPT ![v] = Bumped(@)]
            lv == FlushMask([live EXCEPT !.store = s, !.mask[l] = edited], l, {v})
        IN  /\ live' = lv
            /\ used' = [used EXCEPT !.calls = @ + 1,
                                    !.toks = @ + (Len(s) - Len(live.store)) * (Depth + 1)]
  BY DEF EditMask
<1>2. ~open /\ UNCHANGED <<open, stroke, steps, cursor, floor>>
  BY DEF EditMask
<1> DEFINE t == used.toks
           st == live.store
           ns == {"mask"}
           s == EnsureChannels(st, ns, t)
           n2 == t + (Len(s) - Len(st)) * (Depth + 1)
           m == IF live.mask[l] = None THEN MaskOf(s, l) ELSE live.mask[l]
           edited == [m EXCEPT ![v] = Bumped(@)]
           masks == [live.mask EXCEPT ![l] = edited]
           b == [live EXCEPT !.store = s, !.mask = masks]
           lv == FlushMask(b, l, {v})
<1>3. PICK nm : /\ Named(nm) /\ live \in Lives(nm, t) /\ st \in Store(nm, t)
                /\ live.mask \in Masks /\ t \in Nat
  BY StoredAs
<1>4. live' = lv
  <2>1. [live EXCEPT !.store = s, !.mask[l] = edited] = b
    BY <1>3 DEF Lives
  <2> QED BY <1>1, <2>1
<1>5. used' = [used EXCEPT !.calls = used.calls + 1, !.toks = n2]
  <2>1. used \in Uses
    BY DEF Inv, Logged
  <2> QED BY <1>1, <2>1 DEF Uses
<1>6. n2 \in Nat /\ t <= n2 /\ \E nu : Named(nu) /\ s \in Store(nu, n2)
  <2>1. ns \in SUBSET ({"mask"} \cup DOMAIN Layers)
    OBVIOUS
  <2>2. s = EnsureChannels(st, ns, t) /\ n2 = t + (Len(s) - Len(st)) * (Depth + 1)
    OBVIOUS
  <2> HIDE DEF t, st, s, n2, ns, lv, b, m, edited, masks
  <2>3. /\ t + (Len(EnsureChannels(st, ns, t)) - Len(st)) * (Depth + 1) \in Nat
        /\ t <= t + (Len(EnsureChannels(st, ns, t)) - Len(st)) * (Depth + 1)
        /\ \E nu : /\ Named(nu)
                   /\ EnsureChannels(st, ns, t) \in Store(nu, t + (Len(EnsureChannels(st, ns, t)) - Len(st)) * (Depth + 1))
    BY <1>3, <2>1, ChannelsMade
  <2> QED BY <2>2, <2>3
<1> HIDE DEF s, n2
<1>7. PICK nu : Named(nu) /\ s \in Store(nu, n2)
  BY <1>6
<1>8. m \in MaskAt(l)
  BY <1>3, <1>6, <1>7, MasksAre, MaskOfIs
<1> HIDE DEF m
<1>9. edited \in MaskAt(l)
  BY <1>8, BumpedIs
<1> HIDE DEF edited
<1>10. masks \in Masks /\ masks[l] = edited
  <2>1. masks \in Masks
    BY <1>3, <1>9, MaskPut
  <2>2. DOMAIN live.mask = Levels
    BY <1>3, MasksAre
  <2> QED BY <2>1, <2>2
<1> HIDE DEF masks
<1>11. b \in Lives(nu, n2) /\ b.mask = masks
  BY <1>3, <1>7, <1>10 DEF Lives
<1> HIDE DEF b
<1>12. lv \in Lives(nu, n2)
  BY <1>6, <1>7, <1>9, <1>10, <1>11, FlushMaskIs
<1> HIDE DEF lv
<1>13. used' \in Uses /\ used'.toks = n2
  <2>1. used \in Uses
    BY DEF Inv, Logged
  <2>2. used.calls + 1 \in Nat
    BY <2>1 DEF Uses
  <2> DEFINE d == used.calls + 1
  <2> HIDE DEF d
  <2> QED BY ONLY <1>5, <1>6, <2>1, <2>2 DEF Uses, d
<1>14. /\ steps \in Seq(Step(t)) /\ cursor \in 0 .. Len(steps)
       /\ floor \in Nat /\ (SeekAcross \/ floor <= cursor) /\ stroke \in Strokes /\ open \in BOOLEAN
  BY DEF Inv, Logged
<1>15. steps \in Seq(Step(n2))
  <2>1. Step(t) \subseteq Step(n2)
    BY <1>3, <1>6, StepGrows
  <2> QED BY <1>14, <2>1
<1>16. open' = FALSE
  BY <1>2, <1>14
<1>17. live' \in Lives(nu, used'.toks) /\ steps' \in Seq(Step(used'.toks)) /\ cursor' \in 0 .. Len(steps')
  BY <1>2, <1>4, <1>12, <1>13, <1>14, <1>15
<1>18. floor' \in Nat /\ (SeekAcross \/ floor' <= cursor') /\ stroke' \in Strokes
  BY <1>2, <1>14
<1> QED BY <1>7, <1>13, <1>16, <1>17, <1>18, KeepsLogged

LEMMA SwitchKeeps ==
  ASSUME Inv, Switch
  PROVE  Inv'
<1> DEFINE settled == IF \E n \in Names : Owes(live.store, n, L) THEN SettledDown(live, L) ELSE live
<1>1. PICK low \in 1 .. Depth + 1, high \in 1 .. Depth + 1 :
        live' = [settled EXCEPT !.owes = FALSE, !.store = EvictFrom(EvictFrom(@, low, L - 1), high, L)]
  BY Zenon DEF Switch
<1>2. /\ ~open /\ L >= 2 /\ used' = [used EXCEPT !.calls = @ + 1]
      /\ UNCHANGED <<open, stroke>>
      /\ \/ steps' = <<>> /\ cursor' = 0 /\ floor' = 0
         \/ steps' = steps /\ cursor' = cursor /\ (floor' = floor \/ floor' = cursor)
  BY DEF Switch, Called
<1>3. PICK nm : /\ Named(nm) /\ live \in Lives(nm, used.toks) /\ used.toks \in Nat
  BY StoredAs
<1>4. settled \in Lives(nm, used.toks)
  <2>1. L \in 2 .. Depth
    BY <1>2, LogAssumption
  <2> QED BY <1>3, <2>1, SettledIs
<1> HIDE DEF settled
<1> DEFINE a == EvictFrom(settled.store, low, L - 1)
           b == EvictFrom(a, high, L)
<1>5. live' = [settled EXCEPT !.owes = FALSE, !.store = b]
  BY <1>1, <1>4 DEF Lives
<1>6. settled.store \in Store(nm, used.toks)
  BY <1>4 DEF Lives
<1>7. a \in Store(nm, used.toks)
  BY <1>3, <1>6, EvictedIs DEF EvictFrom
<1> HIDE DEF a
<1>8. b \in Store(nm, used.toks)
  BY <1>3, <1>7, EvictedIs DEF EvictFrom
<1> HIDE DEF b
<1>9. live' \in Lives(nm, used.toks)
  BY <1>4, <1>5, <1>8 DEF Lives
<1>10. used' \in Uses /\ used'.toks = used.toks
  BY <1>2 DEF Inv, Logged, Uses
<1>11. /\ steps \in Seq(Step(used.toks)) /\ cursor \in 0 .. Len(steps) /\ Len(steps) \in Nat
       /\ floor \in Nat /\ (SeekAcross \/ floor <= cursor) /\ stroke \in Strokes /\ open \in BOOLEAN
  BY DEF Inv, Logged
<1>12. /\ steps' \in Seq(Step(used.toks)) /\ cursor' \in 0 .. Len(steps')
       /\ floor' \in Nat /\ (SeekAcross \/ floor' <= cursor')
  <2>1. CASE steps' = <<>> /\ cursor' = 0 /\ floor' = 0
    <3>1. Len(steps') = 0 /\ steps' \in Seq(Step(used.toks))
      BY <2>1
    <3> QED BY <2>1, <3>1
  <2>2. CASE steps' = steps /\ cursor' = cursor /\ (floor' = floor \/ floor' = cursor)
    BY <1>11, <2>2
  <2> QED BY <1>2, <2>1, <2>2
<1>13. open' = FALSE /\ stroke' \in Strokes
  BY <1>2, <1>11
<1>14. live' \in Lives(nm, used'.toks) /\ steps' \in Seq(Step(used'.toks))
  BY <1>9, <1>10, <1>12
<1> QED BY <1>3, <1>10, <1>12, <1>13, <1>14, KeepsLogged

LEMMA StutterKeeps ==
  ASSUME Inv, UNCHANGED vars
  PROVE  Inv'
BY DEF Inv, Stored, Logged, vars

(* The store and the log are in order after every step: what a stroke, an  *)
(* undo, a host call or a switch writes fits its channel and level.        *)
THEOREM Invariance == Spec => []Inv
<1>1. Init => Inv
  BY Initially
<1>2. Inv /\ [Next]_vars => Inv'
  BY BeginStrokeKeeps, DabKeeps, EndStrokeKeeps, UndoKeeps, RedoKeeps, DropOldestKeeps,
     SyncKeeps, RemoveLayerKeeps, EditMaskKeeps, SwitchKeeps, StutterKeeps DEF Next
<1> QED BY <1>1, <1>2, PTL DEF Spec

LEMMA InvTypes ==
  ASSUME Inv
  PROVE  TypeOK
<1>1. PICK nm : /\ Named(nm) /\ live.store \in Store(nm, used.toks)
                /\ live.pos \in MaskAt(L) /\ live.mask \in Masks /\ used.toks \in Nat
  BY StoredAs
<1>2. live.pos \in [Verts -> Sample(L)]
  BY <1>1 DEF MaskAt
<1>3. /\ \A l \in Levels : live.mask[l] = None \/ live.mask[l] \in [Verts -> Sample(l)]
      /\ live.mask[L] # None
  <2>1. \A l \in Levels : live.mask[l] = None \/ live.mask[l] \in [Verts -> Sample(l)]
    BY <1>1, MasksAre DEF MaskAt
  <2>2. live.mask[L] \in [Verts -> Sample(L)]
    BY <1>1, MasksAre DEF MaskAt
  <2>3. DOMAIN live.mask[L] # DOMAIN None
    BY <2>2, LogAssumption DEF None
  <2> QED BY <2>1, <2>3
<1>4. /\ cursor \in 0 .. Len(steps) /\ floor \in Nat /\ (SeekAcross \/ floor <= cursor)
      /\ (open => cursor = Len(steps) - 1)
  BY DEF Inv, Logged
<1>5. ASSUME NEW c \in DOMAIN live.store
      PROVE  /\ Len(live.store[c].levels) = Depth
             /\ \A l \in Levels : /\ live.store[c].levels[l].val \in [Sites -> Sample(l)]
                                  /\ live.store[c].levels[l].tok < used.toks
             /\ \A d \in DOMAIN live.store \ {c} : live.store[c].name # live.store[d].name
  <2>1. c \in DOMAIN nm /\ DOMAIN live.store = DOMAIN nm
    BY <1>1 DEF Store
  <2>2. Len(live.store[c].levels) = Depth
    BY <1>1, <2>1, StoreHas
  <2>3. ASSUME NEW l \in Levels
        PROVE  /\ live.store[c].levels[l].val \in [Sites -> Sample(l)]
               /\ live.store[c].levels[l].tok < used.toks
    <3>1. /\ live.store[c].levels[l].val \in [Sites -> Sample(l)]
          /\ live.store[c].levels[l].tok \in 0 .. used.toks - 1
      BY <1>1, <2>1, StoreLevel
    <3> QED BY <1>1, <3>1
  <2>4. \A d \in DOMAIN nm : live.store[d].name = nm[d]
    BY <1>1 DEF Store
  <2>5. \A d \in DOMAIN nm : nm[c] = nm[d] => c = d
    BY <1>1, <2>1 DEF Named
  <2> QED BY <2>1, <2>2, <2>3, <2>4, <2>5
<1> QED BY <1>2, <1>3, <1>4, <1>5 DEF TypeOK

(* TypeOK holds always: no swap puts samples of one level at another, no   *)
(* channel is made twice, no token is used before it is given.             *)
THEOREM TypesHold == Spec => []TypeOK
BY Invariance, InvTypes, PTL

-----------------------------------------------------------------------------
(* A level added and dropped again.                                        *)

\* A channel with a level more, and with its finest dropped.
Grown(ch, depth, tok) == Append(ch.levels, AllocLevel(ch.rule, depth + 1, tok))
Raised(ch, depth, tok) ==
  [ch EXCEPT !.levels = IF ch.rule = "authored" THEN SeededFromBelow(Grown(ch, depth, tok), depth + 1)
                        ELSE Grown(ch, depth, tok)]
Down(ch, depth) == IF ch.rule = "authored" THEN RestrictedToBelow(ch.levels, depth) ELSE ch.levels
Lowered(ch, depth) ==
  [ch EXCEPT !.levels = Front(IF depth >= 2 /\ ch.levels[depth].owes
                              THEN [Down(ch, depth) EXCEPT ![depth - 1].owes = TRUE]
                              ELSE Down(ch, depth))]

\* All but the last of E levels.
LEMMA FrontIs ==
  ASSUME NEW D \in Nat, NEW E, E = D + 1, NEW k, DOMAIN k = 1 .. E, k = [l \in 1 .. E |-> k[l]]
  PROVE  DOMAIN Front(k) = 1 .. D /\ \A l \in 1 .. D : Front(k)[l] = k[l]
<1> DEFINE T == {k[l] : l \in 1 .. E}
           z == SubSeq(k, 1, D)
<1>1. E \in Nat /\ E - 1 = D /\ 1 \in Int /\ D \in Int /\ 1 .. D \subseteq 1 .. E
  OBVIOUS
<1>2. \A l \in 1 .. E : k[l] \in T
  OBVIOUS
<1> HIDE DEF T
<1>3. k \in [1 .. E -> T]
  BY <1>2
<1>4. k \in Seq(T) /\ Len(k) = E
  BY <1>1, <1>3
<1>5. Front(k) = z
  BY <1>1, <1>4 DEF Front
<1>6. \A l \in 1 .. D : k[l] \in T
  BY <1>1, <1>2
<1>7. /\ z \in Seq(T) /\ Len(z) = IF 1 <= D THEN D - 1 + 1 ELSE 0
      /\ \A i \in 1 .. D - 1 + 1 : z[i] = k[1 + i - 1]
  BY SMTT(20), <1>1, <1>6, SubSeqProperties
<1> HIDE DEF z
<1>8. D - 1 + 1 = D /\ (~(1 <= D) => D = 0) /\ \A i \in 1 .. D : 1 + i - 1 = i
  OBVIOUS
<1>9. z \in Seq(T) /\ Len(z) = D /\ \A i \in 1 .. D : z[i] = k[i]
  BY <1>7, <1>8
<1>10. DOMAIN z = 1 .. D
  BY <1>9
<1> QED BY <1>5, <1>9, <1>10

\* A level E above D seeded, and taken back.
LEMMA SeededTop ==
  ASSUME NEW D \in Nat \ {0}, NEW E, E = D + 1, NEW g, DOMAIN g = 1 .. E,
         g = [l \in 1 .. E |-> g[l]], g[D].held # "none"
  PROVE  SeededFromBelow(g, E)
           = [[g EXCEPT ![E] = [g[E] EXCEPT !.val = [x \in Sites |-> Prolonged(g[D].val[x])],
                                            !.held = "chunks"]]
              EXCEPT ![D] = [g[D] EXCEPT !.held = "chunks"]]
<1>1. E - 1 = D /\ E # D /\ ~(E < 2) /\ E \in 1 .. E /\ D \in 1 .. E
  OBVIOUS
<1> QED BY Zenon, <1>1 DEF SeededFromBelow

\* Levels up to E; a level in chunks; one that is new.
Sized(g, E) == DOMAIN g = 1 .. E /\ g = [l \in 1 .. E |-> g[l]]
Chunked(x) == [x EXCEPT !.held = "chunks"]
Fresh(tok, bl) == [tok |-> tok, owes |-> FALSE, val |-> bl, held |-> "none"]
Changed(g, i, a, j, b) == [[g EXCEPT ![i] = a] EXCEPT ![j] = b]

LEMMA PutTwo ==
  ASSUME NEW D \in Nat \ {0}, NEW E, E = D + 1, NEW g, Sized(g, E), NEW a, NEW b, NEW i, NEW j,
         {i, j} = {D, E}, i # j, NEW h, h = Changed(g, i, a, j, b)
  PROVE  /\ Sized(h, E) /\ h[i] = a /\ h[j] = b
         /\ \A l \in 1 .. D : l # D => h[l] = g[l]
<1>a. DOMAIN g = 1 .. E /\ g = [l \in 1 .. E |-> g[l]] /\ h = [[g EXCEPT ![i] = a] EXCEPT ![j] = b]
  BY DEF Sized, Changed
<1>1. i \in 1 .. E /\ j \in 1 .. E
  <2>1. E \in 1 .. E /\ D \in 1 .. E
    OBVIOUS
  <2> QED BY <2>1
<1>2. \A l \in 1 .. D : l # D => l \in 1 .. E /\ l # i /\ l # j
  <2>1. \A l \in 1 .. D : l \in 1 .. E /\ l # E
    OBVIOUS
  <2>2. \A l : l # D /\ l # E => l # i /\ l # j
    OBVIOUS
  <2> QED BY <2>1, <2>2
<1>3. DOMAIN h = 1 .. E /\ h = [l \in 1 .. E |-> h[l]]
  BY <1>a
<1>4. \A l \in 1 .. E : h[l] = IF l = j THEN b ELSE IF l = i THEN a ELSE g[l]
  BY <1>a
<1> QED BY <1>1, <1>2, <1>3, <1>4 DEF Sized

\* What is seeded into a new level and taken back is what was there.
LEMMA SeededAndBack ==
  ASSUME NEW D \in Nat \ {0}, NEW E, E = D + 1, NEW g, Sized(g, E), g[D].held # "none",
         NEW n, g[D] \in LevelAt(D, n), NEW tok, NEW bl, g[E] = Fresh(tok, bl),
         NEW u, u = SeededFromBelow(g, E), NEW t, t = RestrictedToBelow(u, E)
  PROVE  /\ ~u[E].owes /\ Sized(t, E) /\ t[D] = Chunked(g[D])
         /\ \A l \in 1 .. D : l # D => t[l] = g[l]
<1>a. DOMAIN g = 1 .. E /\ g = [l \in 1 .. E |-> g[l]]
  BY DEF Sized
<1>b. g[E] = [tok |-> tok, owes |-> FALSE, val |-> bl, held |-> "none"]
  BY DEF Fresh
<1>c. g[D].val \in [Sites -> Sample(D)]
  BY Zenon, LevelFields
<1> DEFINE v == [x \in Sites |-> Prolonged(g[D].val[x])]
           p == [g[E] EXCEPT !.val = v, !.held = "chunks"]
           q == [g[D] EXCEPT !.held = "chunks"]
           h == SeededFromBelow(g, E)
           w == [x \in Sites |-> Injected(v[x])]
           k == RestrictedToBelow(h, E)
           r == [q EXCEPT !.val = w, !.held = "chunks"]
<1>1. D # E
  OBVIOUS
<1>2. w = g[D].val
  <2>1. \A x \in Sites : g[D].val[x] \in Sample(D)
    BY <1>c
  <2>2. \A x \in Sites : Injected(v[x]) = g[D].val[x]
    BY <2>1, ProlongedSample
  <2> HIDE DEF v
  <2>3. g[D].val = [x \in Sites |-> g[D].val[x]]
    BY <1>c
  <2> QED BY <2>2, <2>3
<1>3. h = [[g EXCEPT ![E] = p] EXCEPT ![D] = q]
  BY Zenon, <1>a, SeededTop
<1>4. p.val = v /\ p.held = "chunks" /\ p.owes = FALSE
  BY <1>b
<1>5. r = q
  <2> HIDE DEF w, v
  <2> QED BY <1>2 DEF LevelAt
<1> HIDE DEF p, q, v
<1>6. {E, D} = {D, E}
  OBVIOUS
<1> HIDE DEF h
<1>7. /\ DOMAIN h = 1 .. E /\ h = [l \in 1 .. E |-> h[l]] /\ h[E] = p /\ h[D] = q
      /\ \A l \in 1 .. D : l # D => h[l] = g[l]
  <2>1. h = Changed(g, E, p, D, q)
    BY <1>3 DEF Changed
  <2>2. Sized(h, E) /\ h[E] = p /\ h[D] = q /\ \A l \in 1 .. D : l # D => h[l] = g[l]
    BY <1>1, <1>6, <2>1, PutTwo
  <2> QED BY <2>2 DEF Sized
<1>8. k = [[h EXCEPT ![D] = [h[D] EXCEPT !.val = [x \in Sites |-> Injected(h[E].val[x])], !.held = "chunks"]]
           EXCEPT ![E] = [h[E] EXCEPT !.held = "chunks"]]
  <2>1. h[E].held # "none"
    <3>1. p.held # "none"
      BY <1>4
    <3> HIDE DEF p
    <3> QED BY <1>7, <3>1
  <2>2. DOMAIN h = 1 .. E /\ h = [l \in 1 .. E |-> h[l]]
    BY <1>7
  <2>3. k = RestrictedToBelow(h, E)
    BY DEF k
  <2> HIDE DEF k
  <2>4. E - 1 = D /\ ~(E < 2) /\ E \in 1 .. E /\ D \in 1 .. E
    OBVIOUS
  <2> QED BY ONLY <1>1, <2>1, <2>2, <2>3, <2>4 DEF RestrictedToBelow
<1>9. k = [[h EXCEPT ![D] = r] EXCEPT ![E] = [p EXCEPT !.held = "chunks"]]
  BY <1>4, <1>7, <1>8
<1> DEFINE z == [p EXCEPT !.held = "chunks"]
<1> HIDE DEF k, r, z
<1>10. k = [[h EXCEPT ![D] = r] EXCEPT ![E] = z]
  BY <1>9 DEF z
<1>11. /\ DOMAIN k = 1 .. E /\ k = [l \in 1 .. E |-> k[l]] /\ k[D] = r
       /\ \A l \in 1 .. D : l # D => k[l] = h[l]
  <2>1. k = Changed(h, D, r, E, z) /\ Sized(h, E)
    BY <1>7, <1>10 DEF Changed, Sized
  <2>2. Sized(k, E) /\ k[D] = r /\ \A l \in 1 .. D : l # D => k[l] = h[l]
    BY <1>1, <2>1, PutTwo
  <2> QED BY <2>2 DEF Sized
<1>12. ~h[E].owes /\ k[D] = q /\ \A l \in 1 .. D : l # D => k[l] = g[l]
  BY <1>4, <1>5, <1>7, <1>11
<1>13. u = h /\ t = k
  BY DEF h, k
<1> QED BY <1>11, <1>12, <1>13 DEF q, Sized, Chunked

\* Channel a is ch but for levels that have been rehydrated.
Restacked(a, ch, D) ==
  \E r : /\ DOMAIN r = 1 .. D /\ a = [ch EXCEPT !.levels = r]
         /\ \A l \in 1 .. D : \/ r[l] = ch.levels[l]
                              \/ /\ ch.levels[l].held # "none"
                                 /\ r[l] = [ch.levels[l] EXCEPT !.held = "chunks"]

\* A channel whose levels have been raised by one and lowered again.
LEMMA RestackedChannel ==
  ASSUME NEW D \in Nat \ {0}, NEW n \in Nat, NEW ch \in Channel(D, n), NEW tok
  PROVE  Restacked(Lowered(Raised(ch, D, tok), D + 1), ch, D)
<1> DEFINE f == ch.levels
           g == Grown(ch, D, tok)
           up == IF ch.rule = "authored" THEN SeededFromBelow(g, D + 1) ELSE g
           a == Raised(ch, D, tok)
<1>1. /\ DOMAIN f = 1 .. D /\ Len(f) = D /\ f = [l \in 1 .. D |-> f[l]]
      /\ f[D] \in LevelAt(D, n) /\ f[D].val \in [Sites -> Sample(D)]
  <2>1. DOMAIN f = 1 .. D /\ Len(f) = D /\ f \in LevelsTo(D, n) /\ f[D] \in LevelAt(D, n)
    BY ChannelLevels
  <2> HIDE DEF f
  <2>2. f = [l \in 1 .. D |-> f[l]]
    BY <2>1, LevelsAre
  <2> QED BY Zenon, <2>1, <2>2, LevelFields
<1>2. PICK E : E = D + 1
  OBVIOUS
<1>3. a = [ch EXCEPT !.levels = up] /\ a.levels = up /\ a.rule = ch.rule
  <2>1. a = [ch EXCEPT !.levels = up]
    BY DEF Raised
  <2> HIDE DEF up, a
  <2> QED BY <2>1 DEF Channel
<1>4. /\ g[E] = AllocLevel(ch.rule, E, tok) /\ DOMAIN g = 1 .. E
      /\ g = [l \in 1 .. E |-> g[l]] /\ \A l \in 1 .. D : g[l] = f[l]
  <2> HIDE DEF f
  <2>1. g = Append(f, AllocLevel(ch.rule, E, tok))
    BY <1>2 DEF Grown, f
  <2> DEFINE T == {f[l] : l \in 1 .. D} \cup {AllocLevel(ch.rule, E, tok)}
             e == AllocLevel(ch.rule, E, tok)
  <2>2. f \in Seq(T)
    <3>1. \A l \in 1 .. D : f[l] \in T
      OBVIOUS
    <3> HIDE DEF T
    <3>2. f \in [1 .. D -> T]
      BY <1>1, <3>1
    <3> QED BY <3>2
  <2>3. e \in T
    OBVIOUS
  <2> HIDE DEF T, e, g
  <2>4. g = Append(f, e)
    BY <2>1 DEF e
  <2>5. g \in Seq(T) /\ Len(g) = E /\ g[E] = e /\ \A l \in 1 .. D : g[l] = f[l]
    BY <1>1, <1>2, <2>2, <2>3, <2>4, AppendProperties
  <2>6. DOMAIN g = 1 .. E /\ g = [l \in 1 .. E |-> g[l]]
    BY <2>5
  <2> QED BY <2>5, <2>6 DEF e
<1> DEFINE bl == Blank(E)
<1> HIDE DEF g
<1>5. ~g[E].owes /\ (ch.rule = "authored" => g[E] = [tok |-> tok, owes |-> FALSE, val |-> bl, held |-> "none"])
  <2> DEFINE h == IF ch.rule = "authored" THEN "none" ELSE "chunks"
  <2>1. g[E] = [tok |-> tok, owes |-> FALSE, val |-> bl, held |-> h]
    BY ONLY <1>4 DEF AllocLevel
  <2>2. ch.rule = "authored" => h = "none"
    OBVIOUS
  <2> HIDE DEF h, bl
  <2>3. ~g[E].owes
    BY <2>1
  <2> QED BY <2>1, <2>2, <2>3
<1>6. \A k : k = Down(a, E) /\ ~up[E].owes
               => Lowered(a, D + 1) = [ch EXCEPT !.levels = Front(k)]
  <2> HIDE DEF a, up
  <2> TAKE k
  <2> HAVE k = Down(a, E) /\ ~up[E].owes
  <2>1. ~(E >= 2 /\ a.levels[E].owes) /\ Down(a, E) = k
    BY <1>3
  <2>2. Lowered(a, E) = [a EXCEPT !.levels = Front(k)]
    BY <2>1 DEF Lowered
  <2>3. [a EXCEPT !.levels = Front(k)] = [ch EXCEPT !.levels = Front(k)]
    BY <1>3
  <2> QED BY <1>2, <2>2, <2>3
<1>7. Down(a, E) = IF ch.rule = "authored" THEN RestrictedToBelow(up, E) ELSE up
  <2> HIDE DEF a, up
  <2> QED BY <1>3 DEF Down
<1> HIDE DEF a, g, bl, f
<1>8. CASE up = g /\ Down(a, E) = g
  <2>1. Lowered(a, D + 1) = [ch EXCEPT !.levels = Front(g)]
    BY <1>5, <1>6, <1>8
  <2>2. DOMAIN Front(g) = 1 .. D /\ \A l \in 1 .. D : Front(g)[l] = g[l]
    BY <1>2, <1>4, FrontIs
  <2> DEFINE r == Front(g)
  <2> HIDE DEF r
  <2>3. /\ DOMAIN r = 1 .. D /\ \A l \in 1 .. D : r[l] = f[l]
        /\ Lowered(a, D + 1) = [ch EXCEPT !.levels = r]
    BY <2>1, <2>2, <1>4 DEF r
  <2> QED BY <2>3 DEF a, f, Restacked
<1>9. CASE ch.rule = "authored" /\ f[D].held # "none"
  <2> DEFINE u == SeededFromBelow(g, E)
             k == RestrictedToBelow(u, E)
  <2>1. g[D] = f[D]
    BY <1>4
  <2>2. g[E] = [tok |-> tok, owes |-> FALSE, val |-> bl, held |-> "none"]
    BY <1>5, <1>9
  <2>3. /\ ~u[E].owes /\ DOMAIN k = 1 .. E /\ k = [l \in 1 .. E |-> k[l]]
        /\ k[D] = [g[D] EXCEPT !.held = "chunks"] /\ \A l \in 1 .. D : l # D => k[l] = g[l]
    <3>1. g[D].held # "none" /\ g[D] \in LevelAt(D, n)
      BY <1>1, <1>9, <2>1
    <3>2. Sized(g, E) /\ g[E] = Fresh(tok, bl)
      BY <1>4, <2>2 DEF Sized, Fresh
    <3> HIDE DEF u, k
    <3>3. u = SeededFromBelow(g, E) /\ k = RestrictedToBelow(u, E)
      BY DEF u, k
    <3>4. /\ ~u[E].owes /\ Sized(k, E) /\ k[D] = Chunked(g[D])
          /\ \A l \in 1 .. D : l # D => k[l] = g[l]
      BY ONLY <1>2, <3>1, <3>2, <3>3, D \in Nat \ {0}, SeededAndBack
    <3> QED BY <3>4 DEF Sized, Chunked
  <2>4. up = u /\ Down(a, E) = k
    BY <1>2, <1>7, <1>9
  <2> HIDE DEF u, k, up
  <2>5. Lowered(a, D + 1) = [ch EXCEPT !.levels = Front(k)]
    BY <1>6, <2>3, <2>4
  <2>6. DOMAIN Front(k) = 1 .. D /\ \A l \in 1 .. D : Front(k)[l] = k[l]
    BY <1>2, <2>3, FrontIs
  <2>7. \A l \in 1 .. D : \/ Front(k)[l] = f[l]
                          \/ f[l].held # "none" /\ Front(k)[l] = [f[l] EXCEPT !.held = "chunks"]
    BY <1>4, <1>9, <2>3, <2>6
  <2> QED BY <2>5, <2>6, <2>7 DEF a, f, Restacked
<1>10. CASE ch.rule = "authored" /\ f[D].held = "none"
  <2>1. E - 1 = D /\ D \in 1 .. D
    BY <1>2
  <2>2. g[D].held = "none" /\ g[E].held = "none"
    BY <1>4, <1>5, <1>10, <2>1
  <2>3. SeededFromBelow(g, E) = g /\ RestrictedToBelow(g, E) = g
    BY <2>1, <2>2 DEF SeededFromBelow, RestrictedToBelow
  <2>4. up = g /\ Down(a, E) = g
    BY <1>2, <1>7, <1>10, <2>3
  <2> QED BY <1>8, <2>4
<1>11. CASE ch.rule # "authored"
  <2>1. up = g /\ Down(a, E) = g
    BY <1>7, <1>11
  <2> QED BY <1>8, <2>1
<1> QED BY <1>9, <1>10, <1>11

\* A level as it is when it has been rehydrated.
Rehydrated(x) == IF x.held = "blob" THEN [x EXCEPT !.held = "chunks"] ELSE x

LEMMA RehydratedIs ==
  ASSUME NEW l, NEW n, NEW x \in LevelAt(l, n), NEW y,
         y = x \/ (x.held # "none" /\ y = [x EXCEPT !.held = "chunks"])
  PROVE  Rehydrated(y) = Rehydrated(x)
<1>1. CASE y = x
  BY <1>1
<1>2. CASE x.held = "blob" /\ y = [x EXCEPT !.held = "chunks"]
  BY <1>2 DEF Rehydrated, LevelAt
<1>3. CASE x.held = "chunks" /\ y = [x EXCEPT !.held = "chunks"]
  <2>1. y = x
    BY <1>3 DEF LevelAt
  <2> QED BY <2>1
<1> QED BY <1>1, <1>2, <1>3 DEF LevelAt, Held

LEMMA EnsureAllIs ==
  ASSUME NEW s, \A c \in DOMAIN s : DOMAIN s[c].levels = 1 .. Depth, 1 \in DOMAIN s
  PROVE  EnsureAll(s) = [c \in DOMAIN s |-> [s[c] EXCEPT !.levels =
                            [l \in 1 .. Depth |-> Rehydrated(s[c].levels[l])]]]
<1>1. DOMAIN s[1].levels = 1 .. Depth
  OBVIOUS
<1>2. EnsureAll(s) = Reheld(s, 1 .. Depth, "blob", "chunks")
  BY <1>1 DEF EnsureAll, EnsureResident
<1>3. Reheld(s, 1 .. Depth, "blob", "chunks")
        = [c \in DOMAIN s |-> [s[c] EXCEPT !.levels = [l \in DOMAIN s[c].levels |->
             IF l \in 1 .. Depth /\ s[c].levels[l].held = "blob"
             THEN [s[c].levels[l] EXCEPT !.held = "chunks"] ELSE s[c].levels[l]]]]
  BY DEF Reheld, EachLevel
<1>4. \A c \in DOMAIN s :
        [l \in DOMAIN s[c].levels |->
             IF l \in 1 .. Depth /\ s[c].levels[l].held = "blob"
             THEN [s[c].levels[l] EXCEPT !.held = "chunks"] ELSE s[c].levels[l]]
          = [l \in 1 .. Depth |-> Rehydrated(s[c].levels[l])]
  BY DEF Rehydrated
<1> QED BY <1>2, <1>3, <1>4

LEMMA RestackedAre ==
  ASSUME NEW s, NEW D, NEW tok, NEW E
  PROVE  /\ AddLevel(s, D, tok) = [c \in DOMAIN s |-> Raised(s[c], D, tok)]
         /\ DropTopLevel(s, E) = [c \in DOMAIN s |-> Lowered(s[c], E)]
<1>1. AddLevel(s, D, tok) = [c \in DOMAIN s |-> Raised(s[c], D, tok)]
  BY DEF AddLevel, EachChannel, Raised, Grown
<1>2. DropTopLevel(s, E) = [c \in DOMAIN s |-> Lowered(s[c], E)]
  BY DEF DropTopLevel, EachChannel, Lowered, Down
<1> QED BY <1>1, <1>2

LEMMA InvRestacks ==
  ASSUME Inv
  PROVE  RestackIsIdentity
<1>1. PICK nm : /\ Named(nm) /\ live.store \in Store(nm, used.toks) /\ used.toks \in Nat
  BY StoredAs
<1> DEFINE s == live.store
           n == used.toks
           E == Depth + 1
           u == AddLevel(s, Depth, n)
           t == DropTopLevel(u, E)
<1>2. Depth \in Nat \ {0} /\ 1 .. Depth = Levels
  BY LogAssumption DEF Levels
<1>3. /\ DOMAIN s = DOMAIN nm /\ 1 \in DOMAIN s
      /\ \A c \in DOMAIN s : /\ s[c] \in Channel(Depth, n) /\ DOMAIN s[c].levels = 1 .. Depth
                             /\ \A l \in 1 .. Depth : s[c].levels[l] \in LevelAt(l, n)
  <2>1. 1 \in DOMAIN nm
    BY <1>1 DEF Named
  <2>2. \A c \in DOMAIN nm : /\ s[c] \in Channel(Depth, n) /\ DOMAIN s = DOMAIN nm
                             /\ DOMAIN s[c].levels = 1 .. Depth
                             /\ \A l \in 1 .. Depth : s[c].levels[l] \in LevelAt(l, n)
    BY <1>1, StoreHas
  <2> QED BY <2>1, <2>2
<1>4. u = [c \in DOMAIN s |-> Raised(s[c], Depth, n)] /\ t = [c \in DOMAIN u |-> Lowered(u[c], E)]
  BY RestackedAre
<1> HIDE DEF s, n, E, u, t
<1>5. DOMAIN t = DOMAIN s /\ \A c \in DOMAIN s : t[c] = Lowered(Raised(s[c], Depth, n), Depth + 1)
  BY <1>4 DEF E
<1>6. ASSUME NEW c \in DOMAIN s
      PROVE  /\ DOMAIN t[c].levels = 1 .. Depth
             /\ [t[c] EXCEPT !.levels = [l \in 1 .. Depth |-> Rehydrated(t[c].levels[l])]]
                  = [s[c] EXCEPT !.levels = [l \in 1 .. Depth |-> Rehydrated(s[c].levels[l])]]
  <2>1. PICK r : /\ DOMAIN r = 1 .. Depth
                 /\ Lowered(Raised(s[c], Depth, n), Depth + 1) = [s[c] EXCEPT !.levels = r]
                 /\ \A l \in 1 .. Depth : \/ r[l] = s[c].levels[l]
                                          \/ /\ s[c].levels[l].held # "none"
                                             /\ r[l] = [s[c].levels[l] EXCEPT !.held = "chunks"]
    <3>1. s[c] \in Channel(Depth, n) /\ n \in Nat
      BY <1>1, <1>3 DEF n
    <3>2. Restacked(Lowered(Raised(s[c], Depth, n), Depth + 1), s[c], Depth)
      BY <1>2, <3>1, RestackedChannel
    <3> QED BY <3>2 DEF Restacked
  <2>2. t[c] = [s[c] EXCEPT !.levels = r] /\ t[c].levels = r
    <3>1. t[c] = [s[c] EXCEPT !.levels = r]
      BY <1>5, <2>1
    <3>2. s[c] \in Channel(Depth, n)
      BY <1>3
    <3> QED BY <3>1, <3>2 DEF Channel
  <2>3. \A l \in 1 .. Depth : Rehydrated(r[l]) = Rehydrated(s[c].levels[l])
    <3> TAKE l \in 1 .. Depth
    <3>1. s[c].levels[l] \in LevelAt(l, n)
      BY <1>3
    <3> QED BY <2>1, <3>1, RehydratedIs
  <2> DEFINE a == [l \in 1 .. Depth |-> Rehydrated(t[c].levels[l])]
             b == [l \in 1 .. Depth |-> Rehydrated(s[c].levels[l])]
  <2>4. a = b
    BY <2>2, <2>3
  <2> HIDE DEF a, b
  <2>5. [t[c] EXCEPT !.levels = a] = [s[c] EXCEPT !.levels = b]
    BY <2>2, <2>4
  <2>6. DOMAIN t[c].levels = 1 .. Depth
    BY <2>1, <2>2
  <2> QED BY <2>5, <2>6 DEF a, b
<1>7. EnsureAll(s) = [c \in DOMAIN s |-> [s[c] EXCEPT !.levels =
                        [l \in 1 .. Depth |-> Rehydrated(s[c].levels[l])]]]
  BY <1>3, EnsureAllIs
<1>8. EnsureAll(t) = [c \in DOMAIN t |-> [t[c] EXCEPT !.levels =
                        [l \in 1 .. Depth |-> Rehydrated(t[c].levels[l])]]]
  <2>1. 1 \in DOMAIN t /\ \A c \in DOMAIN t : DOMAIN t[c].levels = 1 .. Depth
    BY <1>3, <1>5, <1>6
  <2> QED BY <2>1, EnsureAllIs
<1>9. EnsureAll(t) = EnsureAll(s)
  BY <1>5, <1>6, <1>7, <1>8
<1> QED BY <1>9 DEF RestackIsIdentity, t, u, s, n, E

(* RestackIsIdentity holds always (grids.cc, addLevel and dropTopLevel).   *)
THEOREM RestackHolds == Spec => []RestackIsIdentity
<1>1. Inv => RestackIsIdentity
  BY InvRestacks
<1> QED BY <1>1, Invariance, PTL

-----------------------------------------------------------------------------
(* What a stroke may change: the positions and the mask of the session's   *)
(* domain, every channel at its level, and the mask of the finer levels.   *)

Pos == <<"co", L>>
Dense == <<"mask", 0>>
InStore == (Names \X {L}) \cup ({"mask"} \X (L + 1 .. Depth))
Spots == InStore \cup {Pos, Dense}

LEMMA SpotsAre ==
  /\ Pos \notin InStore /\ Dense \notin InStore /\ Pos # Dense /\ Pos \in Spots /\ Dense \in Spots
  /\ \A p \in Spots : p = Pos \/ p = Dense \/ p \in InStore
  /\ \A p \in InStore : /\ p = <<p[1], p[2]>> /\ p[1] \in Names /\ p[2] \in Levels /\ p[2] >= L
                        /\ p[2] # L => p[1] = "mask"
                        /\ p \in Spots
  /\ \A n \in Names : <<n, L>> \in InStore
  /\ \A l \in L .. Depth : <<"mask", l>> \in InStore
<1>1. L \in 1 .. Depth /\ Depth \in Nat /\ "co" \notin Names /\ "mask" \in Names
  BY LogAssumption DEF Names
<1>2. \A p \in InStore : /\ p = <<p[1], p[2]>> /\ p[1] \in Names /\ p[2] \in Levels /\ p[2] >= L
                         /\ p[2] # L => p[1] = "mask"
  BY <1>1 DEF InStore, Levels
<1>3. Pos[1] = "co" /\ Dense[2] = 0
  BY DEF Pos, Dense
<1>4. Pos[2] = L
  BY DEF Pos
<1>5. Pos \notin InStore /\ Dense \notin InStore /\ Pos # Dense
  BY <1>1, <1>2, <1>3, <1>4
<1>6. \A l \in L .. Depth : <<"mask", l>> \in InStore
  <2> TAKE l \in L .. Depth
  <2>1. l = L \/ l \in L + 1 .. Depth
    BY <1>1
  <2> QED BY <1>1, <2>1 DEF InStore
<1> QED BY <1>2, <1>5, <1>6 DEF Spots, InStore

\* What a channel holds at a level, and what it shows if it is not there.
Raw(s, n, l) ==
  IF FindChannel(s, n) = 0 THEN Seed(n, l) ELSE s[FindChannel(s, n)].levels[l].val

ReadAt(lv, p) ==
  IF p = Pos THEN lv.pos ELSE IF p = Dense THEN lv.mask[L] ELSE Raw(lv.store, p[1], p[2])
Reads(lv) == [p \in Spots |-> ReadAt(lv, p)]

ReadingAt(p) == IF p \in {Pos, Dense} THEN MaskAt(L) ELSE [Sites -> Sample(p[2])]
Reading(d) == DOMAIN d = Spots /\ d = [p \in Spots |-> d[p]] /\ \A p \in Spots : d[p] \in ReadingAt(p)

LEMMA FindAt ==
  ASSUME NEW nm, Named(nm), NEW n \in Nat, NEW s \in Store(nm, n), NEW c \in DOMAIN nm
  PROVE  FindChannel(s, nm[c]) = c /\ FindChannel(s, s[c].name) = c /\ c # 0
<1>1. s[c].name = nm[c]
  BY StoreHas
<1>2. FindChannel(s, nm[c]) # 0
  BY FindIs
<1>3. FindChannel(s, nm[c]) \in DOMAIN nm /\ nm[FindChannel(s, nm[c])] = nm[c]
  BY <1>2, FindIs
<1>4. FindChannel(s, nm[c]) = c
  BY <1>3 DEF Named
<1> QED BY <1>1, <1>2, <1>4

LEMMA RawIs ==
  ASSUME NEW nm, Named(nm), NEW n \in Nat, NEW s \in Store(nm, n), NEW name \in Names, NEW l \in Levels
  PROVE  /\ Raw(s, name, l) \in [Sites -> Sample(l)]
         /\ \A c \in DOMAIN nm : Raw(s, nm[c], l) = s[c].levels[l].val
<1>1. \A c \in DOMAIN nm : Raw(s, nm[c], l) = s[c].levels[l].val
  BY FindAt DEF Raw
<1>2. CASE FindChannel(s, name) = 0
  <2>1. l \in Nat
    BY DEF Levels
  <2>2. Raw(s, name, l) = Seed(name, l)
    BY <1>2 DEF Raw
  <2> QED BY <1>1, <2>1, <2>2, SeedIs
<1>3. CASE FindChannel(s, name) # 0
  <2>1. PICK c \in DOMAIN nm : name = nm[c]
    BY <1>3, FindIs
  <2> QED BY <1>1, <2>1, StoreLevel
<1> QED BY <1>2, <1>3

LEMMA ReadsAre ==
  ASSUME NEW nm, Named(nm), NEW n \in Nat, NEW lv \in Lives(nm, n)
  PROVE  /\ Reading(Reads(lv))
         /\ Reads(lv)[Pos] = lv.pos /\ Reads(lv)[Dense] = lv.mask[L]
         /\ \A p \in InStore : Reads(lv)[p] = Raw(lv.store, p[1], p[2])
<1>1. /\ Reads(lv)[Pos] = lv.pos /\ Reads(lv)[Dense] = lv.mask[L]
      /\ \A p \in InStore : Reads(lv)[p] = Raw(lv.store, p[1], p[2])
  BY SpotsAre DEF Reads, ReadAt
<1>2. lv.pos \in MaskAt(L) /\ lv.store \in Store(nm, n) /\ lv.mask \in Masks
  BY DEF Lives
<1>3. lv.mask[L] \in MaskAt(L)
  BY <1>2, MasksAre
<1>4. ASSUME NEW p \in Spots PROVE Reads(lv)[p] \in ReadingAt(p)
  <2>1. CASE p \in {Pos, Dense}
    BY <1>1, <1>2, <1>3, <2>1 DEF ReadingAt
  <2>2. CASE p \notin {Pos, Dense}
    <3>1. p \in InStore /\ p[1] \in Names /\ p[2] \in Levels
      BY <2>2, SpotsAre
    <3>2. Raw(lv.store, p[1], p[2]) \in [Sites -> Sample(p[2])]
      BY <1>2, <3>1, RawIs
    <3> QED BY <1>1, <2>2, <3>1, <3>2 DEF ReadingAt
  <2> QED BY <2>1, <2>2
<1>5. DOMAIN Reads(lv) = Spots /\ Reads(lv) = [p \in Spots |-> Reads(lv)[p]]
  BY DEF Reads
<1> QED BY <1>1, <1>4, <1>5 DEF Reading

LEMMA ReadingsEqual ==
  ASSUME NEW d, Reading(d), NEW e, Reading(e), \A p \in Spots : d[p] = e[p]
  PROVE  d = e
BY DEF Reading

-----------------------------------------------------------------------------
(* What a step puts back of a spot, and the readings it leads between.     *)

Here(s, bs, p) == {b \in bs : Resolve(s, b.id) # 0 /\ b.id.name = p[1] /\ b.id.level = p[2]}
FinerPatches(f) == IF f.whole THEN {f.state.val} ELSE {b.val : b \in f.blocks}
ValsOf(ns) == {k.val : k \in ns}
Patches(s, step, p) ==
  IF p = Pos THEN ValsOf(step.pos)
  ELSE IF p = Dense THEN ValsOf({k \in step.mask : Resolve(s, k.id) # 0})
  ELSE ValsOf(Here(s, step.blocks, p)) \cup UNION {FinerPatches(f) : f \in Here(s, step.finer, p)}

\* The patches Q are of a, and a is b where there is none.
Patched(Q, a, b) ==
  /\ \A q \in Q : \A x \in DOMAIN q : q[x] = a[x]
  /\ \A x \in DOMAIN a : a[x] = b[x] \/ \E q \in Q : x \in DOMAIN q

\* Put back on e, the step leads to d.
Leads(s, step, d, e) == \A p \in Spots : Patched(Patches(s, step, p), d[p], e[p])

\* What a log with n tokens given keeps of a step.
SoundStep(step, n) ==
  /\ \A k \in step.mask : k.id.name = "mask" /\ k.id.chan < n
  /\ \A b \in step.blocks : b.id.level = L /\ b.id.chan < n
  /\ \A f \in step.finer :
       /\ f.id.name = "mask" /\ f.id.level > L /\ f.id.chan < n
       /\ f.whole => /\ f.state.tok = f.id.lev
                     /\ f.state.held = "none" => f.state.val = Blank(f.id.level)
       /\ \A b \in f.blocks : b.id = f.id
       /\ \A g \in step.finer : g.id.level = f.id.level => g = f
  /\ \A d \in step.preAttr \cup step.postAttr : d.id.level = L /\ d.id.chan < n

\* Put and Taken are inverse.
LEMMA PutLeads ==
  ASSUME NEW a, NEW b, DOMAIN a = DOMAIN b, a = [x \in DOMAIN a |-> a[x]], NEW ns,
         Patched(ValsOf(ns), a, b)
  PROVE  Put(b, ns) = a
<1>1. ASSUME NEW x \in DOMAIN b PROVE Put(b, ns)[x] = a[x]
  <2>1. CASE \E k \in ns : x \in DOMAIN k.val
    <3> DEFINE k == CHOOSE k \in ns : x \in DOMAIN k.val
    <3>1. k \in ns /\ x \in DOMAIN k.val
      BY <2>1
    <3>2. Put(b, ns)[x] = k.val[x]
      BY <2>1 DEF Put
    <3> HIDE DEF k
    <3>3. k.val \in ValsOf(ns)
      BY <3>1 DEF ValsOf
    <3> QED BY <3>1, <3>2, <3>3 DEF Patched
  <2>2. CASE ~ \E k \in ns : x \in DOMAIN k.val
    <3>1. Put(b, ns)[x] = b[x]
      BY <2>2 DEF Put
    <3>2. ~ \E q \in ValsOf(ns) : x \in DOMAIN q
      BY <2>2 DEF ValsOf
    <3> QED BY <3>1, <3>2 DEF Patched
  <2> QED BY <2>1, <2>2
<1>2. Put(b, ns) = [x \in DOMAIN b |-> Put(b, ns)[x]]
  BY DEF Put
<1> QED BY <1>1, <1>2

\* Patches replaced by what they cover.
Exchanged(Q, R, b) ==
  /\ \A q \in Q : \E r \in R : DOMAIN r = DOMAIN q
  /\ \A r \in R : \A x \in DOMAIN r : r[x] = b[x]

LEMMA ExchangeLeads ==
  ASSUME NEW a, NEW b, DOMAIN a = DOMAIN b, NEW Q, NEW R, Patched(Q, a, b), Exchanged(Q, R, b)
  PROVE  Patched(R, b, a)
BY DEF Patched, Exchanged

LEMMA TakenExchanges ==
  ASSUME NEW b, NEW ns, \A k \in ns : "val" \in DOMAIN k
  PROVE  Exchanged(ValsOf(ns), ValsOf(Taken(b, ns)), b)
<1>1. ASSUME NEW k \in ns
      PROVE  /\ [k EXCEPT !.val = [v \in DOMAIN @ |-> b[v]]].val = [v \in DOMAIN k.val |-> b[v]]
             /\ [k EXCEPT !.val = [v \in DOMAIN @ |-> b[v]]] \in Taken(b, ns)
  BY DEF Taken
<1>2. ASSUME NEW r \in ValsOf(Taken(b, ns))
      PROVE  \E k \in ns : r = [v \in DOMAIN k.val |-> b[v]]
  BY <1>1 DEF ValsOf, Taken
<1>3. ASSUME NEW q \in ValsOf(ns)
      PROVE  \E r \in ValsOf(Taken(b, ns)) : DOMAIN r = DOMAIN q
  BY <1>1 DEF ValsOf
<1> QED BY <1>2, <1>3 DEF Exchanged

-----------------------------------------------------------------------------
(* Identities in stores that hold the same channels.                       *)

Alike(s, t) ==
  /\ DOMAIN t = DOMAIN s
  /\ \A c \in DOMAIN s :
       /\ t[c].name = s[c].name /\ t[c].tok = s[c].tok
       /\ DOMAIN t[c].levels = DOMAIN s[c].levels
       /\ \A l \in DOMAIN s[c].levels : t[c].levels[l].tok = s[c].levels[l].tok

LEMMA AlikeFinds ==
  ASSUME NEW s, NEW t, Alike(s, t), NEW name
  PROVE  FindChannel(t, name) = FindChannel(s, name)
<1>1. DOMAIN t = DOMAIN s /\ \A c \in DOMAIN s : t[c].name = s[c].name
  BY DEF Alike
<1>2. (CHOOSE c \in DOMAIN t : t[c].name = name) = (CHOOSE c \in DOMAIN s : s[c].name = name)
  <2>1. \A c : (c \in DOMAIN t /\ t[c].name = name) <=> (c \in DOMAIN s /\ s[c].name = name)
    BY <1>1
  <2> QED BY <2>1
<1> QED BY <1>1, <1>2 DEF FindChannel

LEMMA AlikeResolves ==
  ASSUME NEW s, NEW t, Alike(s, t), NEW id, FindChannel(s, id.name) # 0 => FindChannel(s, id.name) \in DOMAIN s
  PROVE  Resolve(t, id) = Resolve(s, id)
<1>1. FindChannel(t, id.name) = FindChannel(s, id.name)
  BY AlikeFinds
<1> QED BY <1>1 DEF Resolve, Alike

LEMMA AlikeIn ==
  ASSUME NEW nm, Named(nm), NEW n \in Nat, NEW s \in Store(nm, n), NEW t, Alike(s, t)
  PROVE  /\ \A id : Resolve(t, id) = Resolve(s, id)
         /\ \A bs, p : Here(t, bs, p) = Here(s, bs, p)
         /\ \A step, p : Patches(t, step, p) = Patches(s, step, p)
         /\ \A step, d, e : Leads(t, step, d, e) <=> Leads(s, step, d, e)
<1>1. ASSUME NEW id PROVE Resolve(t, id) = Resolve(s, id)
  <2>1. FindChannel(s, id.name) # 0 => FindChannel(s, id.name) \in DOMAIN nm
    BY FindIs
  <2>2. DOMAIN s = DOMAIN nm
    BY DEF Store
  <2> QED BY <2>1, <2>2, AlikeResolves
<1>2. ASSUME NEW bs, NEW p PROVE Here(t, bs, p) = Here(s, bs, p)
  BY <1>1 DEF Here
<1>3. ASSUME NEW step, NEW p PROVE Patches(t, step, p) = Patches(s, step, p)
  BY <1>1, <1>2 DEF Patches
<1>4. ASSUME NEW step, NEW d, NEW e PROVE Leads(t, step, d, e) <=> Leads(s, step, d, e)
  BY <1>3 DEF Leads
<1> QED BY <1>1, <1>2, <1>3, <1>4

\* What applySwap looks up by index is what is kept of the channel by name.
LEMMA KeptHere ==
  ASSUME NEW nm, Named(nm), NEW n \in Nat, NEW s \in Store(nm, n), NEW c \in DOMAIN nm, NEW bs, NEW l
  PROVE  Kept(s, bs, c, l) = Here(s, bs, <<nm[c], l>>)
<1>1. ASSUME NEW b \in bs
      PROVE  (Resolve(s, b.id) = c /\ b.id.level = l)
               <=> (Resolve(s, b.id) # 0 /\ b.id.name = nm[c] /\ b.id.level = l)
  <2>1. Resolve(s, b.id) # 0 => Resolve(s, b.id) = FindChannel(s, b.id.name)
    BY DEF Resolve
  <2>2. Resolve(s, b.id) # 0 => Resolve(s, b.id) \in DOMAIN nm /\ nm[Resolve(s, b.id)] = b.id.name
    BY <2>1, FindIs
  <2>3. b.id.name = nm[c] => FindChannel(s, b.id.name) = c
    BY FindAt
  <2>4. c # 0
    BY FindAt
  <2> QED BY <2>1, <2>2, <2>3, <2>4
<1>2. <<nm[c], l>>[1] = nm[c] /\ <<nm[c], l>>[2] = l
  OBVIOUS
<1> QED BY <1>1, <1>2 DEF Kept, Here

-----------------------------------------------------------------------------
(* Stores changed level by level.                                          *)

\* Everything of the channels but their levels.
Frame(s, t) ==
  /\ DOMAIN t = DOMAIN s
  /\ \A c \in DOMAIN s :
       /\ t[c].name = s[c].name /\ t[c].tok = s[c].tok /\ t[c].type = s[c].type
       /\ t[c].rule = s[c].rule /\ t[c].persist = s[c].persist
       /\ DOMAIN t[c].levels = DOMAIN s[c].levels

LEMMA StoreForm ==
  ASSUME NEW nm, NEW n \in Nat, NEW s \in Store(nm, n)
  PROVE  DOMAIN s = DOMAIN nm /\ \A c \in DOMAIN nm : DOMAIN s[c].levels = 1 .. Depth
<1>1. DOMAIN s = DOMAIN nm
  BY DEF Store
<1>2. \A c \in DOMAIN nm : DOMAIN s[c].levels = 1 .. Depth
  BY StoreHas
<1> QED BY <1>1, <1>2

LEMMA LeveledHas ==
  ASSUME NEW nm, NEW n \in Nat, NEW s \in Store(nm, n), NEW g, NEW t, t = Leveled(s, g)
  PROVE  /\ Frame(s, t)
         /\ \A c \in DOMAIN nm : \A l \in Levels : t[c].levels[l] = g[c][l]
         /\ (\A c \in DOMAIN nm : \A l \in Levels : g[c][l].tok = s[c].levels[l].tok) => Alike(s, t)
<1>1. /\ DOMAIN s = DOMAIN nm /\ DOMAIN t = DOMAIN nm
      /\ \A c \in DOMAIN nm : DOMAIN s[c].levels = Levels /\ s[c] \in Channel(Depth, n)
  BY StoreHas DEF Leveled, Store, Levels
<1>2. ASSUME NEW c \in DOMAIN nm
      PROVE  /\ t[c].name = s[c].name /\ t[c].tok = s[c].tok /\ t[c].type = s[c].type
             /\ t[c].rule = s[c].rule /\ t[c].persist = s[c].persist
             /\ DOMAIN t[c].levels = Levels /\ \A l \in Levels : t[c].levels[l] = g[c][l]
  <2> DEFINE f == [l \in DOMAIN s[c].levels |-> g[c][l]]
  <2>1. t[c] = [s[c] EXCEPT !.levels = f]
    BY <1>1 DEF Leveled
  <2>2. DOMAIN f = Levels /\ \A l \in Levels : f[l] = g[c][l]
    BY <1>1
  <2> HIDE DEF f
  <2>3. s[c] \in Channel(Depth, n)
    BY <1>1
  <2>4. /\ t[c].name = s[c].name /\ t[c].tok = s[c].tok /\ t[c].type = s[c].type
        /\ t[c].rule = s[c].rule /\ t[c].persist = s[c].persist /\ t[c].levels = f
    BY <2>1, <2>3 DEF Channel
  <2> QED BY <2>2, <2>4
<1> QED BY <1>1, <1>2 DEF Frame, Alike

LEMMA ReheldHas ==
  ASSUME NEW nm, NEW n \in Nat, NEW s \in Store(nm, n), NEW ls, NEW one, NEW other, NEW t,
         t = Reheld(s, ls, one, other)
  PROVE  /\ Frame(s, t) /\ Alike(s, t)
         /\ \A c \in DOMAIN nm : \A l \in Levels :
              /\ t[c].levels[l].val = s[c].levels[l].val /\ t[c].levels[l].owes = s[c].levels[l].owes
              /\ t[c].levels[l].tok = s[c].levels[l].tok
              /\ t[c].levels[l].held = IF l \in ls /\ s[c].levels[l].held = one THEN other
                                       ELSE s[c].levels[l].held
<1> DEFINE g == [c \in DOMAIN nm |-> [l \in 1 .. Depth |->
                   IF l \in ls /\ s[c].levels[l].held = one
                   THEN [s[c].levels[l] EXCEPT !.held = other] ELSE s[c].levels[l]]]
<1>1. DOMAIN s = DOMAIN nm /\ \A c \in DOMAIN nm : DOMAIN s[c].levels = 1 .. Depth
  BY StoreForm
<1>2. t = Leveled(s, g)
  BY <1>1 DEF Reheld, EachLevel, Leveled
<1>3. ASSUME NEW c \in DOMAIN nm, NEW l \in Levels
      PROVE  /\ g[c][l].val = s[c].levels[l].val /\ g[c][l].owes = s[c].levels[l].owes
             /\ g[c][l].tok = s[c].levels[l].tok
             /\ g[c][l].held = IF l \in ls /\ s[c].levels[l].held = one THEN other
                               ELSE s[c].levels[l].held
  <2>1. s[c].levels[l] \in LevelAt(l, n)
    BY StoreLevel
  <2>2. g[c][l] = IF l \in ls /\ s[c].levels[l].held = one
                  THEN [s[c].levels[l] EXCEPT !.held = other] ELSE s[c].levels[l]
    BY DEF Levels
  <2> DEFINE x == s[c].levels[l]
             y == g[c][l]
  <2> HIDE DEF x, y, g
  <2>3. x \in LevelAt(l, n) /\ y = IF l \in ls /\ x.held = one THEN [x EXCEPT !.held = other] ELSE x
    BY <2>1, <2>2 DEF x, y
  <2>4. /\ y.val = x.val /\ y.owes = x.owes /\ y.tok = x.tok
        /\ y.held = IF l \in ls /\ x.held = one THEN other ELSE x.held
    BY <2>3 DEF LevelAt
  <2> QED BY <2>4 DEF x, y
<1> HIDE DEF g
<1>4. /\ Frame(s, t) /\ \A c \in DOMAIN nm : \A l \in Levels : t[c].levels[l] = g[c][l]
      /\ (\A c \in DOMAIN nm : \A l \in Levels : g[c][l].tok = s[c].levels[l].tok) => Alike(s, t)
  BY <1>2, LeveledHas
<1> QED BY <1>3, <1>4

LEMMA PutBlockHas ==
  ASSUME NEW l, NEW n, NEW lev \in LevelAt(l, n), NEW bs, NEW r, r = PutBlock(lev, bs)
  PROVE  /\ r.tok = lev.tok /\ r.owes = lev.owes /\ r.val = Put(lev.val, bs)
         /\ r.held = IF bs = {} THEN lev.held ELSE "chunks"
<1>1. lev.val \in [Sites -> Sample(l)]
  BY DEF LevelAt
<1>2. CASE bs = {}
  <2>1. r = lev
    BY <1>2 DEF PutBlock
  <2>2. Put(lev.val, bs) = lev.val
    BY <1>1, <1>2 DEF Put
  <2> QED BY <1>2, <2>1, <2>2
<1>3. CASE bs # {}
  <2> DEFINE v == Put(lev.val, bs)
  <2>1. r = [lev EXCEPT !.held = "chunks", !.val = v]
    BY <1>3 DEF PutBlock
  <2> HIDE DEF v
  <2>2. r.tok = lev.tok /\ r.owes = lev.owes /\ r.val = v /\ r.held = "chunks"
    BY <2>1 DEF LevelAt
  <2> QED BY <1>3, <2>2 DEF v
<1> QED BY <1>2, <1>3

LEMMA PutFinerLevelHas ==
  ASSUME NEW l, NEW n, NEW lev \in LevelAt(l, n), NEW fs, NEW f, fs = {f}, NEW r,
         r = PutFinerLevel(lev, fs)
  PROVE  /\ f.whole => r = f.state
         /\ ~f.whole => /\ r.tok = lev.tok /\ r.owes = f.owes /\ r.val = Put(lev.val, f.blocks)
                        /\ r.held = IF f.blocks = {} THEN lev.held ELSE "chunks"
<1>1. (CHOOSE h \in fs : TRUE) = f /\ fs # {}
  OBVIOUS
<1> DEFINE y == PutBlock(lev, f.blocks)
<1>2. r = IF f.whole THEN f.state ELSE [y EXCEPT !.owes = f.owes]
  BY <1>1 DEF PutFinerLevel
<1>3. /\ y.tok = lev.tok /\ y.owes = lev.owes /\ y.val = Put(lev.val, f.blocks)
      /\ y.held = IF f.blocks = {} THEN lev.held ELSE "chunks"
  BY PutBlockHas
<1>4. y = [tok |-> y.tok, owes |-> y.owes, val |-> y.val, held |-> y.held]
  <2>1. lev = [tok |-> lev.tok, owes |-> lev.owes, val |-> lev.val, held |-> lev.held]
    BY DEF LevelAt
  <2> DEFINE v == Put(lev.val, f.blocks)
  <2>2. y = IF f.blocks = {} THEN lev ELSE [lev EXCEPT !.held = "chunks", !.val = v]
    BY DEF PutBlock
  <2> HIDE DEF v, y
  <2> QED BY <2>1, <2>2
<1> HIDE DEF y
<1>5. ~f.whole => r.tok = y.tok /\ r.owes = f.owes /\ r.val = y.val /\ r.held = y.held
  BY <1>2, <1>4
<1> QED BY <1>2, <1>3, <1>5

LEMMA PutBlocksHas ==
  ASSUME NEW nm, Named(nm), NEW n \in Nat, NEW s \in Store(nm, n), NEW bs, NEW t,
         t = PutBlocks(s, bs)
  PROVE  /\ Frame(s, t) /\ Alike(s, t)
         /\ \A c \in DOMAIN nm : \A l \in Levels :
              t[c].levels[l] = PutBlock(s[c].levels[l], Here(s, bs, <<nm[c], l>>))
<1> DEFINE g == [c \in DOMAIN nm |-> [l \in 1 .. Depth |->
                   PutBlock(s[c].levels[l], Kept(s, bs, c, l))]]
<1>1. DOMAIN s = DOMAIN nm /\ \A c \in DOMAIN nm : DOMAIN s[c].levels = 1 .. Depth
  BY StoreForm
<1>2. t = Leveled(s, g)
  BY <1>1 DEF PutBlocks, EachLevel, Leveled
<1>3. ASSUME NEW c \in DOMAIN nm, NEW l \in Levels
      PROVE  /\ g[c][l] = PutBlock(s[c].levels[l], Here(s, bs, <<nm[c], l>>))
             /\ g[c][l].tok = s[c].levels[l].tok
  <2>1. s[c].levels[l] \in LevelAt(l, n)
    BY StoreLevel
  <2>2. g[c][l] = PutBlock(s[c].levels[l], Kept(s, bs, c, l))
    BY DEF Levels
  <2>3. Kept(s, bs, c, l) = Here(s, bs, <<nm[c], l>>)
    BY KeptHere
  <2> HIDE DEF g
  <2>4. g[c][l] = PutBlock(s[c].levels[l], Here(s, bs, <<nm[c], l>>))
    BY <2>2, <2>3
  <2>5. g[c][l].tok = s[c].levels[l].tok
    BY <2>1, <2>4, PutBlockHas
  <2> QED BY <2>4, <2>5
<1> HIDE DEF g
<1>4. /\ Frame(s, t) /\ \A c \in DOMAIN nm : \A l \in Levels : t[c].levels[l] = g[c][l]
      /\ (\A c \in DOMAIN nm : \A l \in Levels : g[c][l].tok = s[c].levels[l].tok) => Alike(s, t)
  BY <1>2, LeveledHas
<1> QED BY <1>3, <1>4

LEMMA PutFinerHas ==
  ASSUME NEW nm, Named(nm), NEW n \in Nat, NEW s \in Store(nm, n), NEW fs, NEW t,
         t = PutFiner(s, fs)
  PROVE  /\ Frame(s, t)
         /\ \A c \in DOMAIN nm : \A l \in Levels :
              t[c].levels[l] = PutFinerLevel(s[c].levels[l], Here(s, fs, <<nm[c], l>>))
<1> DEFINE g == [c \in DOMAIN nm |-> [l \in 1 .. Depth |->
                   PutFinerLevel(s[c].levels[l], Kept(s, fs, c, l))]]
<1>1. DOMAIN s = DOMAIN nm /\ \A c \in DOMAIN nm : DOMAIN s[c].levels = 1 .. Depth
  BY StoreForm
<1>2. t = Leveled(s, g)
  BY <1>1 DEF PutFiner, EachLevel, Leveled
<1>3. ASSUME NEW c \in DOMAIN nm, NEW l \in Levels
      PROVE  g[c][l] = PutFinerLevel(s[c].levels[l], Here(s, fs, <<nm[c], l>>))
  <2>1. g[c][l] = PutFinerLevel(s[c].levels[l], Kept(s, fs, c, l))
    BY DEF Levels
  <2>2. Kept(s, fs, c, l) = Here(s, fs, <<nm[c], l>>)
    BY KeptHere
  <2> HIDE DEF g
  <2> QED BY <2>1, <2>2
<1> HIDE DEF g
<1>4. Frame(s, t) /\ \A c \in DOMAIN nm : \A l \in Levels : t[c].levels[l] = g[c][l]
  BY <1>2, LeveledHas
<1> QED BY <1>3, <1>4

-----------------------------------------------------------------------------
(* What a swap does to the store.                                          *)

\* What is kept of a spot.
LEMMA HereAre ==
  ASSUME NEW s, NEW n, NEW step, SoundStep(step, n), NEW p, p[2] \in Nat
  PROVE  /\ p[2] # L => Here(s, step.blocks, p) = {}
         /\ (p[2] <= L \/ p[1] # "mask") => Here(s, step.finer, p) = {}
         /\ \A f \in Here(s, step.finer, p) : Here(s, step.finer, p) = {f}
<1>1. p[2] # L => Here(s, step.blocks, p) = {}
  BY DEF Here, SoundStep
<1>2. (p[2] <= L \/ p[1] # "mask") => Here(s, step.finer, p) = {}
  <2>1. \A f \in step.finer : f.id.name = "mask" /\ f.id.level > L
    BY DEF SoundStep
  <2>2. \A f \in Here(s, step.finer, p) : p[1] = "mask" /\ p[2] > L
    BY <2>1 DEF Here
  <2>3. L \in Nat /\ p[2] \in Nat
    BY LogAssumption
  <2>4. ~(p[2] > L /\ p[2] <= L)
    BY <2>3
  <2> QED BY <2>2, <2>4
<1>3. \A f \in Here(s, step.finer, p) : Here(s, step.finer, p) = {f}
  BY DEF Here, SoundStep
<1> QED BY <1>1, <1>2, <1>3

\* The patches of a spot of the store: the blocks at the level, or what is kept
\* of the finer one.
LEMMA PatchesAre ==
  ASSUME NEW s, NEW n, NEW step, SoundStep(step, n), NEW p \in InStore
  PROVE  /\ p[2] = L => Patches(s, step, p) = ValsOf(Here(s, step.blocks, p))
         /\ p[2] # L /\ Here(s, step.finer, p) = {} => Patches(s, step, p) = {}
         /\ \A f : p[2] # L /\ Here(s, step.finer, p) = {f} => Patches(s, step, p) = FinerPatches(f)
<1>0. p[2] \in Nat
  BY SpotsAre DEF Levels
<1>1. Patches(s, step, p)
        = ValsOf(Here(s, step.blocks, p)) \cup UNION {FinerPatches(f) : f \in Here(s, step.finer, p)}
  BY SpotsAre DEF Patches
<1>2. p[2] = L => Here(s, step.finer, p) = {}
  <2>1. L \in Nat
    BY LogAssumption
  <2>2. p[2] = L => p[2] <= L
    BY <2>1
  <2> QED BY <1>0, <2>2, HereAre
<1>3. p[2] # L => Here(s, step.blocks, p) = {}
  BY <1>0, HereAre
<1>4. ValsOf({}) = {}
  BY DEF ValsOf
<1>5. p[2] = L => Patches(s, step, p) = ValsOf(Here(s, step.blocks, p))
  BY <1>1, <1>2
<1>6. p[2] # L => Patches(s, step, p) = UNION {FinerPatches(f) : f \in Here(s, step.finer, p)}
  BY <1>1, <1>3, <1>4
<1> QED BY <1>5, <1>6

\* One level of it.
LEMMA SwapLevel ==
  ASSUME NEW nm, Named(nm), NEW n \in Nat, NEW s \in Store(nm, n), NEW step \in Step(n), SoundStep(step, n),
         NEW c \in DOMAIN nm, NEW l \in Levels, NEW p, p = <<nm[c], l>>,
         NEW y, y = PutBlock(s[c].levels[l], Here(s, step.blocks, p)),
         NEW z, z = PutFinerLevel(y, Here(s, step.finer, p))
  PROVE  /\ z.tok = s[c].levels[l].tok
         /\ p \notin InStore => z = s[c].levels[l]
         /\ p \in InStore => \A a \in [Sites -> Sample(l)] :
              Patched(Patches(s, step, p), a, s[c].levels[l].val) => z.val = a
         /\ (s[c].levels[l].held = "none" => s[c].levels[l].val = Blank(l))
              => (z.held = "none" => z.val = Blank(l))
         /\ l = L /\ s[c].levels[l].held # "none" => z.held # "none"
         /\ l <= L \/ nm[c] # "mask" => z.owes = s[c].levels[l].owes
<1> DEFINE x == s[c].levels[l]
           B == Here(s, step.blocks, p)
           F == Here(s, step.finer, p)
<1>1. x \in LevelAt(l, n) /\ x.val \in [Sites -> Sample(l)]
  BY StoreLevel
<1>2. l \in Nat /\ L \in Nat /\ p[1] = nm[c] /\ p[2] = l /\ nm[c] \in Names
  BY LogAssumption DEF Levels, Named
<1>3. /\ l # L => B = {}
      /\ (l <= L \/ nm[c] # "mask") => F = {}
      /\ \A f \in F : F = {f}
  BY <1>2, HereAre
<1>4. p \in InStore => /\ l = L => Patches(s, step, p) = ValsOf(B)
                       /\ l # L /\ F = {} => Patches(s, step, p) = {}
                       /\ \A f : l # L /\ F = {f} => Patches(s, step, p) = FinerPatches(f)
  <2> HAVE p \in InStore
  <2>1. /\ p[2] = L => Patches(s, step, p) = ValsOf(Here(s, step.blocks, p))
        /\ p[2] # L /\ Here(s, step.finer, p) = {} => Patches(s, step, p) = {}
        /\ \A f : p[2] # L /\ Here(s, step.finer, p) = {f} => Patches(s, step, p) = FinerPatches(f)
    BY PatchesAre
  <2>2. p[2] = l
    BY <1>2
  <2> QED BY <2>1, <2>2
<1>5. y.tok = x.tok /\ y.owes = x.owes /\ y.val = Put(x.val, B) /\ y.held = IF B = {} THEN x.held ELSE "chunks"
  BY <1>1, PutBlockHas
<1>6. B = {} => y = x
  BY DEF PutBlock
<1>7. F = {} => z = y
  BY DEF PutFinerLevel
<1>8. y \in LevelAt(l, n)
  <2>1. B \in SUBSET BlocksAt(l)
    <3>1. step.blocks \in SUBSET Blocks
      BY DEF Step
    <3> QED BY <1>2, <3>1, BlocksOf DEF Here
  <2> QED BY <1>1, <2>1, PutBlockIs
<1>9. ASSUME NEW f \in F
      PROVE  /\ f \in step.finer /\ F = {f} /\ l > L /\ nm[c] = "mask"
             /\ f.id.level = l /\ f.id.lev = x.tok /\ f.state \in LevelAt(l, n)
  <2>1. f \in step.finer /\ Resolve(s, f.id) # 0 /\ f.id.name = nm[c] /\ f.id.level = l
    BY <1>2 DEF Here
  <2>2. l > L /\ nm[c] = "mask"
    BY <1>2, <1>3
  <2>3. FindChannel(s, f.id.name) = c
    BY <2>1, FindAt
  <2>4. f.id.lev = x.tok
    BY <2>1, <2>3 DEF Resolve
  <2>5. step.finer \in SUBSET Finers(n)
    BY DEF Step
  <2>6. f.state \in LevelAt(l, n)
    BY <2>1, <2>5, FinersOf DEF FinersAt
  <2> QED BY <1>3, <2>1, <2>2, <2>4, <2>6
<1> HIDE DEF x, B, F
<1>10. ASSUME NEW f \in F
       PROVE  /\ f.whole => z = f.state
              /\ ~f.whole => /\ z.tok = y.tok /\ z.val = Put(y.val, f.blocks)
                             /\ z.held = IF f.blocks = {} THEN y.held ELSE "chunks"
  <2>1. F = {f}
    BY <1>9
  <2> QED BY <1>8, <2>1, PutFinerLevelHas DEF F
<1>11. z.tok = x.tok
  <2>1. CASE F = {}
    BY <1>5, <1>7, <2>1
  <2>2. ASSUME NEW f \in F PROVE z.tok = x.tok
    <3>1. f.whole => f.state.tok = f.id.lev
      BY <1>9 DEF SoundStep
    <3> QED BY <1>5, <1>9, <1>10, <3>1
  <2> QED BY <2>1, <2>2
<1>12. p \notin InStore => z = x
  <2> HAVE p \notin InStore
  <2>1. l # L /\ ~(nm[c] = "mask" /\ l > L)
    <3>1. nm[c] = "mask" /\ l > L => l \in L .. Depth
      BY <1>2, LogAssumption DEF Levels
    <3> QED BY <1>2, <3>1, SpotsAre
  <2>2. l <= L \/ nm[c] # "mask"
    BY <1>2, <2>1
  <2> QED BY <1>3, <1>6, <1>7, <2>1, <2>2
<1>13. ASSUME p \in InStore, NEW a \in [Sites -> Sample(l)], Patched(Patches(s, step, p), a, x.val)
       PROVE  z.val = a
  <2>1. DOMAIN a = DOMAIN x.val /\ a = [w \in DOMAIN a |-> a[w]] /\ DOMAIN a = Sites
    BY <1>1 DEF x
  <2>2. CASE l = L
    <3>1. F = {}
      BY <1>2, <1>3, <2>2
    <3>2. Patched(ValsOf(B), a, x.val)
      BY <1>4, <1>13, <2>2
    <3>3. Put(x.val, B) = a
      BY <2>1, <3>2, PutLeads
    <3> QED BY <1>5, <1>7, <3>1, <3>3
  <2>3. CASE l # L /\ F = {}
    <3>1. z = x
      BY <1>3, <1>6, <1>7, <2>3
    <3>2. Patched({}, a, x.val)
      BY <1>4, <1>13, <2>3
    <3>3. \A w \in Sites : a[w] = x.val[w]
      BY <2>1, <3>2 DEF Patched
    <3>4. x.val = [w \in Sites |-> x.val[w]]
      BY <1>1
    <3> QED BY <2>1, <3>1, <3>3, <3>4
  <2>4. ASSUME l # L, NEW f \in F PROVE z.val = a
    <3>1. Patched(FinerPatches(f), a, x.val)
      BY <1>4, <1>9, <1>13, <2>4
    <3>2. CASE f.whole
      <4>1. f.state.val \in [Sites -> Sample(l)]
        BY <1>9 DEF LevelAt
      <4>2. \A w \in Sites : f.state.val[w] = a[w]
        BY <3>1, <3>2, <4>1 DEF Patched, FinerPatches
      <4> QED BY <1>10, <2>1, <3>2, <4>1, <4>2
    <3>3. CASE ~f.whole
      <4>1. y = x
        BY <1>3, <1>6, <2>4
      <4>2. FinerPatches(f) = ValsOf(f.blocks)
        BY <3>3 DEF FinerPatches, ValsOf
      <4>3. Put(x.val, f.blocks) = a
        BY <2>1, <3>1, <4>2, PutLeads
      <4> QED BY <1>10, <3>3, <4>1, <4>3
    <3> QED BY <3>2, <3>3
  <2> QED BY <2>2, <2>3, <2>4
<1>14. ASSUME x.held = "none" => x.val = Blank(l), z.held = "none" PROVE z.val = Blank(l)
  <2>1. ASSUME F = {} PROVE z.val = Blank(l)
    <3>1. z = y
      BY <1>7, <2>1
    <3>2. B = {}
      BY <1>5, <1>14, <3>1
    <3> QED BY <1>6, <1>14, <3>1, <3>2
  <2>2. ASSUME NEW f \in F PROVE z.val = Blank(l)
    <3>1. CASE f.whole
      BY <1>9, <1>10, <1>14, <3>1 DEF SoundStep
    <3>2. CASE ~f.whole
      <4>1. f.blocks = {} /\ y.held = "none"
        BY <1>10, <1>14, <3>2
      <4>2. y = x
        BY <1>5, <1>6, <4>1
      <4>3. Put(x.val, {}) = x.val
        BY <1>1 DEF Put, x
      <4> QED BY <1>10, <1>14, <3>2, <4>1, <4>2, <4>3
    <3> QED BY <3>1, <3>2
  <2> QED BY <2>1, <2>2
<1>15. l = L /\ x.held # "none" => z.held # "none"
  BY <1>2, <1>3, <1>5, <1>7
<1>16. l <= L \/ nm[c] # "mask" => z.owes = x.owes
  BY <1>3, <1>5, <1>7
<1> QED BY <1>11, <1>12, <1>13, <1>14, <1>15, <1>16 DEF x

\* Channel 1 is the displacement, levels of the session's level have tokens of
\* their own, and a level that holds nothing is blank: a mask's, at that level.
Sound(s) ==
  /\ s[1].name = "disp"
  /\ \A c, d \in DOMAIN s : s[c].levels[L].tok = s[d].levels[L].tok => c = d
  /\ \A c \in DOMAIN s : s[c].levels[L].held = "none" => s[c].name = "mask"
  /\ \A c \in DOMAIN s : \A l \in Levels :
       s[c].levels[l].held = "none" => s[c].levels[l].val = Blank(l)

LEMMA SoundBy ==
  ASSUME NEW nm, Named(nm), NEW n \in Nat, NEW s \in Store(nm, n), Sound(s), NEW t \in Store(nm, n),
         \A c \in DOMAIN nm : \A l \in Levels :
           /\ t[c].levels[l].tok = s[c].levels[l].tok
           /\ s[c].levels[l].val = Blank(l) \/ s[c].levels[l].held # "none"
                => (t[c].levels[l].held = "none" => t[c].levels[l].val = Blank(l))
           /\ l = L /\ s[c].levels[l].held # "none" => t[c].levels[l].held # "none"
  PROVE  Sound(t)
<1>1. /\ DOMAIN s = DOMAIN nm /\ DOMAIN t = DOMAIN nm
      /\ \A c \in DOMAIN nm : s[c].name = nm[c] /\ t[c].name = nm[c]
  BY StoreHas DEF Store
<1>2. L \in Levels /\ 1 \in DOMAIN nm
  <2>1. nm \in Seq(Names) /\ Len(nm) >= 1
    BY DEF Named
  <2> QED BY <2>1, LogAssumption DEF Levels
<1>3. /\ t[1].name = "disp"
      /\ \A c, d \in DOMAIN t : t[c].levels[L].tok = t[d].levels[L].tok => c = d
      /\ \A c \in DOMAIN t : t[c].levels[L].held = "none" => t[c].name = "mask"
  BY <1>1, <1>2 DEF Sound
<1>4. \A c \in DOMAIN t : \A l \in Levels :
        t[c].levels[l].held = "none" => t[c].levels[l].val = Blank(l)
  BY <1>1 DEF Sound
<1> QED BY <1>3, <1>4 DEF Sound

LEMMA ReheldSound ==
  ASSUME NEW nm, Named(nm), NEW n \in Nat, NEW s \in Store(nm, n), Sound(s), NEW ls, NEW one, NEW other \in Held,
         one # "none" /\ other # "none", NEW t, t = Reheld(s, ls, one, other)
  PROVE  Sound(t) /\ t \in Store(nm, n)
<1>1. t \in Store(nm, n)
  BY ReheldIs
<1>2. \A c \in DOMAIN nm : \A l \in Levels :
        /\ t[c].levels[l].val = s[c].levels[l].val /\ t[c].levels[l].tok = s[c].levels[l].tok
        /\ t[c].levels[l].held = IF l \in ls /\ s[c].levels[l].held = one THEN other
                                 ELSE s[c].levels[l].held
  BY ReheldHas
<1>3. \A c \in DOMAIN nm : \A l \in Levels :
        t[c].levels[l].held = "none" <=> s[c].levels[l].held = "none"
  BY <1>2
<1> QED BY <1>1, <1>2, <1>3, SoundBy

\* A swap brings the store from one reading to the other.
LEMMA SwapStore ==
  ASSUME NEW nm, Named(nm), NEW n \in Nat, NEW s \in Store(nm, n), Sound(s), NEW step \in Step(n), SoundStep(step, n),
         NEW t, t = PutFiner(PutBlocks(s, step.blocks), step.finer)
  PROVE  /\ Frame(s, t) /\ Alike(s, t) /\ Sound(t) /\ t \in Store(nm, n)
         /\ \A c \in DOMAIN nm : \A l \in Levels :
              /\ <<nm[c], l>> \notin InStore => t[c].levels[l] = s[c].levels[l]
              /\ <<nm[c], l>> \in InStore => \A a \in [Sites -> Sample(l)] :
                   Patched(Patches(s, step, <<nm[c], l>>), a, s[c].levels[l].val) => t[c].levels[l].val = a
              /\ l <= L \/ nm[c] # "mask" => t[c].levels[l].owes = s[c].levels[l].owes
<1> DEFINE u == PutBlocks(s, step.blocks)
<1>1. u \in Store(nm, n) /\ t \in Store(nm, n)
  BY PutBlocksIs, PutFinerIs DEF Step
<1>2. /\ Frame(s, u) /\ Alike(s, u)
      /\ \A c \in DOMAIN nm : \A l \in Levels :
           u[c].levels[l] = PutBlock(s[c].levels[l], Here(s, step.blocks, <<nm[c], l>>))
  BY PutBlocksHas
<1>3. t = PutFiner(u, step.finer)
  OBVIOUS
<1> HIDE DEF u
<1>4. /\ Frame(u, t)
      /\ \A c \in DOMAIN nm : \A l \in Levels :
           t[c].levels[l] = PutFinerLevel(u[c].levels[l], Here(u, step.finer, <<nm[c], l>>))
  BY <1>1, <1>3, PutFinerHas
<1>5. \A bs, p : Here(u, bs, p) = Here(s, bs, p)
  BY <1>2, AlikeIn
<1>6. ASSUME NEW c \in DOMAIN nm, NEW l \in Levels
      PROVE  /\ t[c].levels[l].tok = s[c].levels[l].tok
             /\ <<nm[c], l>> \notin InStore => t[c].levels[l] = s[c].levels[l]
             /\ <<nm[c], l>> \in InStore => \A a \in [Sites -> Sample(l)] :
                  Patched(Patches(s, step, <<nm[c], l>>), a, s[c].levels[l].val) => t[c].levels[l].val = a
             /\ (s[c].levels[l].held = "none" => s[c].levels[l].val = Blank(l))
                  => (t[c].levels[l].held = "none" => t[c].levels[l].val = Blank(l))
             /\ l = L /\ s[c].levels[l].held # "none" => t[c].levels[l].held # "none"
             /\ l <= L \/ nm[c] # "mask" => t[c].levels[l].owes = s[c].levels[l].owes
  <2> DEFINE p == <<nm[c], l>>
             y == u[c].levels[l]
             z == t[c].levels[l]
  <2>1. y = PutBlock(s[c].levels[l], Here(s, step.blocks, p))
    BY <1>2
  <2>2. z = PutFinerLevel(y, Here(s, step.finer, p))
    BY <1>4, <1>5
  <2>3. p = <<nm[c], l>>
    OBVIOUS
  <2> HIDE DEF p, y, z
  <2>4. /\ z.tok = s[c].levels[l].tok
        /\ p \notin InStore => z = s[c].levels[l]
        /\ p \in InStore => \A a \in [Sites -> Sample(l)] :
             Patched(Patches(s, step, p), a, s[c].levels[l].val) => z.val = a
        /\ (s[c].levels[l].held = "none" => s[c].levels[l].val = Blank(l))
             => (z.held = "none" => z.val = Blank(l))
        /\ l = L /\ s[c].levels[l].held # "none" => z.held # "none"
        /\ l <= L \/ nm[c] # "mask" => z.owes = s[c].levels[l].owes
    BY <2>1, <2>2, <2>3, SwapLevel
  <2> QED BY <2>4 DEF p, z
<1>7. Frame(s, t)
  BY <1>2, <1>4 DEF Frame
<1>8. Alike(s, t)
  <2>1. DOMAIN s = DOMAIN nm /\ \A c \in DOMAIN nm : DOMAIN s[c].levels = Levels
    BY StoreForm DEF Levels
  <2>2. \A c \in DOMAIN nm : \A l \in Levels : t[c].levels[l].tok = s[c].levels[l].tok
    BY <1>6
  <2>3. /\ DOMAIN t = DOMAIN nm
        /\ \A c \in DOMAIN nm : /\ t[c].name = s[c].name /\ t[c].tok = s[c].tok
                               /\ DOMAIN t[c].levels = DOMAIN s[c].levels
    BY <1>7, <2>1 DEF Frame
  <2> QED BY <2>1, <2>2, <2>3 DEF Alike
<1>9. Sound(t)
  <2>1. \A c \in DOMAIN nm : \A l \in Levels :
           /\ t[c].levels[l].tok = s[c].levels[l].tok
           /\ s[c].levels[l].val = Blank(l) \/ s[c].levels[l].held # "none"
                => (t[c].levels[l].held = "none" => t[c].levels[l].val = Blank(l))
           /\ l = L /\ s[c].levels[l].held # "none" => t[c].levels[l].held # "none"
    BY <1>6
  <2> QED BY <1>1, <2>1, SoundBy
<1> QED BY <1>1, <1>6, <1>7, <1>8, <1>9

-----------------------------------------------------------------------------
(* What a swap does to the step.                                           *)

LEMMA TakenBlockAre ==
  ASSUME NEW nm, Named(nm), NEW n \in Nat, NEW s \in Store(nm, n), NEW bs \in SUBSET Blocks
  PROVE  /\ \A r \in TakenBlocks(s, bs) : \E b \in bs :
              /\ r.id = b.id
              /\ \A c \in DOMAIN nm : \A l \in Levels :
                   Resolve(s, b.id) # 0 /\ b.id.name = nm[c] /\ b.id.level = l
                     => r.val = [x \in DOMAIN b.val |-> s[c].levels[l].val[x]]
         /\ \A b \in bs : \E r \in TakenBlocks(s, bs) : r.id = b.id /\ DOMAIN r.val = DOMAIN b.val
<1> DEFINE T(b) == IF Resolve(s, b.id) = 0 THEN b
                   ELSE [b EXCEPT !.val = [x \in DOMAIN @ |->
                           s[Resolve(s, b.id)].levels[b.id.level].val[x]]]
<1>1. TakenBlocks(s, bs) = {T(b) : b \in bs}
  BY DEF TakenBlocks
<1>2. ASSUME NEW b \in bs
      PROVE  /\ T(b).id = b.id /\ DOMAIN T(b).val = DOMAIN b.val
             /\ \A c \in DOMAIN nm : \A l \in Levels :
                  Resolve(s, b.id) # 0 /\ b.id.name = nm[c] /\ b.id.level = l
                    => T(b).val = [x \in DOMAIN b.val |-> s[c].levels[l].val[x]]
  <2> DEFINE v == [x \in DOMAIN b.val |-> s[Resolve(s, b.id)].levels[b.id.level].val[x]]
  <2>1. b \in BlocksAt(b.id.level)
    BY BlocksOf
  <2>2. DOMAIN v = DOMAIN b.val
    OBVIOUS
  <2>3. T(b) = IF Resolve(s, b.id) = 0 THEN b ELSE [b EXCEPT !.val = v]
    OBVIOUS
  <2>4. ASSUME Resolve(s, b.id) # 0, NEW c \in DOMAIN nm, NEW l \in Levels, b.id.name = nm[c], b.id.level = l
        PROVE  v = [x \in DOMAIN b.val |-> s[c].levels[l].val[x]]
    <3>1. Resolve(s, b.id) = FindChannel(s, b.id.name)
      BY <2>4 DEF Resolve
    <3>2. Resolve(s, b.id) = c
      BY <2>4, <3>1, FindAt
    <3> QED BY <2>4, <3>2
  <2> HIDE DEF v, T
  <2>5. T(b).id = b.id /\ DOMAIN T(b).val = DOMAIN b.val
    BY <2>1, <2>2, <2>3 DEF BlocksAt
  <2>6. Resolve(s, b.id) # 0 => T(b).val = v
    BY <2>1, <2>3 DEF BlocksAt
  <2> QED BY <2>4, <2>5, <2>6
<1> HIDE DEF T
<1> QED BY <1>1, <1>2

LEMMA BlocksExchanged ==
  ASSUME NEW nm, Named(nm), NEW n \in Nat, NEW s \in Store(nm, n), NEW bs \in SUBSET Blocks,
         NEW c \in DOMAIN nm, NEW l \in Levels, NEW p, p = <<nm[c], l>>
  PROVE  Exchanged(ValsOf(Here(s, bs, p)), ValsOf(Here(s, TakenBlocks(s, bs), p)), s[c].levels[l].val)
<1> DEFINE R == TakenBlocks(s, bs)
<1>1. /\ \A r \in R : \E b \in bs :
           /\ r.id = b.id
           /\ \A d \in DOMAIN nm : \A k \in Levels :
                Resolve(s, b.id) # 0 /\ b.id.name = nm[d] /\ b.id.level = k
                  => r.val = [x \in DOMAIN b.val |-> s[d].levels[k].val[x]]
      /\ \A b \in bs : \E r \in R : r.id = b.id /\ DOMAIN r.val = DOMAIN b.val
  BY TakenBlockAre
<1> HIDE DEF R
<1>2. p[1] = nm[c] /\ p[2] = l
  OBVIOUS
<1>3. ASSUME NEW r \in Here(s, R, p)
      PROVE  \A x \in DOMAIN r.val : r.val[x] = s[c].levels[l].val[x]
  <2>1. r \in R /\ Resolve(s, r.id) # 0 /\ r.id.name = nm[c] /\ r.id.level = l
    BY <1>2 DEF Here
  <2>2. PICK b \in bs :
          /\ r.id = b.id
          /\ \A d \in DOMAIN nm : \A k \in Levels :
               Resolve(s, b.id) # 0 /\ b.id.name = nm[d] /\ b.id.level = k
                 => r.val = [x \in DOMAIN b.val |-> s[d].levels[k].val[x]]
    BY <1>1, <2>1
  <2>3. r.val = [x \in DOMAIN b.val |-> s[c].levels[l].val[x]]
    BY <2>1, <2>2
  <2> QED BY <2>3
<1>4. ASSUME NEW b \in Here(s, bs, p)
      PROVE  \E r \in Here(s, R, p) : DOMAIN r.val = DOMAIN b.val
  BY <1>1 DEF Here
<1>5. Exchanged(ValsOf(Here(s, bs, p)), ValsOf(Here(s, R, p)), s[c].levels[l].val)
  BY <1>3, <1>4 DEF Exchanged, ValsOf
<1> QED BY <1>5 DEF R

LEMMA TakenFinerAre ==
  ASSUME NEW nm, Named(nm), NEW n \in Nat, NEW s \in Store(nm, n), NEW fs \in SUBSET Finers(n)
  PROVE  \E T : /\ TakenFiner(s, fs) = {T[f] : f \in fs}
                /\ \A f \in fs :
                     /\ T[f].id = f.id /\ T[f].whole = f.whole
                     /\ Resolve(s, f.id) = 0 => T[f] = f
                     /\ \A c \in DOMAIN nm : \A l \in Levels :
                          Resolve(s, f.id) # 0 /\ f.id.name = nm[c] /\ f.id.level = l
                            => /\ f.whole => T[f].state = s[c].levels[l] /\ T[f].blocks = f.blocks
                               /\ ~f.whole => /\ T[f].blocks = TakenBlocks(s, f.blocks)
                                              /\ T[f].state = f.state
                                              /\ T[f].owes = s[c].levels[l].owes
<1> DEFINE R(f) == LET c == Resolve(s, f.id) IN
                     IF c = 0 THEN f
                     ELSE IF f.whole THEN [f EXCEPT !.state = s[c].levels[f.id.level]]
                     ELSE [f EXCEPT !.blocks = TakenBlocks(s, @), !.owes = s[c].levels[f.id.level].owes]
           T == [f \in fs |-> R(f)]
<1>1. TakenFiner(s, fs) = {R(f) : f \in fs}
  BY DEF TakenFiner
<1>2. ASSUME NEW f \in fs
      PROVE  /\ T[f] = R(f)
             /\ R(f).id = f.id /\ R(f).whole = f.whole
             /\ Resolve(s, f.id) = 0 => R(f) = f
             /\ \A c \in DOMAIN nm : \A l \in Levels :
                  Resolve(s, f.id) # 0 /\ f.id.name = nm[c] /\ f.id.level = l
                    => /\ f.whole => R(f).state = s[c].levels[l] /\ R(f).blocks = f.blocks
                       /\ ~f.whole => /\ R(f).blocks = TakenBlocks(s, f.blocks)
                                      /\ R(f).state = f.state
                                      /\ R(f).owes = s[c].levels[l].owes
  <2>1. f \in FinersAt(f.id.level, n)
    BY FinersOf
  <2>2. T[f] = R(f)
    OBVIOUS
  <2> DEFINE i == Resolve(s, f.id)
             st == s[i].levels[f.id.level]
             tb == TakenBlocks(s, f.blocks)
             ow == s[i].levels[f.id.level].owes
  <2>3. R(f) = IF i = 0 THEN f ELSE IF f.whole THEN [f EXCEPT !.state = st]
               ELSE [f EXCEPT !.blocks = tb, !.owes = ow]
    OBVIOUS
  <2>4. ASSUME i # 0, NEW c \in DOMAIN nm, NEW l \in Levels, f.id.name = nm[c], f.id.level = l
        PROVE  st = s[c].levels[l] /\ ow = s[c].levels[l].owes
    <3>1. i = FindChannel(s, f.id.name)
      BY <2>4 DEF Resolve
    <3>2. i = c
      BY <2>4, <3>1, FindAt
    <3> QED BY <2>4, <3>2
  <2>5. tb = TakenBlocks(s, f.blocks) /\ i = Resolve(s, f.id)
    OBVIOUS
  <2> HIDE DEF st, ow, tb, i, R, T
  <2>6. f = [id |-> f.id, owes |-> f.owes, whole |-> f.whole, state |-> f.state, blocks |-> f.blocks]
    BY <2>1 DEF FinersAt
  <2>7. /\ R(f).id = f.id /\ R(f).whole = f.whole /\ (i = 0 => R(f) = f)
        /\ i # 0 /\ f.whole => R(f).state = st /\ R(f).blocks = f.blocks
        /\ i # 0 /\ ~f.whole => R(f).state = f.state /\ R(f).blocks = tb /\ R(f).owes = ow
    <3>1. CASE i = 0
      BY <2>3, <3>1
    <3>2. CASE i # 0 /\ f.whole
      BY <2>3, <2>6, <3>2
    <3>3. CASE i # 0 /\ ~f.whole
      BY <2>3, <2>6, <3>3
    <3> QED BY <3>1, <3>2, <3>3
  <2> QED BY <2>2, <2>4, <2>5, <2>7
<1> HIDE DEF R, T
<1>3. TakenFiner(s, fs) = {T[f] : f \in fs}
  BY <1>1, <1>2
<1> QED BY <1>2, <1>3

LEMMA FinersExchanged ==
  ASSUME NEW nm, Named(nm), NEW n \in Nat, NEW s \in Store(nm, n), NEW step \in Step(n), SoundStep(step, n),
         NEW c \in DOMAIN nm, NEW l \in Levels, NEW p, p = <<nm[c], l>>
  PROVE  Exchanged(UNION {FinerPatches(f) : f \in Here(s, step.finer, p)},
                   UNION {FinerPatches(f) : f \in Here(s, TakenFiner(s, step.finer), p)},
                   s[c].levels[l].val)
<1> DEFINE fs == step.finer
           R == TakenFiner(s, fs)
           v == s[c].levels[l].val
<1>1. fs \in SUBSET Finers(n)
  BY DEF Step
<1>2. PICK T : /\ R = {T[f] : f \in fs}
               /\ \A f \in fs :
                    /\ T[f].id = f.id /\ T[f].whole = f.whole
                    /\ Resolve(s, f.id) = 0 => T[f] = f
                    /\ \A d \in DOMAIN nm : \A k \in Levels :
                         Resolve(s, f.id) # 0 /\ f.id.name = nm[d] /\ f.id.level = k
                           => /\ f.whole => T[f].state = s[d].levels[k] /\ T[f].blocks = f.blocks
                              /\ ~f.whole => /\ T[f].blocks = TakenBlocks(s, f.blocks)
                                             /\ T[f].state = f.state
                                             /\ T[f].owes = s[d].levels[k].owes
  BY <1>1, TakenFinerAre
<1>3. v \in [Sites -> Sample(l)]
  BY StoreLevel
<1>4. \A f \in fs : \A b \in f.blocks : b.id = f.id
  BY DEF SoundStep
<1>5. p[1] = nm[c] /\ p[2] = l
  OBVIOUS
<1>6. fs = step.finer /\ v = s[c].levels[l].val /\ R = TakenFiner(s, step.finer)
  OBVIOUS
<1> HIDE DEF fs, R, v
<1>7. ASSUME NEW f \in fs, Resolve(s, f.id) # 0, f.id.name = nm[c], f.id.level = l
      PROVE  Exchanged(FinerPatches(f), FinerPatches(T[f]), v)
  <2>1. /\ T[f].whole = f.whole
        /\ f.whole => T[f].state = s[c].levels[l]
        /\ ~f.whole => T[f].blocks = TakenBlocks(s, f.blocks)
    BY <1>2, <1>7
  <2>2. f \in FinersAt(l, n) /\ f.blocks \in SUBSET Blocks
    <3>1. f \in FinersAt(l, n)
      BY <1>1, <1>7, FinersOf
    <3> QED BY <3>1 DEF FinersAt, Blocks
  <2>3. CASE f.whole
    <3>1. f.state.val \in [Sites -> Sample(l)]
      BY <2>2 DEF FinersAt, LevelAt
    <3>2. FinerPatches(f) = {f.state.val} /\ FinerPatches(T[f]) = {v}
      BY <1>6, <2>1, <2>3 DEF FinerPatches
    <3> QED BY <1>3, <3>1, <3>2 DEF Exchanged
  <2>4. CASE ~f.whole
    <3> DEFINE bs == f.blocks
               ts == TakenBlocks(s, bs)
    <3>1. Exchanged(ValsOf(Here(s, bs, p)), ValsOf(Here(s, ts, p)), v)
      BY <1>6, <2>2, BlocksExchanged
    <3>2. Here(s, bs, p) = bs
      BY <1>4, <1>5, <1>7 DEF Here
    <3>3. \A r \in ts : \E b \in bs : r.id = b.id
      BY <2>2, TakenBlockAre
    <3>4. FinerPatches(f) = ValsOf(bs) /\ FinerPatches(T[f]) = ValsOf(ts)
      BY <2>1, <2>4 DEF FinerPatches, ValsOf
    <3> HIDE DEF ts
    <3>5. Here(s, ts, p) = ts
      BY <1>4, <1>5, <1>7, <3>3 DEF Here
    <3> QED BY <3>1, <3>2, <3>4, <3>5
  <2> QED BY <2>3, <2>4
<1>8. \A f \in Here(s, fs, p) : f \in fs /\ Resolve(s, f.id) # 0 /\ f.id.name = nm[c] /\ f.id.level = l
  BY <1>5 DEF Here
<1>9. Here(s, R, p) = {T[f] : f \in Here(s, fs, p)}
  BY <1>2, <1>5 DEF Here
<1>10. Exchanged(UNION {FinerPatches(f) : f \in Here(s, fs, p)},
                 UNION {FinerPatches(g) : g \in Here(s, R, p)}, v)
  <2> DEFINE H == Here(s, fs, p)
             Q == UNION {FinerPatches(f) : f \in H}
             W == UNION {FinerPatches(g) : g \in Here(s, R, p)}
  <2>1. \A f \in H : Exchanged(FinerPatches(f), FinerPatches(T[f]), v)
    BY <1>7, <1>8
  <2> HIDE DEF H
  <2>2. ASSUME NEW q \in Q PROVE \E r \in W : DOMAIN r = DOMAIN q
    <3>1. PICK f \in H : q \in FinerPatches(f)
      OBVIOUS
    <3>2. PICK r \in FinerPatches(T[f]) : DOMAIN r = DOMAIN q
      BY <2>1, <3>1 DEF Exchanged
    <3>3. T[f] \in Here(s, R, p)
      BY <1>9 DEF H
    <3> QED BY <3>2, <3>3
  <2>3. ASSUME NEW r \in W PROVE \A x \in DOMAIN r : r[x] = v[x]
    <3>1. PICK g \in Here(s, R, p) : r \in FinerPatches(g)
      OBVIOUS
    <3>2. PICK f \in H : g = T[f]
      BY <1>9, <3>1 DEF H
    <3> QED BY <2>1, <3>1, <3>2 DEF Exchanged
  <2>4. Exchanged(Q, W, v)
    BY <2>2, <2>3 DEF Exchanged
  <2> QED BY <2>4 DEF H
<1> QED BY <1>6, <1>10

\* What a swap keeps of a step is as sound as the step was.
LEMMA TakenSound ==
  ASSUME NEW nm, Named(nm), NEW n \in Nat, NEW s \in Store(nm, n), Sound(s), NEW step \in Step(n), SoundStep(step, n),
         NEW t, t.blocks = TakenBlocks(s, step.blocks), t.finer = TakenFiner(s, step.finer),
         \A k \in t.mask : \E j \in step.mask : k.id = j.id,
         t.preAttr = step.preAttr, t.postAttr = step.postAttr
  PROVE  SoundStep(t, n)
<1>1. \A k \in t.mask : k.id.name = "mask" /\ k.id.chan < n
  BY DEF SoundStep
<1>2. \A b \in t.blocks : b.id.level = L /\ b.id.chan < n
  <2>1. step.blocks \in SUBSET Blocks
    BY DEF Step
  <2>2. \A r \in t.blocks : \E b \in step.blocks : r.id = b.id
    BY <2>1, TakenBlockAre
  <2> QED BY <2>2 DEF SoundStep
<1>3. step.finer \in SUBSET Finers(n)
  BY DEF Step
<1>4. PICK T : /\ t.finer = {T[f] : f \in step.finer}
               /\ \A f \in step.finer :
                    /\ T[f].id = f.id /\ T[f].whole = f.whole
                    /\ Resolve(s, f.id) = 0 => T[f] = f
                    /\ \A d \in DOMAIN nm : \A k \in Levels :
                         Resolve(s, f.id) # 0 /\ f.id.name = nm[d] /\ f.id.level = k
                           => /\ f.whole => T[f].state = s[d].levels[k] /\ T[f].blocks = f.blocks
                              /\ ~f.whole => /\ T[f].blocks = TakenBlocks(s, f.blocks)
                                             /\ T[f].state = f.state
                                             /\ T[f].owes = s[d].levels[k].owes
  BY <1>3, TakenFinerAre
<1>5. ASSUME NEW f \in step.finer
      PROVE  /\ T[f].id.name = "mask" /\ T[f].id.level > L /\ T[f].id.chan < n
             /\ T[f].whole => /\ T[f].state.tok = T[f].id.lev
                              /\ T[f].state.held = "none" => T[f].state.val = Blank(T[f].id.level)
             /\ \A b \in T[f].blocks : b.id = T[f].id
             /\ \A g \in step.finer : T[g].id.level = T[f].id.level => T[g] = T[f]
  <2>1. T[f].id = f.id /\ T[f].whole = f.whole
    BY <1>4
  <2>2. /\ f.id.name = "mask" /\ f.id.level > L /\ f.id.chan < n
        /\ f.whole => /\ f.state.tok = f.id.lev
                      /\ f.state.held = "none" => f.state.val = Blank(f.id.level)
        /\ \A b \in f.blocks : b.id = f.id
        /\ \A g \in step.finer : g.id.level = f.id.level => g = f
    BY DEF SoundStep
  <2>3. CASE Resolve(s, f.id) = 0
    <3>1. T[f] = f
      BY <1>4, <2>3
    <3>2. \A g \in step.finer : T[g].id.level = T[f].id.level => T[g] = T[f]
      BY <1>4, <2>2
    <3> QED BY <2>2, <3>1, <3>2
  <2>4. CASE Resolve(s, f.id) # 0
    <3>1. FindChannel(s, f.id.name) # 0 /\ Resolve(s, f.id) = FindChannel(s, f.id.name)
      BY <2>4 DEF Resolve
    <3>2. PICK d \in DOMAIN nm : d = FindChannel(s, f.id.name) /\ f.id.name = nm[d]
      BY <3>1, FindIs
    <3>3. f.id.level \in Levels /\ f \in FinersAt(f.id.level, n)
      BY <1>3, FinersOf
    <3>4. /\ f.whole => T[f].state = s[d].levels[f.id.level] /\ T[f].blocks = f.blocks
          /\ ~f.whole => T[f].blocks = TakenBlocks(s, f.blocks)
      BY Zenon, <1>4, <2>4, <3>2, <3>3
    <3>5. s[d].levels[f.id.level].tok = f.id.lev
      BY <2>4, <3>2 DEF Resolve
    <3>6. f.whole => /\ T[f].state.tok = T[f].id.lev
                     /\ T[f].state.held = "none" => T[f].state.val = Blank(T[f].id.level)
      <4>1. d \in DOMAIN s
        BY <3>2, StoreForm
      <4> QED BY <2>1, <3>3, <3>4, <3>5, <4>1 DEF Sound
    <3>7. \A b \in T[f].blocks : b.id = T[f].id
      <4>1. f.blocks \in SUBSET Blocks
        BY <3>3 DEF FinersAt, Blocks
      <4>2. \A r \in TakenBlocks(s, f.blocks) : \E b \in f.blocks : r.id = b.id
        BY <4>1, TakenBlockAre
      <4> QED BY <2>1, <2>2, <3>4, <4>2
    <3>8. \A g \in step.finer : T[g].id.level = T[f].id.level => T[g] = T[f]
      BY <1>4, <2>2
    <3> QED BY <2>1, <2>2, <3>6, <3>7, <3>8
  <2> QED BY <2>3, <2>4
<1>6. \A d \in t.preAttr \cup t.postAttr : d.id.level = L /\ d.id.chan < n
  BY DEF SoundStep
<1>7. \A f \in t.finer :
       /\ f.id.name = "mask" /\ f.id.level > L /\ f.id.chan < n
       /\ f.whole => /\ f.state.tok = f.id.lev
                     /\ f.state.held = "none" => f.state.val = Blank(f.id.level)
       /\ \A b \in f.blocks : b.id = f.id
       /\ \A g \in t.finer : g.id.level = f.id.level => g = f
  BY <1>4, <1>5
<1> QED BY <1>1, <1>2, <1>6, <1>7 DEF SoundStep

-----------------------------------------------------------------------------
(* What a swap does to the documents: it goes where the step leads, and    *)
(* what it takes along leads back.                                         *)

Swapped(nm, n, lv, e, lw, st) ==
  /\ lw \in Lives(nm, n) /\ st \in Step(n) /\ SoundStep(st, n)
  /\ Sound(lw.store) /\ Alike(lv.store, lw.store)
  /\ Reads(lw) = e /\ Leads(lw.store, st, Reads(lv), e)
  /\ \A l \in Levels : /\ l < L => lw.mask[l] = lv.mask[l]
                       /\ l > L => lw.mask[l] = None
  /\ \A c \in DOMAIN nm : \A l \in Levels :
       <<nm[c], l>> \notin InStore => lw.store[c].levels[l].val = lv.store[c].levels[l].val

LEMMA AlikeTrans ==
  ASSUME NEW s, NEW t, NEW u, Alike(s, t), Alike(t, u)
  PROVE  Alike(s, u)
BY DEF Alike

\* A channel that is not there has no patches.
LEMMA NoPatches ==
  ASSUME NEW s, NEW step, NEW p \in InStore, FindChannel(s, p[1]) = 0
  PROVE  Patches(s, step, p) = {}
<1>1. \A id : id.name = p[1] => Resolve(s, id) = 0
  BY DEF Resolve
<1>2. \A bs : Here(s, bs, p) = {}
  BY <1>1 DEF Here
<1>3. Patches(s, step, p)
        = ValsOf(Here(s, step.blocks, p)) \cup UNION {FinerPatches(f) : f \in Here(s, step.finer, p)}
  BY SpotsAre DEF Patches
<1> QED BY <1>2, <1>3 DEF ValsOf

LEMMA PatchedNone ==
  ASSUME NEW T, NEW S, NEW a \in [T -> S], NEW b \in [T -> S], Patched({}, a, b)
  PROVE  a = b
BY DEF Patched

LEMMA SwapReads ==
  ASSUME NEW nm, Named(nm), NEW n \in Nat, NEW lv \in Lives(nm, n), NEW step \in Step(n), SoundStep(step, n),
         Sound(lv.store), NEW e, Reading(e), Leads(lv.store, step, e, Reads(lv)),
         NEW w, w = ApplySwap(lv, step)
  PROVE  Swapped(nm, n, lv, e, w.live, w.step)
<1> DEFINE s0 == lv.store
           s == EnsureResident(s0, {L})
           t == PutFiner(PutBlocks(s, step.blocks), step.finer)
           d == Reads(lv)
           known == {k \in step.mask : Resolve(lv.store, k.id) # 0}
           pos == Put(lv.pos, step.pos)
           dense == Put(lv.mask[L], known)
           mask == Dropped([lv.mask EXCEPT ![L] = dense])
           P == Taken(lv.pos, step.pos)
           K == Taken(lv.mask[L], known) \cup (step.mask \ known)
           B == TakenBlocks(s, step.blocks)
           F == TakenFiner(s, step.finer)
<1>1. /\ w.live = [lv EXCEPT !.pos = pos, !.mask = mask, !.store = t]
      /\ w.step = [step EXCEPT !.pos = P, !.mask = K, !.blocks = B, !.finer = F]
  BY Zenon DEF ApplySwap
<1>2. w.live \in Lives(nm, n) /\ w.step \in Step(n)
  BY SwapIs
<1>3. s0 \in Store(nm, n) /\ lv.pos \in MaskAt(L) /\ lv.mask \in Masks
  BY DEF Lives
<1>4. L \in Levels /\ lv.mask[L] \in MaskAt(L) /\ DOMAIN lv.mask = Levels
  BY <1>3, MasksAre
<1>5. s = Reheld(s0, {L}, "blob", "chunks")
  BY DEF EnsureResident
<1>6. /\ t = PutFiner(PutBlocks(s, step.blocks), step.finer)
      /\ B = TakenBlocks(s, step.blocks) /\ F = TakenFiner(s, step.finer)
      /\ known = {k \in step.mask : Resolve(s0, k.id) # 0} /\ d = Reads(lv)
  OBVIOUS
<1>7. /\ pos = Put(lv.pos, step.pos) /\ dense = Put(lv.mask[L], known)
      /\ mask = Dropped([lv.mask EXCEPT ![L] = dense])
      /\ P = Taken(lv.pos, step.pos) /\ K = Taken(lv.mask[L], known) \cup (step.mask \ known)
      /\ s0 = lv.store
  OBVIOUS
<1> HIDE DEF s0, s, t, d, known, pos, dense, mask, P, K, B, F
<1>8. /\ w.live.pos = pos /\ w.live.mask = mask /\ w.live.store = t
      /\ w.step.pos = P /\ w.step.mask = K /\ w.step.blocks = B /\ w.step.finer = F
      /\ w.step.preAttr = step.preAttr /\ w.step.postAttr = step.postAttr
  <2>1. lv = [store |-> lv.store, pos |-> lv.pos, owes |-> lv.owes, mask |-> lv.mask]
    BY DEF Lives
  <2>2. step = [pos |-> step.pos, mask |-> step.mask, blocks |-> step.blocks, finer |-> step.finer,
                pre |-> step.pre, post |-> step.post, preAttr |-> step.preAttr,
                postAttr |-> step.postAttr]
    BY DEF Step
  <2>3. w.live.pos = pos /\ w.live.mask = mask /\ w.live.store = t
    BY <1>1, <2>1
  <2>4. /\ w.step.pos = P /\ w.step.mask = K /\ w.step.blocks = B /\ w.step.finer = F
        /\ w.step.preAttr = step.preAttr /\ w.step.postAttr = step.postAttr
    BY <1>1, <2>2
  <2> QED BY <2>3, <2>4
<1>9. /\ s \in Store(nm, n) /\ Sound(s) /\ Alike(s0, s)
      /\ \A c \in DOMAIN nm : \A l \in Levels : s[c].levels[l].val = s0[c].levels[l].val
  <2>1. "chunks" \in Held
    BY DEF Held
  <2>2. Sound(s) /\ s \in Store(nm, n)
    BY <1>3, <1>5, <1>7, <2>1, ReheldSound
  <2>3. /\ Frame(s0, s) /\ Alike(s0, s)
        /\ \A c \in DOMAIN nm : \A l \in Levels :
             /\ s[c].levels[l].val = s0[c].levels[l].val /\ s[c].levels[l].owes = s0[c].levels[l].owes
             /\ s[c].levels[l].tok = s0[c].levels[l].tok
             /\ s[c].levels[l].held = IF l \in {L} /\ s0[c].levels[l].held = "blob" THEN "chunks"
                                      ELSE s0[c].levels[l].held
    BY <1>3, <1>5, ReheldHas
  <2> QED BY <2>2, <2>3
<1>10. /\ Frame(s, t) /\ Alike(s, t) /\ Sound(t) /\ t \in Store(nm, n)
       /\ \A c \in DOMAIN nm : \A l \in Levels :
            /\ <<nm[c], l>> \notin InStore => t[c].levels[l] = s[c].levels[l]
            /\ <<nm[c], l>> \in InStore => \A a \in [Sites -> Sample(l)] :
                 Patched(Patches(s, step, <<nm[c], l>>), a, s[c].levels[l].val) => t[c].levels[l].val = a
            /\ l <= L \/ nm[c] # "mask" => t[c].levels[l].owes = s[c].levels[l].owes
  BY <1>6, <1>9, SwapStore
<1>11. Alike(s0, t)
  BY <1>9, <1>10, AlikeTrans
<1>12. /\ Leads(s, step, e, d)
       /\ \A p \in Spots : Patched(Patches(s, step, p), e[p], d[p])
       /\ \A st, p : Patches(t, st, p) = Patches(s, st, p)
       /\ \A id : Resolve(s, id) = Resolve(s0, id)
  <2>1. \A st, a, b : Leads(s, st, a, b) <=> Leads(s0, st, a, b)
    BY <1>3, <1>9, AlikeIn
  <2>2. \A st, p : Patches(t, st, p) = Patches(s, st, p)
    BY <1>9, <1>10, AlikeIn
  <2>3. \A id : Resolve(s, id) = Resolve(s0, id)
    BY <1>3, <1>9, AlikeIn
  <2>4. Leads(s, step, e, d)
    BY <1>6, <1>7, <2>1
  <2> QED BY <2>2, <2>3, <2>4 DEF Leads
<1>13. /\ Reading(d) /\ d[Pos] = lv.pos /\ d[Dense] = lv.mask[L]
       /\ \A p \in InStore : d[p] = Raw(s0, p[1], p[2])
  BY <1>6, <1>7, ReadsAre
<1>14. /\ Reading(Reads(w.live)) /\ Reads(w.live)[Pos] = pos /\ Reads(w.live)[Dense] = dense
       /\ \A p \in InStore : Reads(w.live)[p] = Raw(t, p[1], p[2])
  <2>1. /\ Reading(Reads(w.live)) /\ Reads(w.live)[Pos] = w.live.pos /\ Reads(w.live)[Dense] = w.live.mask[L]
        /\ \A p \in InStore : Reads(w.live)[p] = Raw(w.live.store, p[1], p[2])
    BY <1>2, ReadsAre
  <2>2. mask[L] = dense
    <3>1. L \in Nat
      BY LogAssumption
    <3> QED BY <1>4, <1>7, <3>1 DEF Dropped
  <2> QED BY <1>8, <2>1, <2>2
<1>15. \A x, y : x \in MaskAt(L) /\ y \in MaskAt(L)
                   => DOMAIN x = DOMAIN y /\ x = [v \in DOMAIN x |-> x[v]]
  BY DEF MaskAt
<1>16. e[Pos] \in MaskAt(L) /\ e[Dense] \in MaskAt(L)
  BY SpotsAre DEF Reading, ReadingAt
<1>17. Patches(s, step, Pos) = ValsOf(step.pos) /\ Patches(s, step, Dense) = ValsOf(known)
  <2>1. Pos # Dense
    BY SpotsAre
  <2>2. {k \in step.mask : Resolve(s, k.id) # 0} = known
    BY <1>6, <1>12
  <2>3. Patches(s, step, Pos) = ValsOf(step.pos)
    BY DEF Patches
  <2>4. Patches(s, step, Dense) = ValsOf({k \in step.mask : Resolve(s, k.id) # 0})
    BY <2>1 DEF Patches
  <2> QED BY <2>2, <2>3, <2>4
<1>18. pos = e[Pos]
  <2>1. Patched(ValsOf(step.pos), e[Pos], lv.pos)
    BY <1>12, <1>13, <1>17, SpotsAre
  <2>2. Put(lv.pos, step.pos) = e[Pos]
    BY <1>3, <1>15, <1>16, <2>1, PutLeads
  <2> QED BY <1>7, <2>2
<1>19. dense = e[Dense]
  <2>1. Patched(ValsOf(known), e[Dense], lv.mask[L])
    BY <1>12, <1>13, <1>17, SpotsAre
  <2>2. Put(lv.mask[L], known) = e[Dense]
    BY <1>4, <1>15, <1>16, <2>1, PutLeads
  <2> QED BY <1>7, <2>2
<1>20. ASSUME NEW p \in InStore
       PROVE  \/ /\ FindChannel(s, p[1]) = 0 /\ FindChannel(t, p[1]) = 0 /\ FindChannel(s0, p[1]) = 0
                 /\ Patches(s, step, p) = {}
              \/ \E c \in DOMAIN nm : p = <<nm[c], p[2]>> /\ p[2] \in Levels
  <2>1. p = <<p[1], p[2]>> /\ p[2] \in Levels
    BY SpotsAre
  <2>2. CASE FindChannel(s0, p[1]) = 0
    <3>1. FindChannel(s, p[1]) = 0 /\ FindChannel(t, p[1]) = 0
      BY <1>9, <1>11, <2>2, AlikeFinds
    <3> QED BY <2>2, <3>1, NoPatches
  <2>3. CASE FindChannel(s0, p[1]) # 0
    <3>1. PICK c \in DOMAIN nm : nm[c] = p[1]
      BY <1>3, <2>3, FindIs
    <3> QED BY <2>1, <3>1
  <2> QED BY <2>2, <2>3
<1>21. ASSUME NEW p \in InStore, NEW c \in DOMAIN nm, p = <<nm[c], p[2]>>, p[2] \in Levels
       PROVE  d[p] = s[c].levels[p[2]].val /\ Raw(t, p[1], p[2]) = t[c].levels[p[2]].val
  <2> DEFINE l == p[2]
  <2>1. p[1] = nm[c] /\ l \in Levels /\ nm[c] \in Names
    BY <1>21 DEF Named
  <2>2. Raw(s0, nm[c], l) = s0[c].levels[l].val /\ Raw(t, nm[c], l) = t[c].levels[l].val
    BY <1>3, <1>10, <2>1, RawIs
  <2> QED BY <1>9, <1>13, <2>1, <2>2
<1>22. ASSUME NEW p \in InStore PROVE Raw(t, p[1], p[2]) = e[p]
  <2>1. Patched(Patches(s, step, p), e[p], d[p])
    BY <1>12, SpotsAre
  <2>2. e[p] \in [Sites -> Sample(p[2])] /\ d[p] \in [Sites -> Sample(p[2])]
    <3>1. p \in Spots /\ p \notin {Pos, Dense}
      BY SpotsAre
    <3> QED BY <1>13, <3>1 DEF Reading, ReadingAt
  <2>3. CASE FindChannel(s, p[1]) = 0 /\ FindChannel(t, p[1]) = 0 /\ FindChannel(s0, p[1]) = 0
             /\ Patches(s, step, p) = {}
    <3>1. e[p] = d[p]
      BY <2>1, <2>2, <2>3, PatchedNone
    <3> QED BY <1>13, <2>3, <3>1 DEF Raw
  <2>4. ASSUME NEW c \in DOMAIN nm, p = <<nm[c], p[2]>>, p[2] \in Levels
        PROVE  Raw(t, p[1], p[2]) = e[p]
    <3> DEFINE l == p[2]
    <3>1. Patched(Patches(s, step, <<nm[c], l>>), e[p], s[c].levels[l].val) /\ <<nm[c], l>> \in InStore
      BY <1>21, <2>1, <2>4
    <3>2. t[c].levels[l].val = e[p]
      BY <1>10, <2>2, <2>4, <3>1
    <3> QED BY <1>21, <2>4, <3>2
  <2> QED BY <1>20, <2>3, <2>4
<1>23. Reads(w.live) = e
  <2>1. \A p \in Spots : Reads(w.live)[p] = e[p]
    BY <1>14, <1>18, <1>19, <1>22, SpotsAre
  <2> QED BY <1>14, <2>1, ReadingsEqual
<1>24. SoundStep(w.step, n)
  <2>1. \A k \in w.step.mask : \E j \in step.mask : k.id = j.id
    <3>1. \A k \in Taken(lv.mask[L], known) : \E j \in known : k.id = j.id
      <4>1. \A k \in known : k \in MaskNodes
        BY <1>6 DEF Step
      <4>2. ASSUME NEW k \in known PROVE [k EXCEPT !.val = [v \in DOMAIN @ |-> lv.mask[L][v]]].id = k.id
        BY <4>1 DEF MaskNodes
      <4> QED BY <4>2 DEF Taken
    <3> QED BY <1>6, <1>7, <1>8, <3>1
  <2> QED BY <1>6, <1>8, <1>9, <2>1, TakenSound
<1>25. ASSUME NEW p \in Spots PROVE Exchanged(Patches(s, step, p), Patches(s, w.step, p), d[p])
  <2>1. CASE p = Pos
    <3>1. \A k \in step.pos : "val" \in DOMAIN k
      BY DEF Step, PosNodes
    <3>2. Exchanged(ValsOf(step.pos), ValsOf(P), lv.pos)
      BY <1>7, <3>1, TakenExchanges
    <3>3. Patches(s, w.step, p) = ValsOf(P)
      BY <1>8, <2>1 DEF Patches
    <3> QED BY <1>13, <1>17, <2>1, <3>2, <3>3
  <2>2. CASE p = Dense
    <3>1. \A k \in known : "val" \in DOMAIN k /\ k \in MaskNodes
      BY <1>6 DEF Step, MaskNodes
    <3>2. Exchanged(ValsOf(known), ValsOf(Taken(lv.mask[L], known)), lv.mask[L])
      BY <3>1, TakenExchanges
    <3>3. {k \in K : Resolve(s, k.id) # 0} = Taken(lv.mask[L], known)
      <4>1. ASSUME NEW k \in known PROVE [k EXCEPT !.val = [v \in DOMAIN @ |-> lv.mask[L][v]]].id = k.id
        BY <3>1 DEF MaskNodes
      <4>2. \A k \in Taken(lv.mask[L], known) : \E j \in known : k.id = j.id
        BY <4>1 DEF Taken
      <4>3. \A k \in known : Resolve(s, k.id) # 0
        BY <1>6, <1>12
      <4>4. \A k \in step.mask \ known : Resolve(s, k.id) = 0
        BY <1>6, <1>12
      <4> QED BY <1>7, <4>2, <4>3, <4>4
    <3>4. Patches(s, w.step, p) = ValsOf(Taken(lv.mask[L], known))
      BY <1>8, <2>2, <3>3, SpotsAre DEF Patches
    <3> QED BY <1>13, <1>17, <2>2, <3>2, <3>4
  <2>3. CASE p \in InStore
    <3>1. /\ Patches(s, step, p) = ValsOf(Here(s, step.blocks, p))
               \cup UNION {FinerPatches(f) : f \in Here(s, step.finer, p)}
          /\ Patches(s, w.step, p) = ValsOf(Here(s, B, p)) \cup UNION {FinerPatches(f) : f \in Here(s, F, p)}
      BY <1>8, <2>3, SpotsAre DEF Patches
    <3>2. CASE FindChannel(s, p[1]) = 0
      <4>1. Patches(s, step, p) = {} /\ Patches(s, w.step, p) = {}
        BY <2>3, <3>2, NoPatches
      <4> QED BY <4>1 DEF Exchanged
    <3>3. ASSUME NEW c \in DOMAIN nm, p = <<nm[c], p[2]>>, p[2] \in Levels
          PROVE  Exchanged(Patches(s, step, p), Patches(s, w.step, p), d[p])
      <4>1. step.blocks \in SUBSET Blocks
        BY DEF Step
      <4>2. Exchanged(ValsOf(Here(s, step.blocks, p)), ValsOf(Here(s, B, p)), s[c].levels[p[2]].val)
        BY <1>6, <1>9, <3>3, <4>1, BlocksExchanged
      <4>3. Exchanged(UNION {FinerPatches(f) : f \in Here(s, step.finer, p)},
                      UNION {FinerPatches(f) : f \in Here(s, F, p)}, s[c].levels[p[2]].val)
        BY <1>6, <1>9, <3>3, FinersExchanged
      <4>4. d[p] = s[c].levels[p[2]].val
        BY <1>21, <2>3, <3>3
      <4> QED BY <3>1, <4>2, <4>3, <4>4 DEF Exchanged
    <3> QED BY <1>20, <2>3, <3>2, <3>3
  <2> QED BY <2>1, <2>2, <2>3, SpotsAre
<1>26. Leads(t, w.step, d, e)
  <2>1. ASSUME NEW p \in Spots PROVE Patched(Patches(t, w.step, p), d[p], e[p])
    <3>1. e[p] \in ReadingAt(p) /\ d[p] \in ReadingAt(p)
      BY <1>13 DEF Reading
    <3>2. DOMAIN e[p] = DOMAIN d[p]
      BY <3>1 DEF ReadingAt, MaskAt
    <3>3. Patched(Patches(s, step, p), e[p], d[p])
      BY <1>12
    <3>4. Patched(Patches(s, w.step, p), d[p], e[p])
      BY <1>25, <3>2, <3>3, ExchangeLeads
    <3> QED BY <1>12, <3>4
  <2> QED BY <2>1 DEF Leads
<1>27. \A l \in Levels : /\ l < L => mask[l] = lv.mask[l]
                         /\ l > L => mask[l] = None
  <2>1. L \in Nat /\ \A l \in Levels : l \in Nat
    BY LogAssumption DEF Levels
  <2>2. \A l \in Levels : mask[l] = IF l > L THEN None ELSE [lv.mask EXCEPT ![L] = dense][l]
    BY <1>7 DEF Dropped
  <2> QED BY <1>4, <2>1, <2>2
<1>28. \A c \in DOMAIN nm : \A l \in Levels :
         <<nm[c], l>> \notin InStore => t[c].levels[l].val = s0[c].levels[l].val
  <2> SUFFICES ASSUME NEW c \in DOMAIN nm, NEW l \in Levels, <<nm[c], l>> \notin InStore
               PROVE  t[c].levels[l].val = s0[c].levels[l].val
    OBVIOUS
  <2>1. t[c].levels[l] = s[c].levels[l]
    BY <1>10
  <2>2. s[c].levels[l].val = s0[c].levels[l].val
    BY <1>9
  <2> QED BY <2>1, <2>2
<1>29. /\ Sound(w.live.store) /\ Alike(lv.store, w.live.store)
       /\ Leads(w.live.store, w.step, Reads(lv), e)
  BY <1>6, <1>7, <1>8, <1>10, <1>11, <1>26
<1>30. \A l \in Levels : /\ l < L => w.live.mask[l] = lv.mask[l]
                         /\ l > L => w.live.mask[l] = None
  BY <1>8, <1>27
<1>31. \A c \in DOMAIN nm : \A l \in Levels :
         <<nm[c], l>> \notin InStore => w.live.store[c].levels[l].val = lv.store[c].levels[l].val
  BY <1>7, <1>8, <1>28
<1> QED BY <1>2, <1>23, <1>24, <1>29, <1>30, <1>31 DEF Swapped

LEMMA SameReads ==
  ASSUME NEW nm, Named(nm), NEW n \in Nat, NEW lv \in Lives(nm, n), NEW lw \in Lives(nm, n),
         lw.pos = lv.pos, lw.mask[L] = lv.mask[L],
         \A c \in DOMAIN nm : \A l \in Levels :
           <<nm[c], l>> \in InStore => lw.store[c].levels[l].val = lv.store[c].levels[l].val
  PROVE  Reads(lw) = Reads(lv)
<1>1. /\ Reading(Reads(lv)) /\ Reads(lv)[Pos] = lv.pos /\ Reads(lv)[Dense] = lv.mask[L]
      /\ \A p \in InStore : Reads(lv)[p] = Raw(lv.store, p[1], p[2])
      /\ Reading(Reads(lw)) /\ Reads(lw)[Pos] = lw.pos /\ Reads(lw)[Dense] = lw.mask[L]
      /\ \A p \in InStore : Reads(lw)[p] = Raw(lw.store, p[1], p[2])
  BY ReadsAre
<1>2. lv.store \in Store(nm, n) /\ lw.store \in Store(nm, n)
  BY DEF Lives
<1>3. ASSUME NEW p \in InStore PROVE Raw(lw.store, p[1], p[2]) = Raw(lv.store, p[1], p[2])
  <2>1. p = <<p[1], p[2]>> /\ p[1] \in Names /\ p[2] \in Levels
    BY SpotsAre
  <2>2. CASE FindChannel(lv.store, p[1]) = 0
    <3>1. FindChannel(lw.store, p[1]) = 0
      BY <1>2, <2>2, FindIs
    <3> QED BY <2>2, <3>1 DEF Raw
  <2>3. CASE FindChannel(lv.store, p[1]) # 0
    <3>1. PICK c \in DOMAIN nm : nm[c] = p[1]
      BY <1>2, <2>3, FindIs
    <3>2. /\ Raw(lv.store, nm[c], p[2]) = lv.store[c].levels[p[2]].val
          /\ Raw(lw.store, nm[c], p[2]) = lw.store[c].levels[p[2]].val
      BY <1>2, <2>1, <3>1, RawIs
    <3> QED BY <2>1, <3>1, <3>2
  <2> QED BY <2>2, <2>3
<1>4. \A p \in Spots : Reads(lw)[p] = Reads(lv)[p]
  BY <1>1, <1>3, SpotsAre
<1> QED BY <1>1, <1>4, ReadingsEqual

\* What a level owes once the debts are set.
DebtSet(s, attrs, c, l) ==
  IF Kept(s, attrs, c, l) = {} THEN s[c].levels[l].owes
  ELSE (CHOOSE d \in Kept(s, attrs, c, l) : TRUE).owes

LEMMA DebtsHave ==
  ASSUME NEW nm, Named(nm), NEW n \in Nat, NEW lv \in Lives(nm, n), NEW owes \in BOOLEAN,
         NEW attrs \in SUBSET AllDebts, NEW r, r = ApplyDebts(lv, owes, attrs)
  PROVE  /\ r \in Lives(nm, n) /\ r.pos = lv.pos /\ r.mask = lv.mask /\ r.owes = owes
         /\ Frame(lv.store, r.store) /\ Alike(lv.store, r.store)
         /\ \A c \in DOMAIN nm : \A l \in Levels :
              /\ r.store[c].levels[l].val = lv.store[c].levels[l].val
              /\ r.store[c].levels[l].held = lv.store[c].levels[l].held
              /\ r.store[c].levels[l].tok = lv.store[c].levels[l].tok
              /\ r.store[c].levels[l].owes = DebtSet(lv.store, attrs, c, l)
<1> DEFINE s == lv.store
           ow(c, l) == (CHOOSE d \in Kept(s, attrs, c, l) : TRUE).owes
           lev(c, l) == IF Kept(s, attrs, c, l) = {} THEN s[c].levels[l]
                        ELSE [s[c].levels[l] EXCEPT !.owes = ow(c, l)]
           g == [c \in DOMAIN nm |-> [l \in 1 .. Depth |-> lev(c, l)]]
           t == EachLevel(s, lev)
<1>1. r = [lv EXCEPT !.owes = owes, !.store = t]
  BY Zenon DEF ApplyDebts
<1>2. s \in Store(nm, n)
  BY DEF Lives
<1>3. DOMAIN s = DOMAIN nm /\ \A c \in DOMAIN nm : DOMAIN s[c].levels = 1 .. Depth
  BY <1>2, StoreForm
<1>4. t = Leveled(s, g)
  BY <1>3 DEF EachLevel, Leveled
<1>5. ASSUME NEW c \in DOMAIN nm, NEW l \in Levels
      PROVE  /\ g[c][l].val = s[c].levels[l].val /\ g[c][l].held = s[c].levels[l].held
             /\ g[c][l].tok = s[c].levels[l].tok
             /\ g[c][l].owes = DebtSet(s, attrs, c, l)
  <2>1. s[c].levels[l] \in LevelAt(l, n)
    BY <1>2, StoreLevel
  <2>2. g[c][l] = lev(c, l)
    BY DEF Levels
  <2> DEFINE x == s[c].levels[l]
             y == g[c][l]
             k == Kept(s, attrs, c, l)
             o == ow(c, l)
  <2>3. y = IF k = {} THEN x ELSE [x EXCEPT !.owes = o]
    BY <2>2
  <2>6. (IF k = {} THEN x.owes ELSE o) = DebtSet(s, attrs, c, l)
    BY DEF DebtSet
  <2> HIDE DEF x, y, k, o, g, lev, ow
  <2>4. x \in LevelAt(l, n)
    BY <2>1 DEF x
  <2>5. y.val = x.val /\ y.held = x.held /\ y.tok = x.tok /\ y.owes = IF k = {} THEN x.owes ELSE o
    BY <2>3, <2>4 DEF LevelAt
  <2> QED BY <2>5, <2>6 DEF x, y
<1>6. s = lv.store
  OBVIOUS
<1> HIDE DEF g, t, s, ow
<1>8. /\ Frame(s, t) /\ \A c \in DOMAIN nm : \A l \in Levels : t[c].levels[l] = g[c][l]
      /\ (\A c \in DOMAIN nm : \A l \in Levels : g[c][l].tok = s[c].levels[l].tok) => Alike(s, t)
  BY <1>2, <1>4, LeveledHas
<1>9. lv = [store |-> lv.store, pos |-> lv.pos, owes |-> lv.owes, mask |-> lv.mask]
  BY DEF Lives
<1>10. r.store = t /\ r.pos = lv.pos /\ r.mask = lv.mask /\ r.owes = owes
  BY <1>1, <1>9
<1>11. r \in Lives(nm, n)
  BY ApplyDebtsIs
<1>12. /\ Frame(s, t) /\ Alike(s, t)
       /\ \A c \in DOMAIN nm : \A l \in Levels :
            /\ t[c].levels[l].val = s[c].levels[l].val
            /\ t[c].levels[l].held = s[c].levels[l].held
            /\ t[c].levels[l].tok = s[c].levels[l].tok
            /\ t[c].levels[l].owes = DebtSet(s, attrs, c, l)
  BY <1>5, <1>8
<1> QED BY <1>6, <1>10, <1>11, <1>12

LEMMA ReplayReads ==
  ASSUME NEW nm, Named(nm), NEW n \in Nat, NEW lv \in Lives(nm, n), NEW step \in Step(n), SoundStep(step, n),
         Sound(lv.store), NEW e, Reading(e), Leads(lv.store, step, e, Reads(lv)),
         NEW u, u \in {Undone(lv, step), Redone(lv, step)}
  PROVE  Swapped(nm, n, lv, e, u.live, u.step)
<1> DEFINE w == ApplySwap(lv, step)
<1>1. PICK owes \in BOOLEAN, attrs \in SUBSET AllDebts :
        u.live = ApplyDebts(w.live, owes, attrs) /\ u.step = w.step
  <2>1. /\ step.pre \in BOOLEAN /\ step.post \in BOOLEAN
        /\ step.preAttr \in SUBSET AllDebts /\ step.postAttr \in SUBSET AllDebts
    BY DEF Step
  <2>2. CASE u = Undone(lv, step)
    <3>1. u.live = ApplyDebts(w.live, step.pre, step.preAttr) /\ u.step = w.step
      BY <2>2 DEF Undone
    <3> QED BY <2>1, <3>1
  <2>3. CASE u = Redone(lv, step)
    <3>1. u.live = ApplyDebts(w.live, step.post, step.postAttr) /\ u.step = w.step
      BY <2>3 DEF Redone
    <3> QED BY <2>1, <3>1
  <2> QED BY <2>2, <2>3
<1>2. w = ApplySwap(lv, step)
  OBVIOUS
<1> DEFINE lw == w.live
           r == u.live
<1> HIDE DEF w
<1>3. Swapped(nm, n, lv, e, lw, w.step)
  BY <1>2, SwapReads
<1>4. /\ lw \in Lives(nm, n) /\ w.step \in Step(n) /\ SoundStep(w.step, n)
      /\ Sound(lw.store) /\ Alike(lv.store, lw.store)
      /\ Reads(lw) = e /\ Leads(lw.store, w.step, Reads(lv), e)
      /\ \A l \in Levels : /\ l < L => lw.mask[l] = lv.mask[l]
                           /\ l > L => lw.mask[l] = None
      /\ \A c \in DOMAIN nm : \A l \in Levels :
           <<nm[c], l>> \notin InStore => lw.store[c].levels[l].val = lv.store[c].levels[l].val
  BY <1>3 DEF Swapped
<1>41. lw \in Lives(nm, n)
  BY <1>4
<1> HIDE DEF lw
<1>5. r = ApplyDebts(lw, owes, attrs)
  BY <1>1 DEF lw
<1> HIDE DEF r
<1>6. /\ r \in Lives(nm, n) /\ r.pos = lw.pos /\ r.mask = lw.mask /\ r.owes = owes
      /\ Frame(lw.store, r.store) /\ Alike(lw.store, r.store)
      /\ \A c \in DOMAIN nm : \A l \in Levels :
           /\ r.store[c].levels[l].val = lw.store[c].levels[l].val
           /\ r.store[c].levels[l].held = lw.store[c].levels[l].held
           /\ r.store[c].levels[l].tok = lw.store[c].levels[l].tok
           /\ r.store[c].levels[l].owes = DebtSet(lw.store, attrs, c, l)
  BY <1>41, <1>5, DebtsHave
<1>7. Reads(r) = e
  <2>0. /\ r \in Lives(nm, n) /\ r.pos = lw.pos /\ r.mask[L] = lw.mask[L]
        /\ \A c \in DOMAIN nm : \A l \in Levels :
             <<nm[c], l>> \in InStore => r.store[c].levels[l].val = lw.store[c].levels[l].val
    BY <1>6
  <2>1. Reads(r) = Reads(lw)
    BY <1>41, <2>0, SameReads
  <2> QED BY <1>4, <2>1
<1>8. lw.store \in Store(nm, n) /\ r.store \in Store(nm, n)
  BY <1>4, <1>6 DEF Lives
<1>9. Sound(r.store)
  <2>1. Sound(lw.store)
    BY <1>4
  <2>2. \A c \in DOMAIN nm : \A l \in Levels :
          /\ r.store[c].levels[l].tok = lw.store[c].levels[l].tok
          /\ lw.store[c].levels[l].val = Blank(l) \/ lw.store[c].levels[l].held # "none"
               => (r.store[c].levels[l].held = "none" => r.store[c].levels[l].val = Blank(l))
          /\ l = L /\ lw.store[c].levels[l].held # "none" => r.store[c].levels[l].held # "none"
    BY <1>6
  <2> QED BY <1>8, <2>1, <2>2, SoundBy
<1>10. Leads(r.store, w.step, Reads(lv), e)
  <2>1. \A st, a, b : Leads(r.store, st, a, b) <=> Leads(lw.store, st, a, b)
    BY <1>6, <1>8, AlikeIn
  <2> QED BY <1>4, <2>1
<1>11. Alike(lv.store, r.store)
  BY <1>4, <1>6, AlikeTrans
<1>12. Swapped(nm, n, lv, e, r, w.step)
  BY <1>4, <1>6, <1>7, <1>9, <1>10, <1>11 DEF Swapped
<1> QED BY <1>1, <1>12 DEF r

-----------------------------------------------------------------------------
(* The invariant: the steps lead along a chain of calm readings, of which  *)
(* the current one shows.                                                  *)

\* Dense masks and seams agree.
Calm(d) ==
  /\ \A v \in Verts : d[Dense][v] = d[<<"mask", L>>][<<Canon[v], v>>]
  /\ \A p \in InStore : \A x, y \in Sites : x[2] = y[2] => d[p][x] = d[p][y]

Chain(ds, lv, sts, top, closed) ==
  /\ top \in 0 .. Len(sts) /\ DOMAIN ds = 1 .. Len(sts) + 1
  /\ \A k \in 1 .. Len(sts) + 1 : Reading(ds[k]) /\ (closed \/ k # Len(sts) + 1 => Calm(ds[k]))
  /\ ds[top + 1] = Reads(lv)
  /\ \A k \in 1 .. Len(sts) : /\ k <= top => Leads(lv.store, sts[k], ds[k], ds[k + 1])
                              /\ k > top => Leads(lv.store, sts[k], ds[k + 1], ds[k])

Seamless(s) ==
  \A c \in DOMAIN s : \A l \in Levels : \A x, y \in Sites :
    x[2] = y[2] => s[c].levels[l].val[x] = s[c].levels[l].val[y]

Coherent(lv) ==
  /\ Sound(lv.store) /\ Seamless(lv.store)
  /\ \A l \in Levels : l = L \/ lv.mask[l] = None \/ lv.mask[l] = MaskOf(lv.store, l)

\* What the open step has captured.
Capturing(base, lv, step, k) ==
  /\ step.blocks = {} /\ step.finer = {}
  /\ \A j \in step.pos : DOMAIN j.val = Owned(j.leaf)
  /\ \A j \in step.mask : DOMAIN j.val = Owned(j.leaf) /\ Resolve(lv.store, j.id) # 0
  /\ \A v \in Verts : lv.mask[L][v] = base[Dense][v] \/ (v \in k.touched /\ "mask" \in k.wrote)

Top == IF open THEN Len(steps) ELSE cursor

Valued(ds) ==
  /\ Chain(ds, live, steps, Top, ~open) /\ Coherent(live)
  /\ \A k \in 1 .. Len(steps) : SoundStep(steps[k], used.toks)
  /\ open => Capturing(ds[Len(steps)], live, steps[Len(steps)], stroke)

MaskFrom(val) == [v \in Verts |-> val[<<Canon[v], v>>]]

\* Masks are read from what the store holds.
LEMMA MaskRaw ==
  ASSUME NEW nm, Named(nm), NEW n \in Nat, NEW s \in Store(nm, n), Sound(s), NEW l \in Levels
  PROVE  MaskOf(s, l) = MaskFrom(Raw(s, "mask", l))
<1>1. ValueAt(s, "mask", l) = Raw(s, "mask", l)
  <2>1. Seed("mask", l) = Blank(l)
    BY LogAssumption DEF Seed
  <2>2. CASE FindChannel(s, "mask") = 0
    BY <2>2 DEF ValueAt, Raw
  <2>3. CASE FindChannel(s, "mask") # 0
    <3> DEFINE c == FindChannel(s, "mask")
    <3>1. c \in DOMAIN nm /\ c \in DOMAIN s
      BY <2>3, FindIs, StoreForm
    <3>2. s[c].levels[l].held = "none" => s[c].levels[l].val = Blank(l)
      BY <3>1 DEF Sound
    <3>3. ValueAt(s, "mask", l) = IF s[c].levels[l].held = "none" THEN Blank(l) ELSE s[c].levels[l].val
      BY <2>1, <2>3 DEF ValueAt, Allocated
    <3> QED BY <2>3, <3>2, <3>3 DEF Raw
  <2> QED BY <2>2, <2>3
<1> QED BY <1>1 DEF MaskOf, MaskFrom

LEMMA MaskSame ==
  ASSUME NEW nm, Named(nm), NEW n \in Nat, NEW s \in Store(nm, n), Sound(s),
         NEW t \in Store(nm, n), Sound(t), NEW l \in Levels,
         \A c \in DOMAIN nm : nm[c] = "mask" => t[c].levels[l].val = s[c].levels[l].val
  PROVE  MaskOf(t, l) = MaskOf(s, l)
<1>1. Raw(t, "mask", l) = Raw(s, "mask", l)
  <2>1. "mask" \in Names
    BY DEF Names
  <2>2. CASE FindChannel(s, "mask") = 0
    <3>1. FindChannel(t, "mask") = 0
      BY <2>2, FindIs
    <3> QED BY <2>2, <3>1 DEF Raw
  <2>3. CASE FindChannel(s, "mask") # 0
    <3>1. PICK c \in DOMAIN nm : nm[c] = "mask"
      BY <2>3, FindIs
    <3>2. Raw(s, nm[c], l) = s[c].levels[l].val /\ Raw(t, nm[c], l) = t[c].levels[l].val
      BY <2>1, <3>1, RawIs
    <3> QED BY <3>1, <3>2
  <2> QED BY <2>2, <2>3
<1> QED BY <1>1, MaskRaw

\* The mask of the session's level, once no stroke is open.
LEMMA CalmMask ==
  ASSUME NEW nm, Named(nm), NEW n \in Nat, NEW lv \in Lives(nm, n), Sound(lv.store), Calm(Reads(lv))
  PROVE  lv.mask[L] = MaskOf(lv.store, L)
<1>1. /\ Reads(lv)[Dense] = lv.mask[L]
      /\ \A p \in InStore : Reads(lv)[p] = Raw(lv.store, p[1], p[2])
  BY ReadsAre
<1>2. <<"mask", L>> \in InStore /\ L \in Levels
  BY SpotsAre, LogAssumption DEF Names, Levels
<1>3. Reads(lv)[<<"mask", L>>] = Raw(lv.store, "mask", L)
  BY <1>1, <1>2
<1>4. lv.store \in Store(nm, n) /\ lv.mask[L] \in MaskAt(L)
  BY MasksAre DEF Lives
<1>5. MaskOf(lv.store, L) = MaskFrom(Raw(lv.store, "mask", L))
  BY <1>2, <1>4, MaskRaw
<1>6. \A v \in Verts : lv.mask[L][v] = Raw(lv.store, "mask", L)[<<Canon[v], v>>]
  BY <1>1, <1>3 DEF Calm
<1>7. lv.mask[L] = [v \in Verts |-> lv.mask[L][v]]
  BY <1>4 DEF MaskAt
<1> QED BY <1>5, <1>6, <1>7 DEF MaskFrom

LEMMA SpotsCalm ==
  ASSUME NEW nm, Named(nm), NEW n \in Nat, NEW lv \in Lives(nm, n), Seamless(lv.store)
  PROVE  \A p \in InStore : \A x, y \in Sites : x[2] = y[2] => Reads(lv)[p][x] = Reads(lv)[p][y]
<1> TAKE p \in InStore
<1>1. lv.store \in Store(nm, n) /\ p[1] \in Names /\ p[2] \in Levels /\ Reads(lv)[p] = Raw(lv.store, p[1], p[2])
  BY ReadsAre, SpotsAre DEF Lives
<1>2. CASE FindChannel(lv.store, p[1]) = 0
  <2>1. Reads(lv)[p] = Seed(p[1], p[2])
    BY <1>1, <1>2 DEF Raw
  <2>2. \A x, y \in Sites : Seed(p[1], p[2])[x] = Seed(p[1], p[2])[y]
    BY DEF Seed, Blank
  <2> QED BY <2>1, <2>2
<1>3. CASE FindChannel(lv.store, p[1]) # 0
  <2>1. PICK c \in DOMAIN nm : nm[c] = p[1]
    BY <1>1, <1>3, FindIs
  <2>2. Raw(lv.store, nm[c], p[2]) = lv.store[c].levels[p[2]].val
    BY <1>1, RawIs
  <2>3. c \in DOMAIN lv.store
    BY <1>1, StoreForm
  <2> QED BY <1>1, <2>1, <2>2, <2>3 DEF Seamless
<1> QED BY <1>2, <1>3

\* A state that shows calm and coherent, whatever was known of it.
LEMMA CoherentCalm ==
  ASSUME NEW nm, Named(nm), NEW n \in Nat, NEW lv \in Lives(nm, n), Sound(lv.store), Seamless(lv.store),
         lv.mask[L] = MaskOf(lv.store, L)
  PROVE  Calm(Reads(lv))
<1>1. /\ Reads(lv)[Dense] = lv.mask[L]
      /\ \A p \in InStore : Reads(lv)[p] = Raw(lv.store, p[1], p[2])
  BY ReadsAre
<1>2. <<"mask", L>> \in InStore /\ L \in Levels
  BY SpotsAre, LogAssumption DEF Names, Levels
<1>3. Reads(lv)[<<"mask", L>>] = Raw(lv.store, "mask", L)
  BY <1>1, <1>2
<1>4. lv.store \in Store(nm, n)
  BY DEF Lives
<1>5. MaskOf(lv.store, L) = MaskFrom(Raw(lv.store, "mask", L))
  BY <1>2, <1>4, MaskRaw
<1>6. \A v \in Verts : Reads(lv)[Dense][v] = Reads(lv)[<<"mask", L>>][<<Canon[v], v>>]
  BY <1>1, <1>3, <1>5 DEF MaskFrom
<1> QED BY <1>6, SpotsCalm DEF Calm

LEMMA ValuedCoherent ==
  ASSUME Inv, NEW ds, Valued(ds)
  PROVE  StoreCoherent
<1>1. PICK nm : /\ Named(nm) /\ live \in Lives(nm, used.toks) /\ live.store \in Store(nm, used.toks)
                /\ used.toks \in Nat
  BY StoredAs
<1>2. TypeOK
  BY InvTypes
<1>3. /\ Sound(live.store) /\ Seamless(live.store)
      /\ \A l \in Levels : l = L \/ live.mask[l] = None \/ live.mask[l] = MaskOf(live.store, l)
  BY DEF Valued, Coherent
<1>4. ASSUME ~open PROVE live.mask[L] = MaskOf(live.store, L)
  <2>1. Chain(ds, live, steps, cursor, TRUE)
    BY <1>4 DEF Valued, Top
  <2>2. cursor \in 0 .. Len(steps) /\ Len(steps) \in Nat
    BY DEF Inv, Logged
  <2>3. cursor + 1 \in 1 .. Len(steps) + 1
    BY <2>2
  <2>4. Calm(ds[cursor + 1]) /\ ds[cursor + 1] = Reads(live)
    BY <2>1, <2>3 DEF Chain
  <2> QED BY <1>1, <1>3, <2>4, CalmMask
<1> QED BY <1>2, <1>3, <1>4 DEF StoreCoherent, Seamless

\* A history that starts over.
Alone(lv) == [k \in 1 .. 1 |-> Reads(lv)]

LEMMA StartsOver ==
  ASSUME NEW nm, Named(nm), NEW n \in Nat, NEW lv \in Lives(nm, n), Coherent(lv),
         lv.mask[L] = MaskOf(lv.store, L)
  PROVE  Chain(Alone(lv), lv, <<>>, 0, TRUE)
<1>1. Calm(Reads(lv)) /\ Reading(Reads(lv))
  BY CoherentCalm, ReadsAre DEF Coherent
<1> QED BY <1>1 DEF Chain, Alone

LEMMA RereadStart ==
  ASSUME NEW nm, Named(nm), NEW n \in Nat, NEW lv \in Lives(nm, n), NEW ds, NEW sts, NEW top,
         Chain(ds, lv, sts, top, TRUE), Coherent(lv), Len(sts) \in Nat
  PROVE  Chain(Alone(lv), lv, <<>>, 0, TRUE)
<1>1. top + 1 \in 1 .. Len(sts) + 1
  BY DEF Chain
<1>2. Calm(Reads(lv)) /\ Reading(Reads(lv))
  BY <1>1, ReadsAre DEF Chain
<1> QED BY <1>2 DEF Chain, Alone

\* With no stroke open.
LEMMA ClosedValues ==
  ASSUME NEW ds, open' = FALSE, Chain(ds, live', steps', cursor', TRUE), Coherent(live'),
         \A k \in 1 .. Len(steps') : SoundStep(steps'[k], used'.toks)
  PROVE  Valued(ds)'
<1>1. (~open') = TRUE /\ Top' = cursor'
  BY DEF Top
<1> QED BY <1>1 DEF Valued

LEMMA ClosedHas ==
  ASSUME Inv, NEW ds, Valued(ds), ~open
  PROVE  /\ Chain(ds, live, steps, cursor, TRUE) /\ Coherent(live)
         /\ \A k \in 1 .. Len(steps) : SoundStep(steps[k], used.toks)
<1>1. (~open) = TRUE /\ Top = cursor
  BY DEF Top
<1> QED BY <1>1 DEF Valued

LEMMA SyncValues ==
  ASSUME Inv, NEW ds, Valued(ds), Sync, NEW es, es = Alone(live)
  PROVE  Valued(es)'
<1>1. PICK nm : Named(nm) /\ live \in Lives(nm, used.toks) /\ used.toks \in Nat
  BY StoredAs
<1>2. /\ ~open /\ steps' = <<>> /\ cursor' = 0 /\ live' = live /\ open' = open
      /\ cursor \in 0 .. Len(steps) /\ Len(steps) \in Nat
  BY DEF Sync, Inv, Logged
<1>3. Chain(ds, live, steps, cursor, TRUE) /\ Coherent(live)
  BY <1>2, ClosedHas
<1>4. Chain(es, live, <<>>, 0, TRUE)
  BY <1>1, <1>2, <1>3, RereadStart
<1>5. \A k \in 1 .. Len(steps') : SoundStep(steps'[k], used'.toks)
  BY <1>2
<1>6. open' = FALSE
  BY <1>2 DEF Inv, Logged
<1>7. Chain(es, live', steps', cursor', TRUE) /\ Coherent(live')
  BY <1>2, <1>3, <1>4
<1> QED BY <1>5, <1>6, <1>7, ClosedValues

\* Steps and readings from the one after k on.
LEMMA DropOldestValues ==
  ASSUME Inv, NEW ds, Valued(ds), DropOldest, NEW es, es = [k \in 1 .. Len(steps) |-> ds[k + 1]]
  PROVE  Valued(es)'
<1>1. /\ ~open /\ cursor >= 1 /\ steps' = Tail(steps) /\ cursor' = cursor - 1 /\ live' = live
      /\ open' = open /\ used' = used
      /\ steps \in Seq(Step(used.toks)) /\ cursor \in 0 .. Len(steps) /\ Len(steps) \in Nat
  BY DEF DropOldest, Inv, Logged
<1>2. Chain(ds, live, steps, cursor, TRUE) /\ Coherent(live)
      /\ \A k \in 1 .. Len(steps) : SoundStep(steps[k], used.toks)
  BY <1>1, ClosedHas
<1>3. Len(Tail(steps)) = Len(steps) - 1 /\ \A k \in 1 .. Len(steps) - 1 : Tail(steps)[k] = steps[k + 1]
  BY <1>1
<1>4. Chain(es, live, Tail(steps), cursor - 1, TRUE)
  <2>1. \A k \in 1 .. Len(steps) : es[k] = ds[k + 1] /\ k + 1 \in 1 .. Len(steps) + 1
    BY <1>1
  <2>2. cursor - 1 \in 0 .. Len(steps) - 1 /\ cursor \in 1 .. Len(steps)
    BY <1>1
  <2>3. DOMAIN es = 1 .. Len(steps)
    OBVIOUS
  <2>4. \A k \in 1 .. Len(steps) : Reading(es[k]) /\ Calm(es[k])
    BY <1>2, <2>1 DEF Chain
  <2>5. es[cursor - 1 + 1] = Reads(live)
    BY <1>1, <1>2, <2>1, <2>2 DEF Chain
  <2>6. ASSUME NEW k \in 1 .. Len(steps) - 1
        PROVE  /\ k <= cursor - 1 => Leads(live.store, Tail(steps)[k], es[k], es[k + 1])
               /\ k > cursor - 1 => Leads(live.store, Tail(steps)[k], es[k + 1], es[k])
    <3> DEFINE j == k + 1
    <3>1. j \in 1 .. Len(steps) /\ k \in 1 .. Len(steps) /\ Tail(steps)[k] = steps[j]
      BY <1>1, <1>3
    <3>2. es[k] = ds[j] /\ es[k + 1] = ds[j + 1]
      BY <2>1, <3>1
    <3>3. /\ j <= cursor => Leads(live.store, steps[j], ds[j], ds[j + 1])
          /\ j > cursor => Leads(live.store, steps[j], ds[j + 1], ds[j])
      BY <1>2, <3>1 DEF Chain
    <3>4. (k <= cursor - 1 <=> j <= cursor) /\ (k > cursor - 1 <=> j > cursor)
      BY <1>1
    <3> QED BY <3>1, <3>2, <3>3, <3>4
  <2>7. 1 .. Len(Tail(steps)) + 1 = 1 .. Len(steps)
    BY <1>1, <1>3
  <2> QED BY <1>3, <2>2, <2>3, <2>4, <2>5, <2>6, <2>7 DEF Chain
<1>5. \A k \in 1 .. Len(Tail(steps)) : SoundStep(Tail(steps)[k], used.toks)
  <2> TAKE k \in 1 .. Len(Tail(steps))
  <2>1. k + 1 \in 1 .. Len(steps) /\ Tail(steps)[k] = steps[k + 1]
    BY <1>1, <1>3
  <2> QED BY <1>2, <2>1
<1>6. open' = FALSE
  BY <1>1 DEF Inv, Logged
<1>7. /\ Chain(es, live', steps', cursor', TRUE) /\ Coherent(live')
      /\ \A k \in 1 .. Len(steps') : SoundStep(steps'[k], used'.toks)
  BY <1>1, <1>2, <1>4, <1>5
<1> QED BY <1>6, <1>7, ClosedValues

LEMMA SwappedCoherent ==
  ASSUME NEW nm, Named(nm), NEW n \in Nat, NEW lv \in Lives(nm, n), Coherent(lv), NEW e, Calm(e),
         NEW lw, NEW st, Swapped(nm, n, lv, e, lw, st)
  PROVE  Coherent(lw)
<1>1. /\ lw \in Lives(nm, n) /\ Sound(lw.store) /\ Reads(lw) = e
      /\ \A l \in Levels : /\ l < L => lw.mask[l] = lv.mask[l]
                           /\ l > L => lw.mask[l] = None
      /\ \A c \in DOMAIN nm : \A l \in Levels :
           <<nm[c], l>> \notin InStore => lw.store[c].levels[l].val = lv.store[c].levels[l].val
  BY DEF Swapped
<1>2. /\ Sound(lv.store) /\ Seamless(lv.store)
      /\ \A l \in Levels : l = L \/ lv.mask[l] = None \/ lv.mask[l] = MaskOf(lv.store, l)
  BY DEF Coherent
<1>3. lv.store \in Store(nm, n) /\ lw.store \in Store(nm, n)
  BY <1>1 DEF Lives
<1>4. DOMAIN lv.store = DOMAIN nm /\ DOMAIN lw.store = DOMAIN nm
  BY <1>3, StoreForm
<1>5. ASSUME NEW c \in DOMAIN nm, NEW l \in Levels, NEW x \in Sites, NEW y \in Sites, x[2] = y[2]
      PROVE  lw.store[c].levels[l].val[x] = lw.store[c].levels[l].val[y]
  <2>1. CASE <<nm[c], l>> \in InStore
    <3> DEFINE p == <<nm[c], l>>
    <3>1. p[1] = nm[c] /\ p[2] = l /\ nm[c] \in Names
      BY DEF Named
    <3>2. Reads(lw)[p] = Raw(lw.store, nm[c], l)
      BY <1>1, <2>1, <3>1, ReadsAre
    <3>3. Raw(lw.store, nm[c], l) = lw.store[c].levels[l].val
      BY <1>3, <3>1, RawIs
    <3>4. e[p][x] = e[p][y]
      BY <1>5, <2>1 DEF Calm
    <3> QED BY <1>1, <3>2, <3>3, <3>4
  <2>2. CASE <<nm[c], l>> \notin InStore
    <3>1. lw.store[c].levels[l].val = lv.store[c].levels[l].val
      BY <1>1, <2>2
    <3>2. c \in DOMAIN lv.store
      BY <1>4
    <3>3. lv.store[c].levels[l].val[x] = lv.store[c].levels[l].val[y]
      BY <1>2, <1>5, <3>2 DEF Seamless
    <3> QED BY <3>1, <3>3
  <2> QED BY <2>1, <2>2
<1>6. ASSUME NEW l \in Levels, l # L, lw.mask[l] # None PROVE lw.mask[l] = MaskOf(lw.store, l)
  <2>1. L \in Nat /\ l \in Nat
    BY LogAssumption DEF Levels
  <2>2. l < L /\ lw.mask[l] = lv.mask[l]
    BY <1>1, <1>6, <2>1
  <2>3. <<"mask", l>> \notin InStore
    <3>1. <<"mask", l>>[2] = l /\ ~(l >= L)
      BY <2>1, <2>2
    <3> QED BY <3>1, SpotsAre
  <2>4. \A c \in DOMAIN nm : nm[c] = "mask" => lw.store[c].levels[l].val = lv.store[c].levels[l].val
    BY <1>1, <2>3
  <2>5. MaskOf(lw.store, l) = MaskOf(lv.store, l)
    BY <1>1, <1>2, <1>3, <2>4, MaskSame
  <2> QED BY <1>2, <1>6, <2>2, <2>5
<1>7. Seamless(lw.store)
  BY <1>4, <1>5 DEF Seamless
<1> QED BY <1>1, <1>6, <1>7 DEF Coherent

LEMMA ReplayValues ==
  ASSUME Inv, NEW ds, Valued(ds), ~open, NEW i \in 1 .. Len(steps), NEW e,
         \/ i = cursor /\ cursor' = cursor - 1 /\ e = ds[cursor]
         \/ i = cursor + 1 /\ cursor' = cursor + 1 /\ e = ds[cursor + 2],
         NEW u, u \in {Undone(live, steps[i]), Redone(live, steps[i])},
         live' = u.live, steps' = [steps EXCEPT ![i] = u.step], open' = open, used' = used
  PROVE  Valued(ds)' /\ Reads(live') = e
<1>1. PICK nm : /\ Named(nm) /\ live \in Lives(nm, used.toks) /\ live.store \in Store(nm, used.toks)
                /\ used.toks \in Nat
  BY StoredAs
<1>2. /\ steps \in Seq(Step(used.toks)) /\ cursor \in 0 .. Len(steps) /\ Len(steps) \in Nat
      /\ steps[i] \in Step(used.toks) /\ open = FALSE
  BY DEF Inv, Logged
<1>3. Chain(ds, live, steps, cursor, TRUE) /\ Coherent(live)
      /\ \A k \in 1 .. Len(steps) : SoundStep(steps[k], used.toks)
  BY ClosedHas
<1>4. /\ \A k \in 1 .. Len(steps) + 1 : Reading(ds[k]) /\ Calm(ds[k])
      /\ ds[cursor + 1] = Reads(live) /\ DOMAIN ds = 1 .. Len(steps) + 1
      /\ \A k \in 1 .. Len(steps) : /\ k <= cursor => Leads(live.store, steps[k], ds[k], ds[k + 1])
                                    /\ k > cursor => Leads(live.store, steps[k], ds[k + 1], ds[k])
  BY <1>3 DEF Chain
<1>5. Leads(live.store, steps[i], e, Reads(live)) /\ Reading(e) /\ Calm(e)
  <2>1. CASE i = cursor /\ e = ds[cursor]
    <3>1. i <= cursor /\ cursor \in 1 .. Len(steps) + 1
      BY <1>2, <2>1
    <3> QED BY <1>4, <2>1, <3>1
  <2>2. CASE i = cursor + 1 /\ e = ds[cursor + 2]
    <3>1. i > cursor /\ cursor + 2 \in 1 .. Len(steps) + 1 /\ i + 1 = cursor + 2
      BY <1>2, <2>2
    <3> QED BY <1>4, <2>2, <3>1
  <2> QED BY <2>1, <2>2
<1>6. SoundStep(steps[i], used.toks) /\ Sound(live.store)
  BY <1>3 DEF Coherent
<1>7. Swapped(nm, used.toks, live, e, u.live, u.step)
  BY <1>1, <1>2, <1>5, <1>6, ReplayReads
<1> DEFINE lw == u.live
           st == u.step
           n == used.toks
<1>8. /\ lw \in Lives(nm, n) /\ st \in Step(n) /\ SoundStep(st, n)
      /\ Sound(lw.store) /\ Alike(live.store, lw.store)
      /\ Reads(lw) = e /\ Leads(lw.store, st, Reads(live), e)
  BY <1>7 DEF Swapped
<1>9. Coherent(lw)
  BY <1>1, <1>3, <1>5, <1>7, SwappedCoherent
<1>10. \A k, a, b : Leads(lw.store, k, a, b) <=> Leads(live.store, k, a, b)
  BY <1>1, <1>8, AlikeIn
<1> DEFINE sts == [steps EXCEPT ![i] = st]
<1>11. Len(sts) = Len(steps) /\ sts[i] = st /\ \A k \in 1 .. Len(steps) : k # i => sts[k] = steps[k]
  BY <1>2
<1> HIDE DEF lw, st, n, sts
<1>12. cursor' \in 0 .. Len(steps) /\ ds[cursor' + 1] = e
  <2>1. CASE i = cursor /\ cursor' = cursor - 1 /\ e = ds[cursor]
    BY <1>2, <2>1
  <2>2. CASE i = cursor + 1 /\ cursor' = cursor + 1 /\ e = ds[cursor + 2]
    <3>1. cursor' + 1 = cursor + 2 /\ cursor' \in 0 .. Len(steps)
      BY <1>2, <2>2
    <3> QED BY <2>2, <3>1
  <2> QED BY <2>1, <2>2
<1>13. ASSUME NEW k \in 1 .. Len(steps)
       PROVE  /\ k <= cursor' => Leads(lw.store, sts[k], ds[k], ds[k + 1])
              /\ k > cursor' => Leads(lw.store, sts[k], ds[k + 1], ds[k])
  <2>1. CASE k # i
    <3>1. (k <= cursor' <=> k <= cursor) /\ (k > cursor' <=> k > cursor)
      BY <1>2, <2>1
    <3> QED BY <1>4, <1>10, <1>11, <2>1, <3>1
  <2>2. CASE k = i
    <3>1. CASE i = cursor /\ cursor' = cursor - 1 /\ e = ds[cursor]
      <4>1. ~(k <= cursor') /\ ds[k + 1] = Reads(live) /\ ds[k] = e
        BY <1>2, <1>4, <2>2, <3>1
      <4> QED BY <1>8, <1>11, <2>2, <4>1
    <3>2. CASE i = cursor + 1 /\ cursor' = cursor + 1 /\ e = ds[cursor + 2]
      <4>1. ~(k > cursor') /\ ds[k] = Reads(live) /\ k + 1 = cursor + 2
        BY <1>2, <1>4, <2>2, <3>2
      <4> QED BY <1>8, <1>11, <2>2, <3>2, <4>1
    <3> QED BY <3>1, <3>2
  <2> QED BY <2>1, <2>2
<1>14. Chain(ds, lw, sts, cursor', TRUE)
  BY <1>4, <1>8, <1>11, <1>12, <1>13 DEF Chain
<1>15. \A k \in 1 .. Len(sts) : SoundStep(sts[k], n)
  BY <1>3, <1>8, <1>11 DEF n
<1>16. /\ live' = lw /\ steps' = sts /\ used'.toks = n /\ open' = FALSE
  BY <1>2 DEF lw, sts, n, st
<1>17. Valued(ds)'
  <2>1. /\ Chain(ds, live', steps', cursor', TRUE) /\ Coherent(live')
        /\ \A k \in 1 .. Len(steps') : SoundStep(steps'[k], used'.toks)
    BY <1>9, <1>14, <1>15, <1>16
  <2> QED BY <1>16, <2>1, ClosedValues
<1> QED BY <1>8, <1>16, <1>17

LEMMA UndoValues ==
  ASSUME Inv, NEW ds, Valued(ds), Undo
  PROVE  Valued(ds)' /\ Reads(live') = ds[cursor]
<1> DEFINE u == Undone(live, steps[cursor])
<1>1. /\ ~open /\ cursor > 0 /\ live' = u.live /\ steps' = [steps EXCEPT ![cursor] = u.step]
      /\ cursor' = cursor - 1 /\ open' = open /\ used' = used
  BY DEF Undo
<1>2. cursor \in 1 .. Len(steps)
  BY <1>1 DEF Inv, Logged
<1>3. u \in {Undone(live, steps[cursor]), Redone(live, steps[cursor])}
  OBVIOUS
<1> HIDE DEF u
<1> QED BY <1>1, <1>2, <1>3, ReplayValues

LEMMA RedoValues ==
  ASSUME Inv, NEW ds, Valued(ds), Redo
  PROVE  Valued(ds)' /\ Reads(live') = ds[cursor + 2]
<1> DEFINE i == cursor + 1
           u == Redone(live, steps[i])
<1>1. /\ ~open /\ cursor < Len(steps) /\ live' = u.live /\ steps' = [steps EXCEPT ![i] = u.step]
      /\ cursor' = cursor + 1 /\ open' = open /\ used' = used
  BY DEF Redo
<1>2. i \in 1 .. Len(steps)
  BY <1>1 DEF Inv, Logged
<1>3. u \in {Undone(live, steps[i]), Redone(live, steps[i])} /\ i = cursor + 1
  OBVIOUS
<1> HIDE DEF u, i
<1> QED BY <1>1, <1>2, <1>3, ReplayValues

\* With a stroke open.
LEMMA OpenValues ==
  ASSUME NEW ds, open' = TRUE, Chain(ds, live', steps', Len(steps'), FALSE), Coherent(live'),
         \A k \in 1 .. Len(steps') : SoundStep(steps'[k], used'.toks),
         Capturing(ds[Len(steps')], live', steps'[Len(steps')], stroke')
  PROVE  Valued(ds)'
<1>1. (~open') = FALSE /\ Top' = Len(steps')
  BY DEF Top
<1> QED BY <1>1 DEF Valued

LEMMA OpenHas ==
  ASSUME Inv, NEW ds, Valued(ds), open
  PROVE  /\ Chain(ds, live, steps, Len(steps), FALSE) /\ Coherent(live)
         /\ \A k \in 1 .. Len(steps) : SoundStep(steps[k], used.toks)
         /\ Capturing(ds[Len(steps)], live, steps[Len(steps)], stroke)
<1>1. (~open) = FALSE /\ Top = Len(steps)
  BY DEF Top
<1> QED BY <1>1 DEF Valued

\* A step that has captured nothing leads from a reading to itself.
LEMMA OpenedLeads ==
  ASSUME NEW s, NEW owes, NEW d
  PROVE  Leads(s, Opened(s, owes), d, d)
BY DEF Leads, Patched, Patches, Opened, Here, ValsOf

LEMMA OpenedSound ==
  ASSUME NEW nm, Named(nm), NEW n \in Nat, NEW s \in Store(nm, n), NEW owes
  PROVE  SoundStep(Opened(s, owes), n)
<1>1. DOMAIN s = DOMAIN nm
  BY StoreForm
<1>2. \A d \in DebtsAt(s) : d.id.level = L /\ d.id.chan < n
  <2>1. ASSUME NEW c \in DOMAIN s PROVE Identity(s, c, L).level = L /\ Identity(s, c, L).chan < n
    <3>1. s[c] \in Channel(Depth, n)
      BY <1>1, StoreHas
    <3>2. s[c].tok \in 0 .. n - 1
      BY <3>1 DEF Channel
    <3> QED BY <3>2 DEF Identity
  <2> QED BY <2>1 DEF DebtsAt
<1> QED BY <1>2 DEF SoundStep, Opened

LEMMA BeginStrokeValues ==
  ASSUME Inv, NEW ds, Valued(ds), BeginStroke,
         NEW m, m = IF bound THEN cursor ELSE 0,
         NEW es, es = [k \in 1 .. m + 2 |-> IF k <= m THEN ds[k] ELSE Reads(live)]
  PROVE  Valued(es)'
<1>1. PICK nm : /\ Named(nm) /\ live \in Lives(nm, used.toks) /\ live.store \in Store(nm, used.toks)
                /\ used.toks \in Nat
  BY StoredAs
<1> DEFINE kept == IF bound THEN SubSeq(steps, 1, cursor) ELSE <<>>
           step == Opened(live.store, live.owes)
<1>2. /\ ~open /\ steps' = Append(kept, step) /\ open' = TRUE /\ live' = live /\ stroke' = NoStroke
      /\ used' = [used EXCEPT !.strokes = @ + 1]
      /\ steps \in Seq(Step(used.toks)) /\ cursor \in 0 .. Len(steps) /\ Len(steps) \in Nat /\ used \in Uses
  BY DEF BeginStroke, Inv, Logged
<1>3. used'.toks = used.toks
  BY <1>2 DEF Uses
<1>4. Chain(ds, live, steps, cursor, TRUE) /\ Coherent(live)
      /\ \A k \in 1 .. Len(steps) : SoundStep(steps[k], used.toks)
  BY <1>2, ClosedHas
<1>5. /\ \A k \in 1 .. Len(steps) + 1 : Reading(ds[k]) /\ Calm(ds[k])
      /\ ds[cursor + 1] = Reads(live)
      /\ \A k \in 1 .. Len(steps) : k <= cursor => Leads(live.store, steps[k], ds[k], ds[k + 1])
  BY <1>4 DEF Chain
<1>6. Calm(Reads(live)) /\ Reading(Reads(live))
  <2>1. cursor + 1 \in 1 .. Len(steps) + 1
    BY <1>2
  <2> QED BY <1>5, <2>1
<1>7. /\ kept \in Seq(Step(used.toks)) /\ Len(kept) = m /\ m \in 0 .. Len(steps) /\ m <= cursor
      /\ \A k \in 1 .. m : kept[k] = steps[k]
  <2>1. CASE bound
    <3>1. kept = SubSeq(steps, 1, cursor) /\ m = cursor
      BY <2>1
    <3> HIDE DEF kept
    <3>2. kept \in Seq(Step(used.toks)) /\ Len(kept) = cursor /\ \A k \in 1 .. cursor : kept[k] = steps[k]
      BY <1>2, <3>1
    <3> QED BY <1>2, <3>1, <3>2
  <2>2. CASE ~bound
    <3>1. kept = <<>> /\ m = 0
      BY <2>2
    <3> HIDE DEF kept
    <3> QED BY <1>2, <3>1
  <2> QED BY <2>1, <2>2
<1>8. SoundStep(step, used.toks) /\ Leads(live.store, step, Reads(live), Reads(live))
  BY <1>1, OpenedLeads, OpenedSound
<1>9. step.pos = {} /\ step.mask = {} /\ step.blocks = {} /\ step.finer = {}
  BY DEF Opened
<1> DEFINE sts == Append(kept, step)
<1>10. Len(sts) = m + 1 /\ sts[m + 1] = step /\ \A k \in 1 .. m : sts[k] = steps[k]
  BY <1>7
<1> HIDE DEF kept, step, sts
<1>11. /\ DOMAIN es = 1 .. m + 2 /\ es[m + 1] = Reads(live) /\ es[m + 2] = Reads(live)
       /\ \A k \in 1 .. m : es[k] = ds[k]
  BY <1>7
<1>12. \A k \in 1 .. m + 2 : Reading(es[k]) /\ Calm(es[k])
  <2> TAKE k \in 1 .. m + 2
  <2>1. (k \in 1 .. m /\ k \in 1 .. Len(steps) + 1) \/ k = m + 1 \/ k = m + 2
    BY <1>2, <1>7
  <2> QED BY <1>5, <1>6, <1>11, <2>1
<1>13. ASSUME NEW k \in 1 .. m + 1 PROVE Leads(live.store, sts[k], es[k], es[k + 1])
  <2>1. CASE k = m + 1
    <3>1. k + 1 = m + 2
      BY <1>7, <2>1
    <3> QED BY <1>8, <1>10, <1>11, <2>1, <3>1
  <2>2. CASE k = m /\ k \in 1 .. m
    <3>1. k \in 1 .. Len(steps) /\ k <= cursor /\ bound /\ k = cursor
      BY <1>2, <1>7, <2>2
    <3>2. es[k + 1] = ds[k + 1]
      BY <1>5, <1>11, <2>2, <3>1
    <3> QED BY <1>5, <1>10, <1>11, <2>2, <3>1, <3>2
  <2>3. CASE k \in 1 .. m - 1
    <3>1. k \in 1 .. m /\ k + 1 \in 1 .. m /\ k \in 1 .. Len(steps) /\ k <= cursor
      BY <1>2, <1>7, <2>3
    <3> QED BY <1>5, <1>10, <1>11, <3>1
  <2> QED BY <1>7, <2>1, <2>2, <2>3
<1>14. Chain(es, live, sts, Len(sts), FALSE)
  <2>1. Len(sts) + 1 = m + 2 /\ Len(sts) \in 0 .. Len(sts) /\ m + 1 \in Nat
    BY <1>7, <1>10
  <2>2. \A k \in 1 .. m + 1 : ~(k > m + 1) /\ k <= m + 1
    BY <1>7
  <2> QED BY <1>10, <1>11, <1>12, <1>13, <2>1, <2>2 DEF Chain
<1>15. \A k \in 1 .. Len(sts) : SoundStep(sts[k], used.toks)
  <2> TAKE k \in 1 .. Len(sts)
  <2>1. (k \in 1 .. m /\ k \in 1 .. Len(steps)) \/ k = m + 1
    BY <1>2, <1>7, <1>10
  <2> QED BY <1>4, <1>8, <1>10, <2>1
<1>16. Capturing(es[Len(sts)], live, sts[Len(sts)], stroke')
  <2>1. Reads(live)[Dense] = live.mask[L]
    BY <1>1, ReadsAre
  <2> QED BY <1>9, <1>10, <1>11, <2>1 DEF Capturing
<1>17. steps' = sts
  BY <1>2 DEF sts, kept, step
<1>18. /\ Chain(es, live', steps', Len(steps'), FALSE) /\ Coherent(live')
       /\ \A k \in 1 .. Len(steps') : SoundStep(steps'[k], used'.toks)
       /\ Capturing(es[Len(steps')], live', steps'[Len(steps')], stroke')
  BY <1>2, <1>3, <1>4, <1>14, <1>15, <1>16, <1>17
<1> QED BY <1>2, <1>18, OpenValues

LEMMA InitialValues ==
  ASSUME Init
  PROVE  Valued(Alone(live))
<1>1. Inv
  BY Initially
<1>2. PICK nm : /\ Named(nm) /\ live \in Lives(nm, used.toks) /\ live.store \in Store(nm, used.toks)
                /\ used.toks \in Nat
  BY <1>1, StoredAs
<1> DEFINE ch == NewChannel("disp", "float", "delta", TRUE, Depth, 1)
<1>3. PICK alive \in SUBSET (Levels \ {L}) :
        live = [store |-> <<ch>>, pos |-> [v \in Verts |-> Zero(L)], owes |-> FALSE,
                mask |-> [l \in Levels |-> IF l \in alive \cup {L}
                                           THEN [v \in Verts |-> Zero(l)] ELSE None]]
  BY DEF Init
<1>4. /\ live.store = <<ch>>
      /\ live.mask = [l \in Levels |-> IF l \in alive \cup {L} THEN [v \in Verts |-> Zero(l)] ELSE None]
  BY <1>3
<1>5. /\ ch.name = "disp"
      /\ \A l \in Levels : /\ ch.levels[l].val = Blank(l) /\ ch.levels[l].held = "chunks"
                           /\ ch.levels[l].tok = 1 + l
  BY DEF NewChannel, AllocLevel, Levels
<1> HIDE DEF ch
<1>6. DOMAIN live.store = {1} /\ live.store[1] = ch
  BY <1>4
<1>7. L \in Levels
  BY LogAssumption DEF Levels
<1>8. Sound(live.store) /\ Seamless(live.store)
  <2>1. \A l \in Levels : \A x, y \in Sites : Blank(l)[x] = Blank(l)[y]
    BY DEF Blank
  <2> QED BY <1>5, <1>6, <1>7, <2>1 DEF Sound, Seamless
<1>9. ASSUME NEW l \in Levels PROVE MaskOf(live.store, l) = [v \in Verts |-> Zero(l)]
  <2>1. FindChannel(live.store, "mask") = 0
    BY <1>5, <1>6 DEF FindChannel
  <2>2. Seed("mask", l) = Blank(l)
    BY LogAssumption DEF Seed
  <2>3. ValueAt(live.store, "mask", l) = Blank(l)
    BY <2>1, <2>2 DEF ValueAt
  <2>4. \A v \in Verts : <<Canon[v], v>> \in Sites
    BY LogAssumption, StoreAssumption DEF Sites
  <2> QED BY <2>3, <2>4 DEF MaskOf, Blank
<1>10. /\ live.mask[L] = MaskOf(live.store, L)
       /\ \A l \in Levels : live.mask[l] = None \/ live.mask[l] = MaskOf(live.store, l)
  BY <1>4, <1>7, <1>9
<1>11. Coherent(live)
  BY <1>8, <1>10 DEF Coherent
<1>12. Chain(Alone(live), live, <<>>, 0, TRUE)
  BY <1>2, <1>10, <1>11, StartsOver
<1>13. steps = <<>> /\ cursor = 0 /\ open = FALSE
  BY DEF Init
<1>14. (~open) = TRUE /\ Top = 0 /\ \A k \in 1 .. Len(steps) : SoundStep(steps[k], used.toks)
  BY <1>13 DEF Top
<1> QED BY <1>11, <1>12, <1>13, <1>14 DEF Valued

-----------------------------------------------------------------------------
(* What is settled.                                                        *)

\* Levels g after f: what is below l comes from l.
BroughtDown(f, g, l) ==
  /\ DOMAIN g = DOMAIN f
  /\ \A k \in DOMAIN f : k # l /\ k # l - 1 => g[k] = f[k]
  /\ \A k \in DOMAIN f : g[k].tok = f[k].tok /\ g[k].owes = f[k].owes
  /\ g[l].val = f[l].val /\ (g[l].held = "none" <=> f[l].held = "none")
  /\ \/ g[l - 1].val = f[l - 1].val /\ g[l - 1].held = f[l - 1].held
     \/ /\ g[l - 1].held = "chunks" /\ f[l].held # "none"
        /\ \A x, y \in Sites : f[l].val[x] = f[l].val[y] => g[l - 1].val[x] = g[l - 1].val[y]

LEMMA BroughtBy ==
  ASSUME NEW D \in Nat, NEW n \in Nat, NEW f \in LevelsTo(D, n), NEW l \in 2 .. D, f[l].held # "none",
         NEW v, \A x, y \in Sites : f[l].val[x] = f[l].val[y] => v[x] = v[y],
         NEW g, g = [f EXCEPT ![l - 1].val = v, ![l].held = "chunks", ![l - 1].held = "chunks"]
  PROVE  BroughtDown(f, g, l)
<1> DEFINE r == [f[l] EXCEPT !.held = "chunks"]
           q == [f[l - 1] EXCEPT !.val = v, !.held = "chunks"]
<1>1. l \in 1 .. D /\ l - 1 \in 1 .. D /\ l - 1 # l
  OBVIOUS
<1>2. DOMAIN f = 1 .. D /\ f[l] \in LevelAt(l, n) /\ f[l - 1] \in LevelAt(l - 1, n)
  BY <1>1, LevelsAre
<1>3. g = [[f EXCEPT ![l - 1] = q] EXCEPT ![l] = r]
  BY <1>1, <1>2, LevelsAre
<1>4. r.tok = f[l].tok /\ r.owes = f[l].owes /\ r.val = f[l].val /\ r.held = "chunks"
  BY <1>2 DEF LevelAt
<1>5. q.tok = f[l - 1].tok /\ q.owes = f[l - 1].owes /\ q.val = v /\ q.held = "chunks"
  BY <1>2 DEF LevelAt
<1> HIDE DEF r, q
<1>6. /\ DOMAIN g = 1 .. D /\ g[l] = r /\ g[l - 1] = q
      /\ \A k \in 1 .. D : k # l /\ k # l - 1 => g[k] = f[k]
  BY <1>1, <1>2, <1>3
<1> QED BY <1>1, <1>2, <1>4, <1>5, <1>6 DEF BroughtDown

LEMMA BroughtSame ==
  ASSUME NEW f, NEW l
  PROVE  BroughtDown(f, f, l)
BY DEF BroughtDown

LEMMA RestrictDownHas ==
  ASSUME NEW D \in Nat, NEW n \in Nat, NEW ch \in Channel(D, n), NEW l \in 2 .. D,
         NEW r, r = RestrictChannelDown(ch, l)
  PROVE  /\ BroughtDown(ch.levels, r.levels, l)
         /\ r.name = ch.name /\ r.tok = ch.tok /\ r.type = ch.type /\ r.rule = ch.rule
         /\ r.persist = ch.persist
<1>1. ch.levels \in LevelsTo(D, n)
  BY ChannelLevels
<1>2. CASE ch.levels[l].held = "none"
  <2>1. r = ch
    BY <1>2 DEF RestrictChannelDown
  <2> QED BY <2>1, BroughtSame
<1>3. ASSUME NEW g, r = [ch EXCEPT !.levels = g], BroughtDown(ch.levels, g, l)
      PROVE  /\ BroughtDown(ch.levels, r.levels, l)
             /\ r.name = ch.name /\ r.tok = ch.tok /\ r.type = ch.type /\ r.rule = ch.rule
             /\ r.persist = ch.persist
  <2>1. r.levels = g
    BY <1>3 DEF Channel
  <2> QED BY <1>3, <2>1 DEF Channel
<1>4. CASE ch.levels[l].held # "none" /\ ch.type # "float"
  <2> DEFINE v == [x \in Sites |-> Injected(ch.levels[l].val[x])]
             g == RestrictedToBelow(ch.levels, l)
  <2>1. r = [ch EXCEPT !.levels = g]
    BY <1>4 DEF RestrictChannelDown
  <2>2. g = [ch.levels EXCEPT ![l - 1].val = v, ![l].held = "chunks", ![l - 1].held = "chunks"]
    BY <1>4 DEF RestrictedToBelow
  <2>3. \A x, y \in Sites : ch.levels[l].val[x] = ch.levels[l].val[y] => v[x] = v[y]
    OBVIOUS
  <2> HIDE DEF v, g
  <2>4. BroughtDown(ch.levels, g, l)
    BY <1>1, <1>4, <2>2, <2>3, BroughtBy
  <2> QED BY <1>3, <2>1, <2>4
<1>5. CASE ch.levels[l].held # "none" /\ ch.type = "float"
  <2> DEFINE v == [x \in Sites |-> Averaged(ch.levels[l].val[x])]
             g == [ch.levels EXCEPT ![l - 1].val = v, ![l].held = "chunks", ![l - 1].held = "chunks"]
  <2>1. r = [ch EXCEPT !.levels = g]
    <3> DEFINE p == [ch.levels[l] EXCEPT !.held = "chunks"]
               q == [ch.levels[l - 1] EXCEPT !.val = v, !.held = "chunks"]
               h == [[ch.levels EXCEPT ![l - 1] = q] EXCEPT ![l] = p]
    <3>1. /\ l \in 1 .. D /\ l - 1 \in 1 .. D /\ l - 1 # l /\ DOMAIN ch.levels = 1 .. D
          /\ l \in Nat \ {0, 1}
      BY <1>1, ChannelLevels
    <3>4. ch.levels[l] \in LevelAt(l, n) /\ ch.levels[l - 1] \in LevelAt(l - 1, n)
      BY <3>1, ChannelLevels
    <3>2. r = [ch EXCEPT !.levels = h]
      BY <1>1, <1>5, <3>1, <3>4 DEF RestrictChannelDown
    <3>3. h = g
      BY <3>1
    <3> QED BY <3>2, <3>3
  <2>2. g = [ch.levels EXCEPT ![l - 1].val = v, ![l].held = "chunks", ![l - 1].held = "chunks"]
    OBVIOUS
  <2>3. \A x, y \in Sites : ch.levels[l].val[x] = ch.levels[l].val[y] => v[x] = v[y]
    OBVIOUS
  <2> HIDE DEF v, g
  <2>4. BroughtDown(ch.levels, g, l)
    BY <1>1, <1>5, <2>2, <2>3, BroughtBy
  <2> QED BY <1>3, <2>1, <2>4
<1> QED BY <1>2, <1>4, <1>5

\* Levels g after f, l owes no more.
Settled(f, g, l) ==
  /\ DOMAIN g = DOMAIN f
  /\ \A k \in DOMAIN f : k # l /\ k # l - 1 => g[k] = f[k]
  /\ \A k \in DOMAIN f : g[k].tok = f[k].tok
  /\ g[l].val = f[l].val /\ (g[l].held = "none" <=> f[l].held = "none") /\ g[l].owes = FALSE
  /\ \/ g[l - 1].val = f[l - 1].val /\ g[l - 1].held = f[l - 1].held
     \/ /\ g[l - 1].held = "chunks" /\ f[l].held # "none"
        /\ \A x, y \in Sites : f[l].val[x] = f[l].val[y] => g[l - 1].val[x] = g[l - 1].val[y]
  /\ g[l - 1].owes = (f[l - 1].owes \/ (l > 2 /\ f[l].held # "none"))

Repaid(q, ch, l) ==
  [q EXCEPT !.levels[l].owes = FALSE,
            !.levels[l - 1].owes = @ \/ (l > 2 /\ ch.levels[l].held # "none")]

LEMMA SettledBy ==
  ASSUME NEW D \in Nat, NEW n \in Nat, NEW ch \in Channel(D, n), NEW l \in 2 .. D,
         NEW r, r = RestrictChannelDown(ch, l),
         NEW t, t = Repaid(r, ch, l)
  PROVE  /\ Settled(ch.levels, t.levels, l)
         /\ t.name = ch.name /\ t.tok = ch.tok /\ t.type = ch.type /\ t.rule = ch.rule
         /\ t.persist = ch.persist
<1> DEFINE b == r.levels[l - 1].owes \/ (l > 2 /\ ch.levels[l].held # "none")
           p == [r.levels[l] EXCEPT !.owes = FALSE]
           q == [r.levels[l - 1] EXCEPT !.owes = b]
           f == [r.levels EXCEPT ![l] = p]
           h == [f EXCEPT ![l - 1] = q]
<1>1. l \in 1 .. D /\ l - 1 \in 1 .. D /\ l - 1 # l
  OBVIOUS
<1>2. /\ r \in Channel(D, n) /\ BroughtDown(ch.levels, r.levels, l)
      /\ r.name = ch.name /\ r.tok = ch.tok /\ r.type = ch.type /\ r.rule = ch.rule
      /\ r.persist = ch.persist
  BY RestrictDownIs, RestrictDownHas
<1>3. /\ r.levels \in LevelsTo(D, n) /\ DOMAIN r.levels = 1 .. D /\ DOMAIN ch.levels = 1 .. D
      /\ r.levels[l] \in LevelAt(l, n) /\ r.levels[l - 1] \in LevelAt(l - 1, n)
  BY <1>1, <1>2, ChannelLevels
<1>4. t = [r EXCEPT !.levels = h]
  BY <1>1, <1>2, <1>3 DEF Channel, Repaid
<1>5. /\ p.val = r.levels[l].val /\ p.held = r.levels[l].held /\ p.tok = r.levels[l].tok /\ p.owes = FALSE
      /\ q.val = r.levels[l - 1].val /\ q.held = r.levels[l - 1].held /\ q.tok = r.levels[l - 1].tok
  BY <1>3 DEF LevelAt
<1>6. q.owes = b
  BY <1>3 DEF LevelAt
<1>7. b = (r.levels[l - 1].owes \/ (l > 2 /\ ch.levels[l].held # "none"))
  OBVIOUS
<1> HIDE DEF b, p, q
<1>8. /\ DOMAIN h = 1 .. D /\ h[l] = p /\ h[l - 1] = q
      /\ \A k \in 1 .. D : k # l /\ k # l - 1 => h[k] = r.levels[k]
  BY <1>1, <1>3
<1> HIDE DEF f, h
<1>9. t.levels = h
  BY <1>2, <1>4 DEF Channel
<1>10. t.name = r.name /\ t.tok = r.tok /\ t.type = r.type /\ t.rule = r.rule /\ t.persist = r.persist
  BY <1>2, <1>4 DEF Channel
<1>11. r.levels[l - 1].owes = ch.levels[l - 1].owes
  BY <1>1, <1>2, <1>3 DEF BroughtDown
<1>12. Settled(ch.levels, h, l)
  <2>1. /\ DOMAIN h = DOMAIN ch.levels
        /\ \A k \in DOMAIN ch.levels : k # l /\ k # l - 1 => h[k] = ch.levels[k]
        /\ \A k \in DOMAIN ch.levels : h[k].tok = ch.levels[k].tok
    BY <1>2, <1>3, <1>5, <1>8 DEF BroughtDown
  <2>2. /\ h[l].val = ch.levels[l].val /\ (h[l].held = "none" <=> ch.levels[l].held = "none") /\ h[l].owes = FALSE
        /\ \/ h[l - 1].val = ch.levels[l - 1].val /\ h[l - 1].held = ch.levels[l - 1].held
           \/ /\ h[l - 1].held = "chunks" /\ ch.levels[l].held # "none"
              /\ \A x, y \in Sites : ch.levels[l].val[x] = ch.levels[l].val[y] => h[l - 1].val[x] = h[l - 1].val[y]
    BY <1>2, <1>5, <1>8 DEF BroughtDown
  <2>3. h[l - 1].owes = (ch.levels[l - 1].owes \/ (l > 2 /\ ch.levels[l].held # "none"))
    BY <1>6, <1>7, <1>8, <1>11
  <2> QED BY <2>1, <2>2, <2>3 DEF Settled
<1> QED BY <1>2, <1>9, <1>10, <1>12

LEMMA SettledDownHas ==
  ASSUME NEW nm, Named(nm), NEW n \in Nat, NEW lv \in Lives(nm, n), L >= 2,
         NEW r, r = SettledDown(lv, L)
  PROVE  /\ r \in Lives(nm, n) /\ r.pos = lv.pos /\ r.owes = lv.owes
         /\ \A k \in Levels : k # L - 1 => r.mask[k] = lv.mask[k]
         /\ r.mask[L - 1] = IF lv.mask[L - 1] # None /\ Owes(lv.store, "mask", L)
                            THEN MaskOf(r.store, L - 1) ELSE lv.mask[L - 1]
         /\ Frame(lv.store, r.store) /\ Alike(lv.store, r.store)
         /\ \A c \in DOMAIN nm : /\ ~lv.store[c].levels[L].owes => r.store[c] = lv.store[c]
                                 /\ lv.store[c].levels[L].owes
                                      => Settled(lv.store[c].levels, r.store[c].levels, L)
<1> DEFINE part(ch) == [RestrictChannelDown(ch, L) EXCEPT
                          !.levels[L].owes = FALSE,
                          !.levels[L - 1].owes = @ \/ (L > 2 /\ ch.levels[L].held # "none")]
           settled(ch) == IF ~ch.levels[L].owes THEN ch ELSE part(ch)
           s == [c \in DOMAIN lv.store |-> settled(lv.store[c])]
           v == IF lv.mask[L - 1] # None /\ Owes(lv.store, "mask", L) THEN MaskOf(s, L - 1)
                ELSE lv.mask[L - 1]
<1>1. L \in 2 .. Depth /\ L \in Nat /\ L - 1 \in Levels /\ L \in Levels /\ L - 1 # L /\ Depth \in Nat
  BY LogAssumption DEF Levels
<1>2. r \in Lives(nm, n)
  BY <1>1, SettledIs
<1>3. lv.store \in Store(nm, n) /\ lv.mask \in Masks /\ DOMAIN lv.store = DOMAIN nm
  BY StoreForm DEF Lives
<1>4. r = [lv EXCEPT !.store = s, !.mask[L - 1] = v]
  <2>1. s = EachChannel(lv.store, settled)
    BY DEF EachChannel
  <2> QED BY Zenon, <2>1 DEF SettledDown
<1>5. ASSUME NEW c \in DOMAIN nm
      PROVE  /\ ~lv.store[c].levels[L].owes => s[c] = lv.store[c]
             /\ lv.store[c].levels[L].owes => Settled(lv.store[c].levels, s[c].levels, L)
             /\ s[c].name = lv.store[c].name /\ s[c].tok = lv.store[c].tok
             /\ s[c].type = lv.store[c].type /\ s[c].rule = lv.store[c].rule
             /\ s[c].persist = lv.store[c].persist
             /\ DOMAIN s[c].levels = DOMAIN lv.store[c].levels
             /\ \A k \in Levels : s[c].levels[k].tok = lv.store[c].levels[k].tok
  <2> DEFINE ch == lv.store[c]
             t == part(ch)
             q == RestrictChannelDown(ch, L)
  <2>1. ch \in Channel(Depth, n) /\ DOMAIN ch.levels = Levels
    BY <1>3, StoreHas DEF Levels
  <2>2. s[c] = IF ~ch.levels[L].owes THEN ch ELSE t
    BY <1>3
  <2>3. q = RestrictChannelDown(ch, L) /\ t = Repaid(q, ch, L)
    BY DEF Repaid
  <2> HIDE DEF ch, t, s, q, part
  <2>4. /\ Settled(ch.levels, t.levels, L)
        /\ t.name = ch.name /\ t.tok = ch.tok /\ t.type = ch.type /\ t.rule = ch.rule
        /\ t.persist = ch.persist
    BY <1>1, <2>1, <2>3, SettledBy
  <2>5. DOMAIN t.levels = DOMAIN ch.levels /\ \A k \in Levels : t.levels[k].tok = ch.levels[k].tok
    BY <2>1, <2>4 DEF Settled
  <2> QED BY <2>2, <2>4, <2>5 DEF ch
<1>6. DOMAIN s = DOMAIN nm
  BY <1>3
<1>7. v = IF lv.mask[L - 1] # None /\ Owes(lv.store, "mask", L) THEN MaskOf(s, L - 1)
          ELSE lv.mask[L - 1]
  OBVIOUS
<1> HIDE DEF s, v
<1>8. lv = [store |-> lv.store, pos |-> lv.pos, owes |-> lv.owes, mask |-> lv.mask]
  BY DEF Lives
<1>9. /\ r.store = s /\ r.pos = lv.pos /\ r.owes = lv.owes /\ r.mask = [lv.mask EXCEPT ![L - 1] = v]
  BY <1>4, <1>8
<1>10. /\ \A k \in Levels : k # L - 1 => r.mask[k] = lv.mask[k]
       /\ r.mask[L - 1] = v
  BY <1>1, <1>3, <1>9, MasksAre
<1>11. Frame(lv.store, s)
  BY <1>3, <1>5, <1>6 DEF Frame
<1>12. Alike(lv.store, s)
  <2>1. \A c \in DOMAIN nm : DOMAIN lv.store[c].levels = Levels
    BY <1>3, StoreForm DEF Levels
  <2> QED BY <1>3, <1>5, <1>6, <2>1 DEF Alike
<1> QED BY <1>2, <1>5, <1>7, <1>9, <1>10, <1>11, <1>12

LEMMA SettledDownQuiet ==
  ASSUME NEW nm, Named(nm), NEW n \in Nat, NEW lv \in Lives(nm, n), L >= 2, Coherent(lv),
         NEW r, r = SettledDown(lv, L)
  PROVE  Coherent(r) /\ Reads(r) = Reads(lv)
<1>1. /\ r \in Lives(nm, n) /\ r.pos = lv.pos /\ r.owes = lv.owes
      /\ \A k \in Levels : k # L - 1 => r.mask[k] = lv.mask[k]
      /\ r.mask[L - 1] = IF lv.mask[L - 1] # None /\ Owes(lv.store, "mask", L)
                         THEN MaskOf(r.store, L - 1) ELSE lv.mask[L - 1]
      /\ Frame(lv.store, r.store) /\ Alike(lv.store, r.store)
      /\ \A c \in DOMAIN nm : /\ ~lv.store[c].levels[L].owes => r.store[c] = lv.store[c]
                              /\ lv.store[c].levels[L].owes
                                   => Settled(lv.store[c].levels, r.store[c].levels, L)
  BY SettledDownHas
<1> DEFINE s == lv.store
           t == r.store
<1>2. /\ s \in Store(nm, n) /\ t \in Store(nm, n) /\ DOMAIN s = DOMAIN nm /\ DOMAIN t = DOMAIN nm
      /\ \A c \in DOMAIN nm : DOMAIN s[c].levels = Levels
  <2>1. s \in Store(nm, n) /\ t \in Store(nm, n)
    BY <1>1 DEF Lives
  <2> QED BY <2>1, StoreForm DEF Levels
<1>3. L \in Levels /\ L - 1 \in Levels /\ L - 1 # L /\ L \in Nat
  BY LogAssumption DEF Levels
<1>4. /\ Sound(s) /\ Seamless(s)
      /\ \A l \in Levels : l = L \/ lv.mask[l] = None \/ lv.mask[l] = MaskOf(s, l)
  BY DEF Coherent
<1> HIDE DEF s, t
<1>5. ASSUME NEW c \in DOMAIN nm, NEW k \in Levels
      PROVE  /\ t[c].levels[k].tok = s[c].levels[k].tok
             /\ k # L - 1 => /\ t[c].levels[k].val = s[c].levels[k].val
                             /\ t[c].levels[k].held = "none" <=> s[c].levels[k].held = "none"
             /\ t[c].levels[k].held = "none" => /\ s[c].levels[k].held = "none"
                                                /\ t[c].levels[k].val = s[c].levels[k].val
             /\ \A x, y \in Sites : x[2] = y[2] => t[c].levels[k].val[x] = t[c].levels[k].val[y]
  <2>1. \A x, y \in Sites : x[2] = y[2] => /\ s[c].levels[k].val[x] = s[c].levels[k].val[y]
                                           /\ s[c].levels[L].val[x] = s[c].levels[L].val[y]
    BY <1>2, <1>3, <1>4 DEF Seamless
  <2>2. CASE ~s[c].levels[L].owes
    <3>1. t[c] = s[c]
      BY <1>1, <2>2 DEF s, t
    <3> QED BY <2>1, <3>1
  <2>3. CASE s[c].levels[L].owes
    <3>1. Settled(s[c].levels, t[c].levels, L)
      BY <1>1, <2>3 DEF s, t
    <3>2. CASE k # L - 1 /\ k # L
      <4>1. t[c].levels[k] = s[c].levels[k]
        BY <1>2, <3>1, <3>2 DEF Settled
      <4> QED BY <2>1, <4>1
    <3>3. CASE k = L
      BY <1>2, <1>3, <2>1, <3>1, <3>3 DEF Settled
    <3>4. CASE k = L - 1
      BY <1>2, <1>3, <2>1, <3>1, <3>4 DEF Settled
    <3> QED BY <3>2, <3>3, <3>4
  <2> QED BY <2>2, <2>3
<1>6. Sound(t)
  <2>1. \A c \in DOMAIN nm : \A l \in Levels :
           /\ t[c].levels[l].tok = s[c].levels[l].tok
           /\ s[c].levels[l].val = Blank(l) \/ s[c].levels[l].held # "none"
                => (t[c].levels[l].held = "none" => t[c].levels[l].val = Blank(l))
           /\ l = L /\ s[c].levels[l].held # "none" => t[c].levels[l].held # "none"
    BY <1>3, <1>5
  <2> QED BY <1>2, <1>4, <2>1, SoundBy
<1>7. Seamless(t)
  BY <1>2, <1>5 DEF Seamless
<1>8. ASSUME NEW l \in Levels, l # L, r.mask[l] # None PROVE r.mask[l] = MaskOf(t, l)
  <2>1. ASSUME \A c \in DOMAIN nm : nm[c] = "mask" => t[c].levels[l].val = s[c].levels[l].val
        PROVE  MaskOf(t, l) = MaskOf(s, l)
    BY <1>2, <1>4, <1>6, <2>1, MaskSame
  <2>2. CASE l # L - 1
    <3>1. MaskOf(t, l) = MaskOf(s, l)
      BY <1>5, <2>1, <2>2
    <3> QED BY <1>1, <1>4, <1>8, <2>2, <3>1
  <2>3. CASE l = L - 1 /\ lv.mask[L - 1] # None /\ Owes(lv.store, "mask", L)
    BY <1>1, <2>3 DEF t
  <2>4. CASE l = L - 1 /\ ~(lv.mask[L - 1] # None /\ Owes(lv.store, "mask", L))
    <3>1. r.mask[l] = lv.mask[l]
      BY <1>1, <2>4
    <3>2. ~Owes(s, "mask", L)
      BY <1>8, <2>4, <3>1 DEF s
    <3>3. \A c \in DOMAIN nm : nm[c] = "mask" => ~s[c].levels[L].owes
      <4> TAKE c \in DOMAIN nm
      <4> HAVE nm[c] = "mask"
      <4>1. FindChannel(s, "mask") = c /\ c # 0
        BY <1>2, FindAt
      <4> QED BY <3>2, <4>1 DEF Owes
    <3>4. \A c \in DOMAIN nm : nm[c] = "mask" => t[c] = s[c]
      BY <1>1, <3>3 DEF s, t
    <3>5. MaskOf(t, l) = MaskOf(s, l)
      BY <2>1, <3>4
    <3> QED BY <1>4, <1>8, <2>4, <3>1, <3>5
  <2> QED BY <2>2, <2>3, <2>4
<1>9. Coherent(r)
  BY <1>6, <1>7, <1>8 DEF Coherent, t
<1>10. Reads(r) = Reads(lv)
  <2>1. \A c \in DOMAIN nm : \A l \in Levels : <<nm[c], l>> \in InStore => t[c].levels[l].val = s[c].levels[l].val
    <3> TAKE c \in DOMAIN nm
    <3> TAKE l \in Levels
    <3> HAVE <<nm[c], l>> \in InStore
    <3>1. <<nm[c], l>>[2] >= L /\ <<nm[c], l>>[2] = l
      BY SpotsAre
    <3>2. l # L - 1
      BY <1>3, <3>1
    <3> QED BY <1>5, <3>2
  <2>2. r.mask[L] = lv.mask[L]
    BY <1>1, <1>3
  <2>3. r \in Lives(nm, n) /\ r.pos = lv.pos
    BY <1>1
  <2> QED BY <2>1, <2>2, <2>3, SameReads DEF s, t
<1> QED BY <1>9, <1>10

\* Levels held otherwise.
LEMMA ReheldQuiet ==
  ASSUME NEW nm, Named(nm), NEW n \in Nat, NEW lv \in Lives(nm, n), Coherent(lv), NEW ls,
         NEW r \in Lives(nm, n), r.store = Reheld(lv.store, ls, "chunks", "blob"),
         r.pos = lv.pos, r.mask = lv.mask
  PROVE  Coherent(r) /\ Reads(r) = Reads(lv) /\ Alike(lv.store, r.store)
<1> DEFINE s == lv.store
           t == r.store
<1>1. s \in Store(nm, n) /\ t \in Store(nm, n) /\ t = Reheld(s, ls, "chunks", "blob")
  BY DEF Lives
<1>2. Sound(s) /\ Seamless(s) /\ \A l \in Levels : l = L \/ lv.mask[l] = None \/ lv.mask[l] = MaskOf(s, l)
  BY DEF Coherent
<1> HIDE DEF s, t
<1>3. /\ Alike(s, t)
      /\ \A c \in DOMAIN nm : \A l \in Levels : t[c].levels[l].val = s[c].levels[l].val
  BY <1>1, ReheldHas
<1>4. "blob" \in Held
  BY DEF Held
<1>5. Sound(t)
  BY <1>1, <1>2, <1>4, ReheldSound
<1>6. Seamless(t)
  <2>1. DOMAIN s = DOMAIN nm /\ DOMAIN t = DOMAIN nm
    BY <1>1, StoreForm
  <2> QED BY <1>2, <1>3, <2>1 DEF Seamless
<1>7. \A l \in Levels : MaskOf(t, l) = MaskOf(s, l)
  BY <1>1, <1>2, <1>3, <1>5, MaskSame
<1>8. Coherent(r)
  BY <1>2, <1>5, <1>6, <1>7 DEF Coherent, t
<1>9. Reads(r) = Reads(lv)
  BY <1>3, SameReads DEF s, t
<1> QED BY <1>3, <1>8, <1>9 DEF s, t

\* A call of the host that leaves the readings and the steps alone.
LEMMA QuietValues ==
  ASSUME Inv, NEW ds, Valued(ds), ~open, NEW nm, Named(nm), live \in Lives(nm, used.toks),
         live' \in Lives(nm, used.toks), Coherent(live'), Reads(live') = Reads(live),
         Alike(live.store, live'.store), open' = open, used'.toks = used.toks,
         steps' = steps, cursor' = cursor
  PROVE  Valued(ds)'
<1>1. /\ Chain(ds, live, steps, cursor, TRUE)
      /\ \A k \in 1 .. Len(steps) : SoundStep(steps[k], used.toks)
  BY ClosedHas
<1>2. live.store \in Store(nm, used.toks) /\ used.toks \in Nat
  BY DEF Lives, Inv, Logged, Uses
<1>3. \A k, a, b : Leads(live'.store, k, a, b) <=> Leads(live.store, k, a, b)
  BY <1>2, AlikeIn
<1>4. Chain(ds, live', steps, cursor, TRUE)
  BY <1>1, <1>3 DEF Chain
<1>5. open' = FALSE
  BY DEF Inv, Logged
<1>6. /\ Chain(ds, live', steps', cursor', TRUE)
      /\ \A k \in 1 .. Len(steps') : SoundStep(steps'[k], used'.toks)
  BY <1>1, <1>4
<1> QED BY <1>5, <1>6, ClosedValues

LEMMA SwitchQuiet ==
  ASSUME Inv, NEW ds, Valued(ds), Switch, NEW nm, Named(nm), live \in Lives(nm, used.toks)
  PROVE  /\ live' \in Lives(nm, used.toks) /\ Coherent(live') /\ Reads(live') = Reads(live)
         /\ Alike(live.store, live'.store)
<1> DEFINE settled == IF \E n \in Names : Owes(live.store, n, L) THEN SettledDown(live, L) ELSE live
           n == used.toks
<1>1. PICK low \in 1 .. Depth + 1, high \in 1 .. Depth + 1 :
        live' = [settled EXCEPT !.owes = FALSE, !.store = EvictFrom(EvictFrom(@, low, L - 1), high, L)]
  BY Zenon DEF Switch
<1>2. ~open /\ L >= 2 /\ n \in Nat
  BY DEF Switch, Called, Inv, Logged, Uses
<1>3. Coherent(live)
  BY <1>2, ClosedHas
<1> HIDE DEF n
<1>4. /\ settled \in Lives(nm, n) /\ Coherent(settled) /\ Reads(settled) = Reads(live)
      /\ Alike(live.store, settled.store)
  <2>1. CASE \E k \in Names : Owes(live.store, k, L)
    <3> DEFINE r == SettledDown(live, L)
    <3>1. settled = r /\ r = SettledDown(live, L)
      BY <2>1
    <3>2. live \in Lives(nm, n)
      BY DEF n
    <3> HIDE DEF r
    <3>3. r \in Lives(nm, n) /\ Alike(live.store, r.store)
      BY <1>2, <3>1, <3>2, SettledDownHas
    <3>4. Coherent(r) /\ Reads(r) = Reads(live)
      BY <1>2, <1>3, <3>1, <3>2, SettledDownQuiet
    <3> QED BY <3>1, <3>3, <3>4
  <2>2. CASE ~\E k \in Names : Owes(live.store, k, L)
    <3>1. settled = live
      BY <2>2
    <3>2. Alike(live.store, live.store)
      BY DEF Alike
    <3> QED BY <1>3, <3>1, <3>2 DEF n
  <2> QED BY <2>1, <2>2
<1> HIDE DEF settled
<1> DEFINE a == EvictFrom(settled.store, low, L - 1)
           b == EvictFrom(a, high, L)
           lw == [settled EXCEPT !.owes = FALSE, !.store = a]
           lz == [settled EXCEPT !.owes = FALSE, !.store = b]
<1>5. live' = lz
  BY <1>1, <1>4 DEF Lives
<1>6. settled.store \in Store(nm, n)
  BY <1>4 DEF Lives
<1>7. a \in Store(nm, n) /\ a = Reheld(settled.store, (low .. Depth) \ {L - 1}, "chunks", "blob")
  BY <1>2, <1>6, EvictedIs DEF EvictFrom, EvictLevels
<1> HIDE DEF a
<1>8. b \in Store(nm, n) /\ b = Reheld(a, (high .. Depth) \ {L}, "chunks", "blob")
  BY <1>2, <1>7, EvictedIs DEF EvictFrom, EvictLevels
<1> HIDE DEF b
<1>9. /\ lw \in Lives(nm, n) /\ lw.store = a /\ lw.pos = settled.pos /\ lw.mask = settled.mask
      /\ lz \in Lives(nm, n) /\ lz.store = b /\ lz.pos = settled.pos /\ lz.mask = settled.mask
  BY <1>4, <1>7, <1>8 DEF Lives
<1> HIDE DEF lw, lz
<1>10. Coherent(lw) /\ Reads(lw) = Reads(settled) /\ Alike(settled.store, lw.store)
  BY <1>2, <1>4, <1>7, <1>9, ReheldQuiet
<1>11. Coherent(lz) /\ Reads(lz) = Reads(lw) /\ Alike(lw.store, lz.store)
  BY <1>2, <1>8, <1>9, <1>10, ReheldQuiet
<1>12. Alike(live.store, lz.store)
  BY <1>4, <1>10, <1>11, AlikeTrans
<1> QED BY <1>4, <1>5, <1>9, <1>10, <1>11, <1>12 DEF n

LEMMA SwitchEither ==
  ASSUME Switch
  PROVE  \/ steps' = steps /\ cursor' = cursor
         \/ steps' = <<>> /\ cursor' = 0
BY DEF Switch, Called

LEMMA SwitchLeaves ==
  ASSUME Inv, NEW ds, Valued(ds), Switch, steps' = steps, cursor' = cursor
  PROVE  Valued(ds)'
<1>1. PICK nm : Named(nm) /\ live \in Lives(nm, used.toks) /\ used.toks \in Nat
  BY StoredAs
<1>2. /\ live' \in Lives(nm, used.toks) /\ Coherent(live') /\ Reads(live') = Reads(live)
      /\ Alike(live.store, live'.store)
  BY <1>1, SwitchQuiet
<1>3. ~open /\ used' = [used EXCEPT !.calls = @ + 1] /\ open' = open
  BY DEF Switch, Called
<1>4. used'.toks = used.toks
  BY <1>3 DEF Inv, Logged, Uses
<1> QED BY <1>1, <1>2, <1>3, <1>4, QuietValues

LEMMA SwitchStarts ==
  ASSUME Inv, NEW ds, Valued(ds), Switch, steps' = <<>>, cursor' = 0, NEW es, es = Alone(live)
  PROVE  Valued(es)'
<1>1. PICK nm : Named(nm) /\ live \in Lives(nm, used.toks) /\ used.toks \in Nat
  BY StoredAs
<1>2. /\ live' \in Lives(nm, used.toks) /\ Coherent(live') /\ Reads(live') = Reads(live)
      /\ Alike(live.store, live'.store)
  BY <1>1, SwitchQuiet
<1>3. ~open /\ open' = open /\ Len(steps) \in Nat
  BY DEF Switch, Called, Inv, Logged
<1>4. Chain(ds, live, steps, cursor, TRUE) /\ Coherent(live)
  BY <1>3, ClosedHas
<1>5. es = Alone(live')
  BY <1>2 DEF Alone
<1>6. Chain(Alone(live), live, <<>>, 0, TRUE)
  BY <1>1, <1>3, <1>4, RereadStart
<1>7. Chain(es, live', <<>>, 0, TRUE)
  <2>1. Len(<<>>) = 0 /\ Chain(es, live, <<>>, 0, TRUE)
    BY <1>6
  <2> QED BY <1>2, <2>1 DEF Chain
<1>8. open' = FALSE /\ \A k \in 1 .. Len(steps') : SoundStep(steps'[k], used'.toks)
  BY <1>3 DEF Inv, Logged
<1>9. Chain(es, live', steps', cursor', TRUE)
  BY <1>7
<1> QED BY <1>2, <1>8, <1>9, ClosedValues

-----------------------------------------------------------------------------
(* A channel less.                                                         *)

\* Store u has what s has but the channel of this name.
Fewer(s, u, name) ==
  /\ FindChannel(u, name) = 0
  /\ \A x : x # name => /\ FindChannel(u, x) = 0 <=> FindChannel(s, x) = 0
                        /\ FindChannel(s, x) # 0 => u[FindChannel(u, x)] = s[FindChannel(s, x)]

LEMMA FewerFinds ==
  ASSUME NEW nm, Named(nm), NEW n \in Nat, NEW s \in Store(nm, n), NEW c \in DOMAIN nm,
         NEW nu, Named(nu), NEW u \in Store(nu, n), NEW from,
         \A i \in DOMAIN nu : from[i] \in DOMAIN nm /\ from[i] # c /\ u[i] = s[from[i]],
         \A k \in DOMAIN nm : k # c => \E i \in DOMAIN nu : from[i] = k
  PROVE  Fewer(s, u, nm[c])
<1>1. \A i \in DOMAIN nu : nu[i] = nm[from[i]]
  <2> TAKE i \in DOMAIN nu
  <2>1. u[i].name = nu[i] /\ s[from[i]].name = nm[from[i]]
    BY StoreHas
  <2> QED BY <2>1
<1>2. \A a, b \in DOMAIN nm : nm[a] = nm[b] => a = b
  BY DEF Named
<1>3. FindChannel(u, nm[c]) = 0
  BY <1>1, <1>2, FindIs
<1>4. ASSUME NEW x, x # nm[c]
      PROVE  /\ FindChannel(u, x) = 0 <=> FindChannel(s, x) = 0
             /\ FindChannel(s, x) # 0 => u[FindChannel(u, x)] = s[FindChannel(s, x)]
  <2>1. CASE FindChannel(s, x) = 0
    <3>1. \A k \in DOMAIN nm : nm[k] # x
      BY <2>1, FindIs
    <3>2. \A i \in DOMAIN nu : nu[i] # x
      BY <1>1, <3>1
    <3> QED BY <2>1, <3>2, FindIs
  <2>2. CASE FindChannel(s, x) # 0
    <3>1. PICK k \in DOMAIN nm : nm[k] = x /\ FindChannel(s, x) = k /\ k # c
      BY <1>4, <2>2, FindIs
    <3>2. PICK i \in DOMAIN nu : from[i] = k
      BY <3>1
    <3>3. nu[i] = x
      BY <1>1, <3>1, <3>2
    <3>4. FindChannel(u, x) = i /\ i # 0
      BY <3>3, FindAt
    <3> QED BY <2>2, <3>1, <3>2, <3>4
  <2> QED BY <2>1, <2>2
<1> QED BY <1>3, <1>4 DEF Fewer

LEMMA FewerPatches ==
  ASSUME NEW s, NEW u, NEW name \in DOMAIN Layers, Fewer(s, u, name), NEW n, NEW step, SoundStep(step, n),
         NEW p \in Spots
  PROVE  Patches(u, step, p) = IF p = <<name, L>> THEN {} ELSE Patches(s, step, p)
<1>5. name # "mask" /\ name # "co"
  BY LogAssumption
<1>1. ASSUME NEW id, id.name # name
      PROVE  Resolve(u, id) = 0 <=> Resolve(s, id) = 0
  <2>1. /\ FindChannel(u, id.name) = 0 <=> FindChannel(s, id.name) = 0
        /\ FindChannel(s, id.name) # 0 => u[FindChannel(u, id.name)] = s[FindChannel(s, id.name)]
    BY <1>1 DEF Fewer
  <2> QED BY <2>1 DEF Resolve
<1>2. CASE p = Pos
  <2>1. p # <<name, L>>
    BY <1>2, <1>5 DEF Pos
  <2> QED BY <1>2, <2>1 DEF Patches
<1>3. CASE p = Dense
  <2>1. \A k \in step.mask : Resolve(u, k.id) = 0 <=> Resolve(s, k.id) = 0
    BY <1>1, <1>5 DEF SoundStep
  <2>2. {k \in step.mask : Resolve(u, k.id) # 0} = {k \in step.mask : Resolve(s, k.id) # 0}
    BY <2>1
  <2>3. p # Pos /\ p # <<name, L>>
    BY <1>3, <1>5, SpotsAre DEF Dense
  <2> QED BY <1>3, <2>2, <2>3 DEF Patches
<1>4. CASE p \in InStore
  <2>1. CASE p[1] = name
    <3>1. p = <<name, L>>
      <4>1. p = <<p[1], p[2]>> /\ (p[2] # L => p[1] = "mask")
        BY <1>4, SpotsAre
      <4> QED BY <1>5, <2>1, <4>1
    <3>2. FindChannel(u, p[1]) = 0
      BY <2>1 DEF Fewer
    <3> QED BY <1>4, <3>1, <3>2, NoPatches
  <2>2. CASE p[1] # name
    <3>1. \A bs : Here(u, bs, p) = Here(s, bs, p)
      BY <1>1, <2>2 DEF Here
    <3>2. p # Pos /\ p # Dense
      BY <1>4, SpotsAre
    <3>3. p # <<name, L>>
      BY <2>2
    <3> HIDE DEF Patches
    <3>4. Patches(u, step, p) = Patches(s, step, p)
      BY <3>1, <3>2 DEF Patches
    <3> QED BY <3>3, <3>4
  <2> QED BY <2>1, <2>2
<1> QED BY <1>2, <1>3, <1>4, SpotsAre

\* A reading after the channel is gone.
Without(d, name) == [p \in Spots |-> IF p = <<name, L>> THEN Seed(name, L) ELSE d[p]]

LEMMA WithoutIs ==
  ASSUME NEW name \in DOMAIN Layers, NEW d, Reading(d)
  PROVE  Reading(Without(d, name)) /\ (Calm(d) => Calm(Without(d, name)))
<1> DEFINE e == Without(d, name)
           q == <<name, L>>
<1>1. name \in Names /\ name # "mask" /\ q \in InStore /\ q # Pos /\ q # Dense /\ L \in Nat /\ L \in Levels
  BY LogAssumption, SpotsAre DEF Names, Levels
<1>2. DOMAIN e = Spots /\ e = [p \in Spots |-> e[p]]
      /\ \A p \in Spots : e[p] = IF p = q THEN Seed(name, L) ELSE d[p]
  BY DEF Without
<1>3. q \in Spots /\ q[2] = L
  BY <1>1, SpotsAre
<1>4. Seed(name, L) \in [Sites -> Sample(L)] /\ \A x, y \in Sites : Seed(name, L)[x] = Seed(name, L)[y]
  <2>1. Seed(name, L) \in [Sites -> Sample(L)]
    BY <1>1, SeedIs
  <2> QED BY <2>1 DEF Seed
<1> HIDE DEF e, q
<1>5. Reading(e)
  <2>1. \A p \in Spots : d[p] \in ReadingAt(p)
    BY DEF Reading
  <2>2. ReadingAt(q) = [Sites -> Sample(L)]
    BY <1>1, <1>3 DEF ReadingAt
  <2> QED BY <1>2, <1>4, <2>1, <2>2 DEF Reading
<1>6. ASSUME Calm(d) PROVE Calm(e)
  <2>1. e[Dense] = d[Dense] /\ e[<<"mask", L>>] = d[<<"mask", L>>]
    <3>1. <<"mask", L>> \in Spots /\ <<"mask", L>> # q /\ Dense \in Spots
      BY <1>1, SpotsAre DEF q, Names
    <3> QED BY <1>1, <1>2, <3>1
  <2>2. \A p \in InStore : p \in Spots
    BY SpotsAre
  <2> QED BY <1>2, <1>4, <1>6, <2>1, <2>2 DEF Calm
<1> QED BY <1>5, <1>6 DEF e

LEMMA WithoutLeads ==
  ASSUME NEW s, NEW u, NEW name \in DOMAIN Layers, Fewer(s, u, name), NEW n, NEW step, SoundStep(step, n),
         NEW d, NEW e, Leads(s, step, d, e)
  PROVE  Leads(u, step, Without(d, name), Without(e, name))
<1> SUFFICES ASSUME NEW p \in Spots
             PROVE  Patched(Patches(u, step, p), Without(d, name)[p], Without(e, name)[p])
  BY DEF Leads
<1>2. Patches(u, step, p) = IF p = <<name, L>> THEN {} ELSE Patches(s, step, p)
  BY FewerPatches
<1>3. CASE p = <<name, L>>
  BY <1>2, <1>3 DEF Without, Patched
<1>4. CASE p # <<name, L>>
  <2>1. Without(d, name)[p] = d[p] /\ Without(e, name)[p] = e[p]
    BY <1>4 DEF Without
  <2>2. Patched(Patches(s, step, p), d[p], e[p])
    BY DEF Leads
  <2> QED BY <1>2, <1>4, <2>1, <2>2
<1> QED BY <1>3, <1>4

Sans(lv, c) == [lv EXCEPT !.store = RemoveChannel(@, c)]

LEMMA RemoveReads ==
  ASSUME NEW nm, Named(nm), NEW n \in Nat, NEW lv \in Lives(nm, n), Coherent(lv),
         NEW name \in DOMAIN Layers, NEW c, c = FindChannel(lv.store, name), c # 0,
         NEW r, r = Sans(lv, c)
  PROVE  /\ \E nu : Named(nu) /\ r \in Lives(nu, n)
         /\ Fewer(lv.store, r.store, name) /\ Coherent(r) /\ Reads(r) = Without(Reads(lv), name)
<1> DEFINE s == lv.store
           u == RemoveChannel(s, c)
<1>1. lv.store \in Store(nm, n) /\ lv = [store |-> lv.store, pos |-> lv.pos, owes |-> lv.owes, mask |-> lv.mask]
  BY DEF Lives
<1>2. c \in DOMAIN nm /\ nm[c] = name
  BY <1>1, FindIs
<1>3. Sound(s) /\ Seamless(s) /\ \A l \in Levels : l = L \/ lv.mask[l] = None \/ lv.mask[l] = MaskOf(s, l)
  BY DEF Coherent
<1>4. c # 1 /\ name # "mask" /\ name \in Names /\ name # "disp" /\ name # "co"
  <2>1. name # "disp" /\ name # "mask" /\ name # "co" /\ name \in Names
    BY LogAssumption DEF Names
  <2>2. s[c].name = name
    BY <1>1, <1>2, StoreHas
  <2> QED BY <1>3, <2>1, <2>2 DEF Sound
<1>5. r.store = u /\ r.pos = lv.pos /\ r.owes = lv.owes /\ r.mask = lv.mask
      /\ r = [store |-> u, pos |-> lv.pos, owes |-> lv.owes, mask |-> lv.mask]
  BY <1>1 DEF Sans
<1>16. s \in Store(nm, n) /\ s = lv.store
  BY <1>1
<1> HIDE DEF s
<1>17. u = RemoveChannel(s, c)
  OBVIOUS
<1> HIDE DEF u
<1>19. PICK nu, from : Named(nu) /\ u \in Store(nu, n) /\ Shrunk(s, nm, c, u, nu, from)
  BY <1>2, <1>4, <1>16, <1>17, RemovedFrom
<1>18. Named(nu) /\ u \in Store(nu, n)
  BY <1>19
<1>6. /\ u \in Store(nu, n)
      /\ \A i \in DOMAIN nu : from[i] \in DOMAIN nm /\ from[i] # c /\ u[i] = s[from[i]]
      /\ \A i, j \in DOMAIN nu : from[i] = from[j] => i = j
      /\ \A k \in DOMAIN nm : k # c => \E i \in DOMAIN nu : from[i] = k
      /\ 1 \in DOMAIN nu /\ from[1] = 1
  BY <1>19 DEF Shrunk
<1>7. s \in Store(nm, n) /\ s = lv.store /\ DOMAIN s = DOMAIN nm /\ DOMAIN u = DOMAIN nu
  BY <1>16, <1>18, StoreForm
<1>8. Fewer(s, u, name)
  BY <1>2, <1>6, <1>7, <1>18, FewerFinds
<1>9. r \in Lives(nu, n)
  BY <1>5, <1>6 DEF Lives
<1>10. Sound(u)
  <2>1. u[1].name = "disp"
    BY <1>3, <1>6 DEF Sound
  <2>2. \A i, j \in DOMAIN nu : u[i].levels[L].tok = u[j].levels[L].tok => i = j
    BY <1>3, <1>6, <1>7 DEF Sound
  <2>3. \A i \in DOMAIN nu : u[i].levels[L].held = "none" => u[i].name = "mask"
    BY <1>3, <1>6, <1>7 DEF Sound
  <2>4. \A i \in DOMAIN nu : \A l \in Levels : u[i].levels[l].held = "none" => u[i].levels[l].val = Blank(l)
    BY <1>3, <1>6, <1>7 DEF Sound
  <2> QED BY <1>7, <2>1, <2>2, <2>3, <2>4 DEF Sound
<1>11. Seamless(u)
  BY <1>3, <1>6, <1>7 DEF Seamless
<1>12. ASSUME NEW x \in Names, NEW l \in Levels, x # name PROVE Raw(u, x, l) = Raw(s, x, l)
  BY <1>8, <1>12 DEF Fewer, Raw
<1>13. \A l \in Levels : MaskOf(u, l) = MaskOf(s, l)
  <2> TAKE l \in Levels
  <2>1. MaskOf(u, l) = MaskFrom(Raw(u, "mask", l)) /\ MaskOf(s, l) = MaskFrom(Raw(s, "mask", l))
    <3>1. Sound(s) /\ Sound(u)
      BY <1>3, <1>10
    <3> QED BY <1>16, <1>18, <3>1, MaskRaw
  <2>2. Raw(u, "mask", l) = Raw(s, "mask", l)
    BY <1>4, <1>12 DEF Names
  <2> QED BY <2>1, <2>2
<1>14. Coherent(r)
  BY <1>3, <1>5, <1>10, <1>11, <1>13 DEF Coherent
<1>15. Reads(r) = Without(Reads(lv), name)
  <2>1. Reading(Reads(r)) /\ Reads(r)[Pos] = r.pos /\ Reads(r)[Dense] = r.mask[L]
        /\ \A p \in InStore : Reads(r)[p] = Raw(u, p[1], p[2])
    <3>1. Reading(Reads(r)) /\ Reads(r)[Pos] = r.pos /\ Reads(r)[Dense] = r.mask[L]
          /\ \A p \in InStore : Reads(r)[p] = Raw(r.store, p[1], p[2])
      BY <1>9, <1>18, ReadsAre
    <3> QED BY <1>5, <3>1
  <2>2. Reading(Reads(lv)) /\ Reads(lv)[Pos] = lv.pos /\ Reads(lv)[Dense] = lv.mask[L]
        /\ \A p \in InStore : Reads(lv)[p] = Raw(s, p[1], p[2])
    BY <1>7, ReadsAre
  <2> DEFINE e == Without(Reads(lv), name)
  <2>3. Reading(e)
    BY <2>2, WithoutIs
  <2>4. \A p \in Spots : e[p] = IF p = <<name, L>> THEN Seed(name, L) ELSE Reads(lv)[p]
    BY DEF Without
  <2> HIDE DEF e
  <2>5. <<name, L>> \in InStore
    BY <1>4, SpotsAre
  <2>6. ASSUME NEW p \in Spots PROVE Reads(r)[p] = e[p]
    <3>1. CASE p = Pos
      BY <1>5, <2>1, <2>2, <2>4, <2>5, <3>1, SpotsAre
    <3>2. CASE p = Dense
      BY <1>5, <2>1, <2>2, <2>4, <2>5, <3>2, SpotsAre
    <3>3. CASE p = <<name, L>>
      <4>1. Reads(r)[p] = Raw(u, name, L)
        BY <2>1, <2>5, <3>3
      <4>2. Raw(u, name, L) = Seed(name, L)
        BY <1>8 DEF Raw, Fewer
      <4> QED BY <2>4, <3>3, <4>1, <4>2
    <3>4. CASE p \in InStore /\ p # <<name, L>>
      <4>1. p = <<p[1], p[2]>> /\ p[1] \in Names /\ p[2] \in Levels /\ (p[2] # L => p[1] = "mask")
        BY <3>4, SpotsAre
      <4>2. p[1] # name
        BY <1>4, <3>4, <4>1
      <4>3. Raw(u, p[1], p[2]) = Raw(s, p[1], p[2])
        BY <1>12, <4>1, <4>2
      <4> QED BY <2>1, <2>2, <2>4, <3>4, <4>3
    <3> QED BY <3>1, <3>2, <3>3, <3>4, SpotsAre
  <2>7. Reads(r) = e
    BY <2>1, <2>3, <2>6, ReadingsEqual
  <2> QED BY <2>7 DEF e
<1>20. Fewer(lv.store, r.store, name)
  BY <1>5, <1>7, <1>8
<1> QED BY <1>9, <1>14, <1>15, <1>18, <1>20

Removes(name) ==
  /\ FindChannel(live.store, name) # 0
  /\ live' = [live EXCEPT !.store = RemoveChannel(@, FindChannel(live.store, name))]

LEMMA RemoveLayerValues ==
  ASSUME Inv, NEW ds, Valued(ds), RemoveLayer, NEW name \in Removable, Removes(name),
         NEW es, es = [k \in 1 .. Len(steps) + 1 |-> Without(ds[k], name)]
  PROVE  Valued(es)' /\ Fewer(live.store, live'.store, name)
<1>1. /\ FindChannel(live.store, name) # 0
      /\ live' = [live EXCEPT !.store = RemoveChannel(@, FindChannel(live.store, name))]
  BY DEF Removes
<1>2. /\ ~open /\ used' = [used EXCEPT !.calls = @ + 1]
      /\ UNCHANGED <<open, stroke, steps, cursor, floor>>
  BY DEF RemoveLayer, Called
<1>3. name \in DOMAIN Layers
  BY <1>1, LogAssumption
<1>4. PICK nm : Named(nm) /\ live \in Lives(nm, used.toks) /\ used.toks \in Nat
  BY StoredAs
<1>5. /\ Chain(ds, live, steps, cursor, TRUE) /\ Coherent(live)
      /\ \A k \in 1 .. Len(steps) : SoundStep(steps[k], used.toks)
  BY <1>2, ClosedHas
<1>6. /\ Fewer(live.store, live'.store, name) /\ Coherent(live')
      /\ Reads(live') = Without(Reads(live), name)
  <2> DEFINE c == FindChannel(live.store, name)
             r == Sans(live, c)
  <2>1. c = FindChannel(live.store, name) /\ c # 0 /\ live' = r
    BY <1>1 DEF Sans
  <2>2. r = Sans(live, c)
    OBVIOUS
  <2>3. Coherent(live)
    BY <1>5
  <2> HIDE DEF c, r
  <2>4. /\ \E nu : Named(nu) /\ r \in Lives(nu, used.toks)
        /\ Fewer(live.store, r.store, name) /\ Coherent(r) /\ Reads(r) = Without(Reads(live), name)
    BY <1>3, <1>4, <2>1, <2>2, <2>3, RemoveReads
  <2> QED BY <2>1, <2>4
<1>7. Len(steps) \in Nat /\ cursor \in 0 .. Len(steps) /\ open = FALSE
  BY <1>2 DEF Inv, Logged
<1>8. DOMAIN es = 1 .. Len(steps) + 1 /\ \A k \in 1 .. Len(steps) + 1 : es[k] = Without(ds[k], name)
  OBVIOUS
<1>9. Chain(es, live', steps, cursor, TRUE)
  <2>1. \A k \in 1 .. Len(steps) + 1 : Reading(ds[k]) /\ Calm(ds[k])
    BY <1>5 DEF Chain
  <2>2. \A k \in 1 .. Len(steps) + 1 : Reading(es[k]) /\ Calm(es[k])
    BY <1>3, <1>8, <2>1, WithoutIs
  <2>3. es[cursor + 1] = Reads(live')
    <3>1. cursor + 1 \in 1 .. Len(steps) + 1 /\ ds[cursor + 1] = Reads(live)
      BY <1>5, <1>7 DEF Chain
    <3> QED BY <1>6, <1>8, <3>1
  <2>4. ASSUME NEW k \in 1 .. Len(steps)
        PROVE  /\ k <= cursor => Leads(live'.store, steps[k], es[k], es[k + 1])
               /\ k > cursor => Leads(live'.store, steps[k], es[k + 1], es[k])
    <3>1. /\ k <= cursor => Leads(live.store, steps[k], ds[k], ds[k + 1])
          /\ k > cursor => Leads(live.store, steps[k], ds[k + 1], ds[k])
      BY <1>5 DEF Chain
    <3>2. es[k] = Without(ds[k], name) /\ es[k + 1] = Without(ds[k + 1], name)
      BY <1>7, <1>8
    <3>3. SoundStep(steps[k], used.toks)
      BY <1>5
    <3> QED BY <1>3, <1>6, <3>1, <3>2, <3>3, WithoutLeads
  <2> QED BY <1>7, <1>8, <2>2, <2>3, <2>4 DEF Chain
<1>10. open' = FALSE /\ steps' = steps /\ cursor' = cursor /\ used'.toks = used.toks
  BY <1>2, <1>7 DEF Inv, Logged, Uses
<1>11. /\ Chain(es, live', steps', cursor', TRUE)
       /\ \A k \in 1 .. Len(steps') : SoundStep(steps'[k], used'.toks)
  BY <1>5, <1>9, <1>10
<1> QED BY <1>6, <1>10, <1>11, ClosedValues

-----------------------------------------------------------------------------
(* Channels made.                                                          *)

\* What a channel made for a field is, painted on or not.
Newborn(ch, name, tok) ==
  /\ ~(ch.tok < tok)
  /\ \A l \in Levels : /\ ch.levels[l].tok = ch.tok + l /\ ch.levels[l].owes = FALSE
                       /\ ch.levels[l].held = "none" => ch.levels[l].val = Blank(l)
                       /\ \A x, y \in Sites : ch.levels[l].val[x] = ch.levels[l].val[y]
                       /\ l = L \/ name = "mask" => ch.levels[l].val = Seed(name, l)
  /\ ch.levels[L].held = "none" => name = "mask"
\* Store u is s with channels made.
Made(nm, s, nu, u, tok) ==
  /\ \A c \in DOMAIN nm : c \in DOMAIN nu /\ nu[c] = nm[c] /\ u[c] = s[c]
  /\ \A i \in DOMAIN nu : i \notin DOMAIN nm => Newborn(u[i], nu[i], tok)
  /\ \A i, j \in DOMAIN nu : i \notin DOMAIN nm /\ j \notin DOMAIN nm /\ u[i].tok = u[j].tok => i = j
\* Channels found in s are found in u, others are new.
More(s, u, n) ==
  \A x : /\ FindChannel(s, x) # 0
              => FindChannel(u, x) = FindChannel(s, x) /\ u[FindChannel(u, x)] = s[FindChannel(s, x)]
         /\ FindChannel(s, x) = 0 /\ FindChannel(u, x) # 0 => ~(u[FindChannel(u, x)].tok < n)

\* A level that owes nothing.
Idle(x) == x.owes = FALSE

LEMMA FieldLevels ==
  ASSUME NEW name, NEW t, NEW ch, ch = FieldChannel(name, t)
  PROVE  /\ ch.name = name /\ ch.tok = t /\ DOMAIN ch.levels = Levels
         /\ \A l \in Levels : /\ ch.levels[l].tok = t + l /\ ch.levels[l].held = "none"
                              /\ ch.levels[l].val = Blank(l)
         /\ \A l \in Levels : Idle(ch.levels[l])
<1>1. ch.name = name /\ ch.tok = t /\ ch.levels = [l \in 1 .. Depth |-> AllocLevel("authored", l, t + l)]
  <2>1. CASE name = "mask"
    BY <2>1 DEF FieldChannel, NewChannel
  <2>2. CASE name # "mask"
    BY <2>2 DEF FieldChannel, NewChannel
  <2> QED BY <2>1, <2>2
<1> QED BY <1>1 DEF AllocLevel, Levels, Idle

LEMMA BlankIs ==
  ASSUME NEW l \in Levels
  PROVE  /\ \A x, y \in Sites : Blank(l)[x] = Blank(l)[y]
         /\ Seed("mask", l) = Blank(l)
         /\ \A n \in DOMAIN Layers : \A x, y \in Sites : Seed(n, l)[x] = Seed(n, l)[y]
<1>1. "mask" \notin DOMAIN Layers
  BY LogAssumption
<1> QED BY <1>1 DEF Blank, Seed

LEMMA FieldNewborn ==
  ASSUME NEW tok, NEW t, ~(t < tok), NEW ch, ch = FieldChannel("mask", t)
  PROVE  Newborn(ch, "mask", tok)
<1>1. /\ ch.tok = t
      /\ \A l \in Levels : /\ ch.levels[l].tok = t + l /\ ch.levels[l].held = "none"
                           /\ ch.levels[l].val = Blank(l)
      /\ \A l \in Levels : Idle(ch.levels[l])
  BY FieldLevels
<1> QED BY <1>1, BlankIs DEF Newborn, Idle

\* A channel like another, its level l with the value v.
Revalued(a, b, l, v) ==
  /\ b.name = a.name /\ b.tok = a.tok /\ b.type = a.type /\ b.rule = a.rule /\ b.persist = a.persist
  /\ DOMAIN b.levels = DOMAIN a.levels
  /\ b.levels[l].val = v /\ b.levels[l].held = "chunks" /\ b.levels[l].tok = a.levels[l].tok
  /\ b.levels[l].owes = a.levels[l].owes
  /\ \A k \in DOMAIN a.levels : k # l => b.levels[k] = a.levels[k]

LEMMA RetouchedHas ==
  ASSUME NEW D \in Nat, NEW n \in Nat, NEW ch \in Channel(D, n), NEW l \in 1 .. D, NEW v,
         NEW r, r = [Touched(ch, l) EXCEPT !.levels[l].val = v]
  PROVE  Revalued(ch, r, l, v)
<1> DEFINE p == [ch.levels[l] EXCEPT !.held = "chunks"]
           f == [ch.levels EXCEPT ![l] = p]
           q == [p EXCEPT !.val = v]
           g == [f EXCEPT ![l] = q]
           t == Touched(ch, l)
<1>1. ch.levels \in LevelsTo(D, n) /\ DOMAIN ch.levels = 1 .. D /\ ch.levels[l] \in LevelAt(l, n)
  BY ChannelLevels
<1>2. t = [ch EXCEPT !.levels = f]
  BY <1>1 DEF Touched, Channel
<1>3. /\ t.levels = f /\ t.name = ch.name /\ t.tok = ch.tok /\ t.type = ch.type /\ t.rule = ch.rule
      /\ t.persist = ch.persist
      /\ t = [name |-> t.name, type |-> t.type, rule |-> t.rule, persist |-> t.persist, tok |-> t.tok,
              levels |-> t.levels]
  BY <1>2 DEF Channel
<1>4. p.held = "chunks" /\ p.tok = ch.levels[l].tok /\ p.owes = ch.levels[l].owes
      /\ q.val = v /\ q.held = "chunks" /\ q.tok = ch.levels[l].tok /\ q.owes = ch.levels[l].owes
  BY <1>1 DEF LevelAt
<1>5. r = [t EXCEPT !.levels[l].val = v]
  OBVIOUS
<1> HIDE DEF t
<1>6. f[l] = p
  BY <1>1
<1> HIDE DEF p
<1>7. r = [t EXCEPT !.levels = g]
  BY <1>1, <1>3, <1>5, <1>6
<1>8. r.levels = g /\ r.name = t.name /\ r.tok = t.tok /\ r.type = t.type /\ r.rule = t.rule
      /\ r.persist = t.persist
  BY <1>3, <1>7
<1> HIDE DEF q
<1>9. g[l] = q /\ DOMAIN g = 1 .. D /\ \A k \in 1 .. D : k # l => g[k] = ch.levels[k]
  BY <1>1
<1> HIDE DEF f, g
<1> QED BY <1>1, <1>3, <1>4, <1>8, <1>9 DEF Revalued

LEMMA SeededNewborn ==
  ASSUME NEW n \in Nat, NEW name \in {"mask"} \cup DOMAIN Layers, NEW tok, NEW t, ~(t < tok),
         NEW b \in Channel(Depth, n), b = FieldChannel(name, t), NEW ch, ch = Seeded(b)
  PROVE  Newborn(ch, name, tok)
<1>1. /\ b.name = name /\ b.tok = t /\ DOMAIN b.levels = Levels
      /\ \A l \in Levels : /\ b.levels[l].tok = t + l /\ b.levels[l].held = "none"
                           /\ b.levels[l].val = Blank(l)
      /\ \A l \in Levels : Idle(b.levels[l])
  BY FieldLevels
<1>2. CASE name = "mask"
  <2>1. ch = b
    BY <1>1, <1>2 DEF Seeded
  <2> QED BY <1>2, <2>1, FieldNewborn
<1>3. CASE name # "mask"
  <2>1. name \in DOMAIN Layers /\ L \in Levels
    BY <1>3, LogAssumption DEF Levels
  <2>2. ch = [Touched(b, L) EXCEPT !.levels[L].val = Seed(b.name, L)]
    BY <1>1, <1>3, <2>1 DEF Seeded
  <2>3. ch = [Touched(b, L) EXCEPT !.levels[L].val = Seed(name, L)] /\ Depth \in Nat /\ L \in 1 .. Depth
    BY <1>1, <2>1, <2>2, LogAssumption
  <2>4. Revalued(b, ch, L, Seed(name, L))
    BY <2>3, RetouchedHas
  <2>5. /\ ch.tok = b.tok /\ ch.levels[L].val = Seed(name, L) /\ ch.levels[L].held = "chunks"
        /\ ch.levels[L].tok = b.levels[L].tok /\ ch.levels[L].owes = b.levels[L].owes
        /\ \A l \in Levels : l # L => ch.levels[l] = b.levels[l]
    BY <1>1, <2>4 DEF Revalued
  <2>8. ASSUME NEW l \in Levels
        PROVE  /\ ch.levels[l].tok = ch.tok + l /\ ch.levels[l].owes = FALSE
               /\ ch.levels[l].held = "none" => ch.levels[l].val = Blank(l)
               /\ \A x, y \in Sites : ch.levels[l].val[x] = ch.levels[l].val[y]
               /\ l = L \/ name = "mask" => ch.levels[l].val = Seed(name, l)
    <3>1. CASE l = L
      BY <1>1, <2>1, <2>5, <3>1, BlankIs DEF Idle
    <3>2. CASE l # L
      BY <1>1, <1>3, <2>5, <3>2, BlankIs DEF Idle
    <3> QED BY <3>1, <3>2
  <2>9. ch.levels[L].held # "none" /\ ~(ch.tok < tok)
    BY <1>1, <2>5
  <2> QED BY <2>8, <2>9 DEF Newborn
<1> QED BY <1>2, <1>3

LEMMA EnsureMade ==
  ASSUME NEW nm, Named(nm), NEW tok \in Nat, NEW s \in Store(nm, tok),
         NEW u, u = EnsureChannels(s, {"mask"}, tok), NEW m, m = tok + (Len(u) - Len(s)) * (Depth + 1)
  PROVE  /\ m \in Nat /\ tok <= m
         /\ \E nu : /\ Named(nu) /\ u \in Store(nu, m) /\ Made(nm, s, nu, u, tok)
                    /\ \E c \in DOMAIN nu : nu[c] = "mask"
<1> DEFINE ns == {"mask"}
<1>1. ns \in SUBSET ({"mask"} \cup DOMAIN Layers) /\ u = EnsureChannels(s, ns, tok)
  OBVIOUS
<1>2. \A x \in ns : x = "mask"
  OBVIOUS
<1>3. "mask" \in ns
  OBVIOUS
<1> HIDE DEF ns
<1>4. m \in Nat /\ tok <= m
      /\ \E nu : /\ Named(nu) /\ u \in Store(nu, m) /\ Wider(nm, s, nu, u, ns, tok)
                 /\ \A n \in ns : \E c \in DOMAIN nu : nu[c] = n
  BY <1>1, ChannelsAdded
<1>5. PICK nu : /\ Named(nu) /\ u \in Store(nu, m) /\ Wider(nm, s, nu, u, ns, tok)
                /\ \A n \in ns : \E c \in DOMAIN nu : nu[c] = n
  BY <1>4
<1>6. ASSUME NEW i \in DOMAIN nu, i \notin DOMAIN nm PROVE Newborn(u[i], nu[i], tok)
  <2>1. nu[i] \in ns /\ u[i].tok >= tok /\ u[i] = FieldChannel(nu[i], u[i].tok)
    BY <1>5, <1>6 DEF Wider
  <2>2. u[i] \in Channel(Depth, m)
    BY <1>4, <1>5, StoreHas
  <2>3. u[i].tok \in Nat
    BY <1>4, <2>2 DEF Channel
  <2>4. nu[i] = "mask" /\ ~(u[i].tok < tok)
    BY <1>2, <2>1, <2>3
  <2> QED BY <2>1, <2>4, FieldNewborn
<1>7. Made(nm, s, nu, u, tok)
  BY <1>5, <1>6 DEF Wider, Made
<1> QED BY <1>3, <1>4, <1>5, <1>7

LEMMA EnsuredMade ==
  ASSUME NEW nm, Named(nm), NEW tok \in Nat, NEW s \in Store(nm, tok), Sound(s),
         NEW ns \in SUBSET ({"mask"} \cup DOMAIN Layers),
         NEW u, u = Ensured(s, ns, tok), NEW m, m = tok + (Len(u) - Len(s)) * (Depth + 1)
  PROVE  /\ m \in Nat /\ tok <= m
         /\ \E nu : /\ Named(nu) /\ u \in Store(nu, m) /\ Made(nm, s, nu, u, tok)
                    /\ \A n \in ns : \E c \in DOMAIN nu : nu[c] = n
<1> DEFINE w == EnsureChannels(s, ns, tok)
           k == tok + (Len(w) - Len(s)) * (Depth + 1)
<1>1. w = EnsureChannels(s, ns, tok) /\ k = tok + (Len(w) - Len(s)) * (Depth + 1)
  OBVIOUS
<1>2. u = [c \in DOMAIN w |-> IF w[c].name \in ns THEN Seeded(w[c]) ELSE w[c]]
  BY DEF Ensured, EachChannel
<1> HIDE DEF w, k
<1>3. k \in Nat /\ tok <= k
      /\ \E nu : /\ Named(nu) /\ w \in Store(nu, k) /\ Wider(nm, s, nu, w, ns, tok)
                 /\ \A n \in ns : \E c \in DOMAIN nu : nu[c] = n
  BY <1>1, ChannelsAdded
<1>4. PICK nu : /\ Named(nu) /\ w \in Store(nu, k) /\ Wider(nm, s, nu, w, ns, tok)
                /\ \A n \in ns : \E c \in DOMAIN nu : nu[c] = n
  BY <1>3
<1>5. /\ w \in Seq(Channel(Depth, k)) /\ Len(w) = Len(nu) /\ DOMAIN w = 1 .. Len(nu)
      /\ DOMAIN nu = 1 .. Len(nu) /\ Len(nu) \in Nat
  BY <1>3, <1>4, StoreSeq
<1>6. Len(u) = Len(w) /\ m = k
  <2>1. DOMAIN u = 1 .. Len(nu)
    BY <1>2, <1>5
  <2>2. Len(u) = Len(nu)
    BY <1>2, <1>5, <2>1
  <2> QED BY <1>1, <1>5, <2>2
<1>7. u \in Store(nu, m)
  <2> DEFINE g == [c \in DOMAIN nu |-> IF w[c].name \in ns THEN Seeded(w[c]) ELSE w[c]]
  <2>1. \A c \in DOMAIN nu : g[c] \in Channel(Depth, k) /\ g[c].name = w[c].name
    <3>1. \A c \in DOMAIN nu : w[c] \in Channel(Depth, k)
      BY <1>3, <1>4, StoreHas
    <3>2. \A c \in DOMAIN nu : Seeded(w[c]) \in Channel(Depth, k) /\ Seeded(w[c]).name = w[c].name
      BY <1>3, <3>1, SeededChannel
    <3> QED BY <3>1, <3>2
  <2>2. u = [c \in DOMAIN w |-> g[c]]
    BY <1>2, <1>5
  <2> HIDE DEF g
  <2>3. [c \in DOMAIN w |-> g[c]] \in Store(nu, k)
    BY <1>3, <1>4, <2>1, EachIs
  <2> QED BY <1>6, <2>2, <2>3
<1>8. \A c \in DOMAIN nm : c \in DOMAIN nu /\ nu[c] = nm[c] /\ u[c] = s[c]
  <2> TAKE c \in DOMAIN nm
  <2>1. c \in DOMAIN nu /\ nu[c] = nm[c] /\ w[c] = s[c]
    BY <1>4 DEF Wider
  <2>2. s[c].levels[L].held = "none" => s[c].name = "mask"
    BY StoreForm DEF Sound
  <2>3. Seeded(s[c]) = s[c]
    BY <2>2 DEF Seeded
  <2> QED BY <1>2, <1>5, <2>1, <2>3
<1>9. ASSUME NEW i \in DOMAIN nu, i \notin DOMAIN nm
      PROVE  Newborn(u[i], nu[i], tok) /\ u[i].tok = w[i].tok
  <2>1. nu[i] \in ns /\ w[i].tok >= tok /\ w[i] = FieldChannel(nu[i], w[i].tok)
    BY <1>4, <1>9 DEF Wider
  <2>2. w[i] \in Channel(Depth, k) /\ w[i].name = nu[i]
    BY <1>3, <1>4, StoreHas
  <2>3. w[i].tok \in Nat
    BY <1>3, <2>2 DEF Channel
  <2>4. nu[i] \in {"mask"} \cup DOMAIN Layers /\ ~(w[i].tok < tok)
    <3>1. ~(w[i].tok < tok)
      BY <2>1, <2>3
    <3>2. nu[i] \in ns
      BY <2>1
    <3>3. nu[i] \in {"mask"} \cup DOMAIN Layers
      BY <3>2
    <3> QED BY <3>1, <3>3
  <2>5. u[i] = Seeded(w[i])
    BY <1>2, <1>5, <2>1, <2>2
  <2>6. Newborn(u[i], nu[i], tok)
    <3> DEFINE name == nu[i]
               b == w[i]
               t == b.tok
    <3>1. k \in Nat /\ name \in {"mask"} \cup DOMAIN Layers /\ ~(t < tok) /\ b \in Channel(Depth, k)
      BY <1>3, <2>2, <2>4
    <3>2. b = FieldChannel(name, t)
      BY <2>1
    <3> HIDE DEF name, t, b
    <3>3. Newborn(Seeded(b), name, tok)
      BY <3>1, <3>2, SeededNewborn
    <3> QED BY <2>5, <3>3 DEF name, b
  <2>7. u[i].tok = w[i].tok
    <3> DEFINE r == [Touched(w[i], L) EXCEPT !.levels[L].val = Seed(w[i].name, L)]
    <3>1. u[i] = w[i] \/ u[i] = r
      BY <2>5 DEF Seeded
    <3>2. Depth \in Nat /\ L \in 1 .. Depth /\ r = [Touched(w[i], L) EXCEPT !.levels[L].val = Seed(w[i].name, L)]
      BY LogAssumption
    <3> HIDE DEF r
    <3>3. Revalued(w[i], r, L, Seed(w[i].name, L))
      BY <1>3, <2>2, <3>2, RetouchedHas
    <3> QED BY <3>1, <3>3 DEF Revalued
  <2> QED BY <2>6, <2>7
<1>10. Made(nm, s, nu, u, tok)
  <2>1. \A i, j \in DOMAIN nu : i \notin DOMAIN nm /\ j \notin DOMAIN nm /\ w[i].tok = w[j].tok => i = j
    BY <1>4 DEF Wider
  <2> QED BY <1>8, <1>9, <2>1 DEF Made
<1> QED BY <1>3, <1>4, <1>6, <1>7, <1>10

LEMMA MadeFinds ==
  ASSUME NEW nm, Named(nm), NEW n \in Nat, NEW s \in Store(nm, n), NEW nu, Named(nu), NEW m \in Nat,
         NEW u \in Store(nu, m), NEW tok, Made(nm, s, nu, u, tok)
  PROVE  More(s, u, tok)
<1> SUFFICES ASSUME NEW x
             PROVE  /\ FindChannel(s, x) # 0
                         => FindChannel(u, x) = FindChannel(s, x) /\ u[FindChannel(u, x)] = s[FindChannel(s, x)]
                    /\ FindChannel(s, x) = 0 /\ FindChannel(u, x) # 0 => ~(u[FindChannel(u, x)].tok < tok)
  BY DEF More
<1>1. CASE FindChannel(s, x) # 0
  <2>1. PICK c \in DOMAIN nm : nm[c] = x /\ FindChannel(s, x) = c
    BY <1>1, FindIs
  <2>2. c \in DOMAIN nu /\ nu[c] = x /\ u[c] = s[c]
    BY <2>1 DEF Made
  <2>3. FindChannel(u, x) = c
    BY <2>2, FindAt
  <2> QED BY <1>1, <2>1, <2>2, <2>3
<1>2. CASE FindChannel(s, x) = 0
  <2>1. CASE FindChannel(u, x) # 0
    <3>1. PICK i \in DOMAIN nu : nu[i] = x /\ FindChannel(u, x) = i
      BY <2>1, FindIs
    <3>2. \A c \in DOMAIN nm : nm[c] # x
      BY <1>2, FindIs
    <3>3. i \notin DOMAIN nm
      BY <3>1, <3>2 DEF Made
    <3>4. Newborn(u[i], nu[i], tok)
      BY <3>3 DEF Made
    <3> QED BY <1>2, <3>1, <3>4 DEF Newborn
  <2> QED BY <1>2, <2>1
<1> QED BY <1>1, <1>2

LEMMA MorePatches ==
  ASSUME NEW s, NEW u, NEW n, More(s, u, n), NEW step, SoundStep(step, n), NEW p
  PROVE  Patches(u, step, p) = Patches(s, step, p)
<1>1. ASSUME NEW id, id.chan < n PROVE Resolve(u, id) # 0 <=> Resolve(s, id) # 0
  <2>1. /\ FindChannel(s, id.name) # 0
              => FindChannel(u, id.name) = FindChannel(s, id.name)
                 /\ u[FindChannel(u, id.name)] = s[FindChannel(s, id.name)]
        /\ FindChannel(s, id.name) = 0 /\ FindChannel(u, id.name) # 0
              => ~(u[FindChannel(u, id.name)].tok < n)
    BY DEF More
  <2> QED BY <1>1, <2>1 DEF Resolve
<1>2. Here(u, step.blocks, p) = Here(s, step.blocks, p)
  <2>1. \A b \in step.blocks : b.id.chan < n
    BY DEF SoundStep
  <2> QED BY <1>1, <2>1 DEF Here
<1>3. Here(u, step.finer, p) = Here(s, step.finer, p)
  <2>1. \A b \in step.finer : b.id.chan < n
    BY DEF SoundStep
  <2> QED BY <1>1, <2>1 DEF Here
<1>4. {k \in step.mask : Resolve(u, k.id) # 0} = {k \in step.mask : Resolve(s, k.id) # 0}
  <2>1. \A k \in step.mask : k.id.chan < n
    BY DEF SoundStep
  <2> QED BY <1>1, <2>1
<1> QED BY <1>2, <1>3, <1>4 DEF Patches

LEMMA SoundStepGrows ==
  ASSUME NEW n \in Nat, NEW m \in Nat, n <= m, NEW step \in Step(n), SoundStep(step, n)
  PROVE  SoundStep(step, m)
<1>1. /\ \A k \in step.mask : k.id.chan \in Nat
      /\ \A k \in step.blocks : k.id.chan \in Nat
      /\ \A k \in step.finer : k.id.chan \in Nat
      /\ \A k \in step.preAttr \cup step.postAttr : k.id.chan \in Nat
  <2>1. /\ step.mask \in SUBSET MaskNodes /\ step.blocks \in SUBSET Blocks
        /\ step.finer \in SUBSET Finers(n) /\ step.preAttr \in SUBSET AllDebts
        /\ step.postAttr \in SUBSET AllDebts
    BY DEF Step
  <2>2. \A k \in MaskNodes : k.id.chan \in Nat
    BY DEF MaskNodes, IdsAt
  <2>3. \A k \in AllDebts : k.id.chan \in Nat
    BY DEF AllDebts, IdsAt
  <2>4. \A k \in Blocks : k.id.chan \in Nat
    BY BlocksOf DEF IdsAt
  <2>5. \A k \in Finers(n) : k.id.chan \in Nat
    BY FinersOf DEF IdsAt
  <2> QED BY <2>1, <2>2, <2>3, <2>4, <2>5
<1>2. \A c \in Nat : c < n => c < m
  OBVIOUS
<1>3. \A k \in step.mask : k.id.name = "mask" /\ k.id.chan < m
  BY <1>1, <1>2 DEF SoundStep
<1>4. \A b \in step.blocks : b.id.level = L /\ b.id.chan < m
  BY <1>1, <1>2 DEF SoundStep
<1>5. \A f \in step.finer :
       /\ f.id.name = "mask" /\ f.id.level > L /\ f.id.chan < m
       /\ f.whole => /\ f.state.tok = f.id.lev
                     /\ f.state.held = "none" => f.state.val = Blank(f.id.level)
       /\ \A b \in f.blocks : b.id = f.id
       /\ \A g \in step.finer : g.id.level = f.id.level => g = f
  BY <1>1, <1>2 DEF SoundStep
<1>6. \A d \in step.preAttr \cup step.postAttr : d.id.level = L /\ d.id.chan < m
  BY <1>1, <1>2 DEF SoundStep
<1> QED BY <1>3, <1>4, <1>5, <1>6 DEF SoundStep

LEMMA MadeSound ==
  ASSUME NEW nm, Named(nm), NEW n \in Nat, NEW s \in Store(nm, n), Sound(s), Seamless(s),
         NEW nu, Named(nu), NEW m \in Nat, NEW u \in Store(nu, m), Made(nm, s, nu, u, n)
  PROVE  /\ Sound(u) /\ Seamless(u)
         /\ \A x \in Names, l \in Levels : <<x, l>> \in InStore \/ x = "mask" => Raw(u, x, l) = Raw(s, x, l)
         /\ \A l \in Levels : MaskOf(u, l) = MaskOf(s, l)
<1>1. /\ DOMAIN s = DOMAIN nm /\ DOMAIN u = DOMAIN nu /\ L \in Levels
      /\ \A c \in DOMAIN nm : c \in DOMAIN nu /\ nu[c] = nm[c] /\ u[c] = s[c]
  BY StoreForm, LogAssumption DEF Made, Levels
<1>2. \A i \in DOMAIN nu : i \in DOMAIN nm \/ Newborn(u[i], nu[i], n)
  BY DEF Made
<1>3. Sound(u)
  <2>1. u[1].name = "disp"
    <3>1. 1 \in DOMAIN nm
      BY DEF Named
    <3> QED BY <1>1, <3>1 DEF Sound
  <2>2. ASSUME NEW i \in DOMAIN nu, NEW j \in DOMAIN nu, u[i].levels[L].tok = u[j].levels[L].tok
        PROVE  i = j
    <3>1. \A k \in DOMAIN nm : u[k].levels[L].tok \in 0 .. n - 1
      BY <1>1, StoreLevel
    <3>2. ASSUME NEW k \in DOMAIN nu, k \notin DOMAIN nm
          PROVE  u[k].tok \in Nat /\ u[k].tok >= n /\ u[k].levels[L].tok = u[k].tok + L
      <4>1. u[k] \in Channel(Depth, m)
        BY StoreHas
      <4>2. u[k].tok \in Nat
        BY <4>1 DEF Channel
      <4>3. ~(u[k].tok < n) /\ u[k].levels[L].tok = u[k].tok + L
        BY <1>1, <1>2, <3>2 DEF Newborn
      <4> QED BY <4>2, <4>3
    <3>3. L \in Nat
      BY <1>1 DEF Levels
    <3>4. CASE i \in DOMAIN nm /\ j \in DOMAIN nm
      BY <1>1, <2>2, <3>4 DEF Sound
    <3>5. CASE i \notin DOMAIN nm /\ j \notin DOMAIN nm
      <4>1. u[i].tok = u[j].tok
        BY <2>2, <3>2, <3>3, <3>5
      <4> QED BY <3>5, <4>1 DEF Made
    <3>6. ASSUME NEW a \in DOMAIN nu, a \in DOMAIN nm, NEW b \in DOMAIN nu, b \notin DOMAIN nm
          PROVE  u[a].levels[L].tok # u[b].levels[L].tok
      <4>1. u[a].levels[L].tok \in 0 .. n - 1
        BY <3>1, <3>6
      <4>2. u[b].levels[L].tok \in Nat /\ u[b].levels[L].tok >= n
        BY <3>2, <3>3, <3>6
      <4> QED BY <4>1, <4>2
    <3> QED BY <2>2, <3>4, <3>5, <3>6
  <2>3. \A i \in DOMAIN nu : u[i].levels[L].held = "none" => u[i].name = "mask"
    <3> TAKE i \in DOMAIN nu
    <3>1. CASE i \in DOMAIN nm
      BY <1>1, <3>1 DEF Sound
    <3>2. CASE i \notin DOMAIN nm
      <4>1. u[i].name = nu[i]
        BY StoreHas
      <4> QED BY <1>2, <3>2, <4>1 DEF Newborn
    <3> QED BY <3>1, <3>2
  <2>4. \A i \in DOMAIN nu : \A l \in Levels : u[i].levels[l].held = "none" => u[i].levels[l].val = Blank(l)
    <3> TAKE i \in DOMAIN nu
    <3>1. CASE i \in DOMAIN nm
      BY <1>1, <3>1 DEF Sound
    <3>2. CASE i \notin DOMAIN nm
      BY <1>2, <3>2 DEF Newborn
    <3> QED BY <3>1, <3>2
  <2> QED BY <1>1, <2>1, <2>2, <2>3, <2>4 DEF Sound
<1>4. Seamless(u)
  <2>1. ASSUME NEW i \in DOMAIN nu, NEW l \in Levels, NEW x \in Sites, NEW y \in Sites, x[2] = y[2]
        PROVE  u[i].levels[l].val[x] = u[i].levels[l].val[y]
    <3>1. CASE i \in DOMAIN nm
      BY <1>1, <2>1, <3>1 DEF Seamless
    <3>2. CASE i \notin DOMAIN nm
      BY <1>2, <2>1, <3>2 DEF Newborn
    <3> QED BY <3>1, <3>2
  <2> QED BY <1>1, <2>1 DEF Seamless
<1>5. ASSUME NEW x \in Names, NEW l \in Levels, <<x, l>> \in InStore \/ x = "mask"
      PROVE  Raw(u, x, l) = Raw(s, x, l)
  <2>1. l = L \/ x = "mask"
    <3>1. CASE <<x, l>> \in InStore
      <4>1. <<x, l>>[2] # L => <<x, l>>[1] = "mask"
        BY <3>1, SpotsAre
      <4> QED BY <4>1
    <3> QED BY <1>5, <3>1
  <2>2. CASE FindChannel(s, x) # 0
    <3>1. PICK c \in DOMAIN nm : nm[c] = x
      BY <2>2, FindIs
    <3>2. c \in DOMAIN nu /\ nu[c] = x /\ u[c] = s[c]
      BY <1>1, <3>1
    <3>3. Raw(s, x, l) = s[c].levels[l].val /\ Raw(u, x, l) = u[c].levels[l].val
      BY <3>1, <3>2, RawIs
    <3> QED BY <3>2, <3>3
  <2>3. CASE FindChannel(s, x) = 0 /\ FindChannel(u, x) = 0
    BY <2>3 DEF Raw
  <2>4. CASE FindChannel(s, x) = 0 /\ FindChannel(u, x) # 0
    <3>1. PICK i \in DOMAIN nu : nu[i] = x
      BY <2>4, FindIs
    <3>2. i \notin DOMAIN nm
      <4>1. \A c \in DOMAIN nm : nm[c] # x
        BY <2>4, FindIs
      <4> QED BY <1>1, <3>1, <4>1
    <3>3. Raw(u, x, l) = u[i].levels[l].val
      BY <3>1, RawIs
    <3>4. u[i].levels[l].val = Seed(x, l)
      BY <1>2, <2>1, <3>1, <3>2 DEF Newborn
    <3> QED BY <2>4, <3>3, <3>4 DEF Raw
  <2> QED BY <2>2, <2>3, <2>4
<1>6. ASSUME NEW l \in Levels PROVE MaskOf(u, l) = MaskOf(s, l)
  <2>1. MaskOf(u, l) = MaskFrom(Raw(u, "mask", l)) /\ MaskOf(s, l) = MaskFrom(Raw(s, "mask", l))
    BY <1>3, MaskRaw
  <2>2. "mask" \in Names
    BY DEF Names
  <2> QED BY <1>5, <2>1, <2>2
<1> QED BY <1>3, <1>4, <1>5, <1>6

-----------------------------------------------------------------------------
(* A dab.                                                                  *)

\* Nodes ms after ns: the first to reach leaf g copies what it owns of d.
Captured(ns, ms, g, d) ==
  \/ /\ \A k \in ns : k.leaf # g
     /\ ValsOf(ms) = ValsOf(ns) \cup {[w \in Owned(g) |-> d[w]]}
  \/ ms = ns /\ \E k \in ns : k.leaf = g

LEMMA CaptureLeads ==
  ASSUME NEW ns, \A k \in ns : DOMAIN k.val = Owned(k.leaf), NEW a, NEW d, DOMAIN a = Verts,
         Patched(ValsOf(ns), a, d), NEW v \in Verts, NEW e, \A w \in Verts : w # v => e[w] = d[w],
         NEW ms, Captured(ns, ms, Owner[v], d)
  PROVE  Patched(ValsOf(ms), a, e)
<1> DEFINE g == Owner[v]
           new == [w \in Owned(g) |-> d[w]]
<1>1. v \in Owned(g) /\ \A w \in Owned(g) : w \in Verts /\ Owner[w] = g
  BY DEF Owned
<1>2. /\ \A q \in ValsOf(ns) : \A x \in DOMAIN q : q[x] = a[x]
      /\ \A x \in Verts : a[x] = d[x] \/ \E q \in ValsOf(ns) : x \in DOMAIN q
  BY DEF Patched
<1>3. CASE ms = ns /\ \E k \in ns : k.leaf = g
  <2>1. PICK k \in ns : k.leaf = g
    BY <1>3
  <2>2. k.val \in ValsOf(ns) /\ v \in DOMAIN k.val
    BY <1>1, <2>1 DEF ValsOf
  <2>3. \A x \in Verts : a[x] = e[x] \/ \E q \in ValsOf(ns) : x \in DOMAIN q
    <3> TAKE x \in Verts
    <3>1. CASE x = v
      BY <2>2, <3>1
    <3>2. CASE x # v
      BY <1>2, <3>2
    <3> QED BY <3>1, <3>2
  <2> QED BY <1>2, <1>3, <2>3 DEF Patched
<1>4. CASE (\A k \in ns : k.leaf # g) /\ ValsOf(ms) = ValsOf(ns) \cup {new}
  <2>1. \A w \in Owned(g) : a[w] = d[w]
    <3> TAKE w \in Owned(g)
    <3>1. \A q \in ValsOf(ns) : w \notin DOMAIN q
      <4>1. \A k \in ns : w \notin Owned(k.leaf)
        BY <1>1, <1>4 DEF Owned
      <4> QED BY <4>1 DEF ValsOf
    <3> QED BY <1>1, <1>2, <3>1
  <2>2. DOMAIN new = Owned(g) /\ \A w \in Owned(g) : new[w] = d[w]
    OBVIOUS
  <2> HIDE DEF new
  <2>3. \A q \in ValsOf(ms) : \A x \in DOMAIN q : q[x] = a[x]
    BY <1>2, <1>4, <2>1, <2>2
  <2>4. \A x \in Verts : a[x] = e[x] \/ \E q \in ValsOf(ms) : x \in DOMAIN q
    <3> TAKE x \in Verts
    <3>1. CASE x = v
      BY <1>1, <1>4, <2>2, <3>1
    <3>2. CASE x # v
      BY <1>2, <1>4, <3>2
    <3> QED BY <3>1, <3>2
  <2> QED BY <2>3, <2>4 DEF Patched
<1> QED BY <1>3, <1>4 DEF Captured

\* What the open step keeps after the leaf has been captured.
LEMMA CaptureLeafHas ==
  ASSUME NEW nu, Named(nu), NEW m \in Nat, NEW s \in Store(nu, m), NEW step \in Step(m), SoundStep(step, m),
         \A j \in step.pos : DOMAIN j.val = Owned(j.leaf),
         \A j \in step.mask : DOMAIN j.val = Owned(j.leaf) /\ Resolve(s, j.id) # 0,
         NEW pos, NEW mask, NEW g, NEW fields, "mask" \in fields => \E c \in DOMAIN nu : nu[c] = "mask",
         NEW t, t = CaptureLeaf(step, s, pos, mask, g, fields)
  PROVE  /\ t.blocks = step.blocks /\ t.finer = step.finer /\ SoundStep(t, m)
         /\ IF "co" \in fields THEN Captured(step.pos, t.pos, g, pos) ELSE t.pos = step.pos
         /\ IF "mask" \in fields THEN Captured(step.mask, t.mask, g, mask) ELSE t.mask = step.mask
         /\ \A j \in t.pos : DOMAIN j.val = Owned(j.leaf)
         /\ \A j \in t.mask : DOMAIN j.val = Owned(j.leaf) /\ Resolve(s, j.id) # 0
<1> DEFINE newPos == "co" \in fields /\ \A n \in step.pos : n.leaf # g
           newMask == "mask" \in fields /\ \A n \in step.mask : n.leaf # g
           c == FindChannel(s, "mask")
           a == [leaf |-> g, val |-> [v \in Owned(g) |-> pos[v]]]
           b == [leaf |-> g, val |-> [v \in Owned(g) |-> mask[v]], id |-> Identity(s, c, L)]
           P == IF newPos THEN step.pos \cup {a} ELSE step.pos
           K == IF newMask THEN step.mask \cup {b} ELSE step.mask
<1>1. t = [step EXCEPT !.pos = P, !.mask = K]
  BY DEF CaptureLeaf
<1>2. step = [pos |-> step.pos, mask |-> step.mask, blocks |-> step.blocks, finer |-> step.finer,
              pre |-> step.pre, post |-> step.post, preAttr |-> step.preAttr, postAttr |-> step.postAttr]
  BY DEF Step
<1>3. a.val = [v \in Owned(g) |-> pos[v]] /\ DOMAIN a.val = Owned(g) /\ a.leaf = g
  OBVIOUS
<1>4. b.val = [v \in Owned(g) |-> mask[v]] /\ DOMAIN b.val = Owned(g) /\ b.leaf = g
      /\ b.id = Identity(s, c, L)
  OBVIOUS
<1> HIDE DEF a, b
<1>5. /\ t.pos = P /\ t.mask = K /\ t.blocks = step.blocks /\ t.finer = step.finer
      /\ t.preAttr = step.preAttr /\ t.postAttr = step.postAttr
  <2> HIDE DEF P, K
  <2> QED BY <1>1, <1>2
<1>6. ASSUME newMask
      PROVE  Resolve(s, b.id) # 0 /\ b.id.name = "mask" /\ b.id.chan < m
  <2>1. PICK i \in DOMAIN nu : nu[i] = "mask"
    BY <1>6
  <2>2. c = i /\ i # 0
    BY <2>1, FindAt
  <2>3. s[i] \in Channel(Depth, m) /\ s[i].name = "mask" /\ DOMAIN s[i].levels = Levels /\ L \in Levels
    BY <2>1, StoreHas, LogAssumption DEF Levels
  <2>4. s[i].tok < m
    <3>1. s[i].tok \in 0 .. m - 1
      BY <2>3 DEF Channel
    <3> QED BY <3>1
  <2>5. /\ b.id.name = "mask" /\ b.id.chan = s[i].tok /\ b.id.lev = s[i].levels[L].tok /\ b.id.level = L
    BY <1>4, <2>2, <2>3 DEF Identity
  <2>6. Resolve(s, b.id) = c
    BY <2>2, <2>3, <2>5 DEF Resolve
  <2> QED BY <2>2, <2>4, <2>5, <2>6
<1>7. \A j \in P : DOMAIN j.val = Owned(j.leaf)
  BY <1>3
<1>8. \A j \in K : DOMAIN j.val = Owned(j.leaf) /\ Resolve(s, j.id) # 0
  BY <1>4, <1>6
<1>9. IF "co" \in fields THEN Captured(step.pos, P, g, pos) ELSE P = step.pos
  <2>1. CASE newPos
    <3>1. ValsOf(P) = ValsOf(step.pos) \cup {a.val}
      BY <2>1 DEF ValsOf
    <3> QED BY <1>3, <2>1, <3>1 DEF Captured
  <2>2. CASE ~newPos
    BY <2>2 DEF Captured
  <2> QED BY <2>1, <2>2
<1>10. IF "mask" \in fields THEN Captured(step.mask, K, g, mask) ELSE K = step.mask
  <2>1. CASE newMask
    <3>1. ValsOf(K) = ValsOf(step.mask) \cup {b.val}
      BY <2>1 DEF ValsOf
    <3> QED BY <1>4, <2>1, <3>1 DEF Captured
  <2>2. CASE ~newMask
    BY <2>2 DEF Captured
  <2> QED BY <2>1, <2>2
<1>11. \A k \in K : k.id.name = "mask" /\ k.id.chan < m
  <2>1. \A k \in step.mask : k.id.name = "mask" /\ k.id.chan < m
    BY DEF SoundStep
  <2> QED BY <1>6, <2>1
<1>12. SoundStep(t, m)
  <2>1. /\ \A k \in t.mask : k.id.name = "mask" /\ k.id.chan < m
    BY <1>5, <1>11
  <2> HIDE DEF P, K
  <2> QED BY <1>5, <2>1 DEF SoundStep
<1> HIDE DEF P, K
<1> QED BY <1>5, <1>7, <1>8, <1>9, <1>10, <1>12

LEMMA LivesBy ==
  ASSUME NEW nm, NEW n, NEW lv \in Lives(nm, n), NEW nu, NEW m, lv.store \in Store(nu, m)
  PROVE  lv \in Lives(nu, m)
BY DEF Lives

\* What a dab does.
Dabbed(fields, v, s) ==
  /\ s = Ensured(live.store, fields \cap (DOMAIN Layers \cup {"mask"}), used.toks)
  /\ live'.store = s
  /\ used'.toks = used.toks + (Len(s) - Len(live.store)) * (Depth + 1)
  /\ "co" \notin fields => live'.pos = live.pos
  /\ \A w \in Verts : w # v => live'.pos[w] = live.pos[w]
  /\ \A l \in Levels : l # L => live'.mask[l] = live.mask[l]
  /\ "mask" \notin fields => live'.mask[L] = live.mask[L]
  /\ \A w \in Verts : w # v => live'.mask[L][w] = live.mask[L][w]
  /\ stroke'.touched = stroke.touched \cup {v} /\ stroke'.wrote = stroke.wrote \cup fields
  /\ steps' = [steps EXCEPT ![Len(steps)] =
                 CaptureLeaf(steps[Len(steps)], s, live.pos, live.mask[L], Owner[v], fields)]

LEMMA DabHas ==
  ASSUME Inv, Dab
  PROVE  open /\ open' = open /\ \E fields \in Kernels, v \in Verts : \E s : Dabbed(fields, v, s)
<1>1. PICK fields \in Kernels, v \in Verts :
        LET ns == fields \cap (DOMAIN Layers \cup {"mask"})
            s == Ensured(live.store, ns, used.toks)
            gathered == [n \in DOMAIN Layers |->
                           IF n \in fields /\ stroke.column[n] = None
                           THEN [w \in Verts |-> ValueAt(s, n, L)[<<Canon[w], w>>]]
                           ELSE stroke.column[n]]
        IN  /\ live' = [live EXCEPT
                  !.store = s,
                  !.pos = IF "co" \in fields THEN [live.pos EXCEPT ![v] = Bumped(@)] ELSE @,
                  !.mask = IF "mask" \in fields THEN [live.mask EXCEPT ![L][v] = Bumped(@)]
                           ELSE @]
            /\ stroke' = [touched |-> stroke.touched \cup {v}, wrote |-> stroke.wrote \cup fields,
                          column |-> [n \in DOMAIN Layers |->
                             IF n \in fields THEN [gathered[n] EXCEPT ![v] = Bumped(@)]
                             ELSE gathered[n]]]
            /\ steps' = [steps EXCEPT ![Len(steps)] =
                           CaptureLeaf(@, s, live.pos, live.mask[L], Owner[v], fields)]
            /\ used' = [used EXCEPT !.dabs = @ + 1,
                                    !.toks = @ + (Len(s) - Len(live.store)) * (Depth + 1)]
  BY DEF Dab
<1> DEFINE s == Ensured(live.store, fields \cap (DOMAIN Layers \cup {"mask"}), used.toks)
           p == [live.pos EXCEPT ![v] = Bumped(@)]
           q == [live.mask[L] EXCEPT ![v] = Bumped(@)]
           P == IF "co" \in fields THEN p ELSE live.pos
           m == IF "mask" \in fields THEN [live.mask EXCEPT ![L] = q] ELSE live.mask
<1>2. open /\ UNCHANGED <<cursor, open, floor>>
  BY DEF Dab
<1>3. PICK nm : /\ Named(nm) /\ live \in Lives(nm, used.toks) /\ live.store \in Store(nm, used.toks)
                /\ live.pos \in MaskAt(L) /\ live.mask \in Masks
  BY StoredAs
<1>4. used \in Uses
  BY DEF Inv, Logged
<1>5. /\ stroke'.touched = stroke.touched \cup {v} /\ stroke'.wrote = stroke.wrote \cup fields
      /\ steps' = [steps EXCEPT ![Len(steps)] =
                     CaptureLeaf(steps[Len(steps)], s, live.pos, live.mask[L], Owner[v], fields)]
  BY <1>1
<1>6. used'.toks = used.toks + (Len(s) - Len(live.store)) * (Depth + 1)
  BY <1>1, <1>4 DEF Uses
<1>7. live' = [live EXCEPT !.store = s, !.pos = P, !.mask = m]
  <2>1. [live.mask EXCEPT ![L][v] = Bumped(@)] = [live.mask EXCEPT ![L] = q]
    OBVIOUS
  <2> QED BY <1>1, <1>3, <2>1 DEF Lives
<1> HIDE DEF s
<1>8. L \in Levels /\ live.mask[L] \in MaskAt(L) /\ DOMAIN live.mask = Levels
  BY <1>3, MasksAre
<1>9. /\ \A w \in Verts : w # v => p[w] = live.pos[w]
      /\ \A w \in Verts : w # v => q[w] = live.mask[L][w]
  BY <1>3, <1>8 DEF MaskAt
<1> HIDE DEF p, q
<1>10. /\ "co" \notin fields => P = live.pos
       /\ \A w \in Verts : w # v => P[w] = live.pos[w]
  BY <1>9
<1>11. /\ \A l \in Levels : l # L => m[l] = live.mask[l]
       /\ "mask" \notin fields => m[L] = live.mask[L]
       /\ \A w \in Verts : w # v => m[L][w] = live.mask[L][w]
  BY <1>8, <1>9
<1> HIDE DEF P, m
<1>12. live'.store = s /\ live'.pos = P /\ live'.mask = m
  BY <1>3, <1>7 DEF Lives
<1>13. Dabbed(fields, v, s)
  BY <1>5, <1>6, <1>10, <1>11, <1>12 DEF Dabbed, s
<1> QED BY <1>2, <1>13

\* A dab over a store to which channels have been added.
LEMMA DabLeads ==
  ASSUME NEW nm, Named(nm), NEW n \in Nat, NEW lv \in Lives(nm, n), Coherent(lv),
         NEW nu, Named(nu), NEW m \in Nat, n <= m, NEW lw \in Lives(nu, m), Made(nm, lv.store, nu, lw.store, n),
         NEW fields, "mask" \in fields => \E c \in DOMAIN nu : nu[c] = "mask",
         NEW v \in Verts, \A w \in Verts : w # v => lw.pos[w] = lv.pos[w] /\ lw.mask[L][w] = lv.mask[L][w],
         "co" \notin fields => lw.pos = lv.pos, "mask" \notin fields => lw.mask[L] = lv.mask[L],
         NEW step \in Step(n), SoundStep(step, n), NEW d, Reading(d), Leads(lv.store, step, d, Reads(lv)),
         NEW k, Capturing(d, lv, step, k),
         NEW j, j.touched = k.touched \cup {v}, j.wrote = k.wrote \cup fields,
         NEW t, t = CaptureLeaf(step, lw.store, lv.pos, lv.mask[L], Owner[v], fields)
  PROVE  Leads(lw.store, t, d, Reads(lw)) /\ SoundStep(t, m) /\ Capturing(d, lw, t, j)
<1>1. lv.store \in Store(nm, n) /\ lw.store \in Store(nu, m)
  BY DEF Lives
<1> DEFINE s == lv.store
           u == lw.store
<1>2. More(s, u, n)
  BY <1>1, MadeFinds
<1>3. Sound(s) /\ Seamless(s)
  BY DEF Coherent
<1>4. \A x \in Names, l \in Levels : <<x, l>> \in InStore \/ x = "mask" => Raw(u, x, l) = Raw(s, x, l)
  <2> HIDE DEF s, u
  <2>1. s \in Store(nm, n) /\ u \in Store(nu, m) /\ Made(nm, s, nu, u, n)
    BY <1>1 DEF s, u
  <2> QED BY <1>3, <2>1, MadeSound
<1>5. /\ step.blocks = {} /\ step.finer = {}
      /\ \A i \in step.pos : DOMAIN i.val = Owned(i.leaf)
      /\ \A i \in step.mask : DOMAIN i.val = Owned(i.leaf) /\ Resolve(s, i.id) # 0
      /\ \A w \in Verts : lv.mask[L][w] = d[Dense][w] \/ (w \in k.touched /\ "mask" \in k.wrote)
  BY DEF Capturing
<1>6. \A i \in step.mask : DOMAIN i.val = Owned(i.leaf) /\ Resolve(u, i.id) # 0
  <2> TAKE i \in step.mask
  <2>1. Resolve(s, i.id) # 0 /\ i.id.chan < n /\ DOMAIN i.val = Owned(i.leaf)
    BY <1>5 DEF SoundStep
  <2>2. Resolve(s, i.id) = FindChannel(s, i.id.name) /\ FindChannel(s, i.id.name) # 0
    BY <2>1 DEF Resolve
  <2>3. FindChannel(u, i.id.name) = FindChannel(s, i.id.name)
        /\ u[FindChannel(u, i.id.name)] = s[FindChannel(s, i.id.name)]
    BY <1>2, <2>2 DEF More
  <2>4. Resolve(u, i.id) = Resolve(s, i.id)
    BY <2>3 DEF Resolve
  <2> QED BY <2>1, <2>4
<1>7. step \in Step(m) /\ SoundStep(step, m)
  BY StepGrows, SoundStepGrows
<1>8. /\ t.blocks = step.blocks /\ t.finer = step.finer /\ SoundStep(t, m)
      /\ IF "co" \in fields THEN Captured(step.pos, t.pos, Owner[v], lv.pos) ELSE t.pos = step.pos
      /\ IF "mask" \in fields THEN Captured(step.mask, t.mask, Owner[v], lv.mask[L])
         ELSE t.mask = step.mask
      /\ \A i \in t.pos : DOMAIN i.val = Owned(i.leaf)
      /\ \A i \in t.mask : DOMAIN i.val = Owned(i.leaf) /\ Resolve(u, i.id) # 0
  <2> DEFINE g == Owner[v]
             pos == lv.pos
             mask == lv.mask[L]
  <2>1. t = CaptureLeaf(step, u, pos, mask, g, fields) /\ u \in Store(nu, m)
    BY <1>1
  <2> HIDE DEF u, g, pos, mask
  <2>2. /\ t.blocks = step.blocks /\ t.finer = step.finer /\ SoundStep(t, m)
        /\ IF "co" \in fields THEN Captured(step.pos, t.pos, g, pos) ELSE t.pos = step.pos
        /\ IF "mask" \in fields THEN Captured(step.mask, t.mask, g, mask) ELSE t.mask = step.mask
        /\ \A i \in t.pos : DOMAIN i.val = Owned(i.leaf)
        /\ \A i \in t.mask : DOMAIN i.val = Owned(i.leaf) /\ Resolve(u, i.id) # 0
    BY <1>5, <1>6, <1>7, <2>1, CaptureLeafHas
  <2> QED BY <2>2 DEF g, pos, mask
<1>9. /\ Reading(Reads(lv)) /\ Reads(lv)[Pos] = lv.pos /\ Reads(lv)[Dense] = lv.mask[L]
      /\ \A p \in InStore : Reads(lv)[p] = Raw(s, p[1], p[2])
  BY ReadsAre
<1>10. /\ Reading(Reads(lw)) /\ Reads(lw)[Pos] = lw.pos /\ Reads(lw)[Dense] = lw.mask[L]
       /\ \A p \in InStore : Reads(lw)[p] = Raw(u, p[1], p[2])
  BY ReadsAre
<1>11. DOMAIN d[Pos] = Verts /\ DOMAIN d[Dense] = Verts
  <2>1. d[Pos] \in MaskAt(L) /\ d[Dense] \in MaskAt(L)
    BY SpotsAre DEF Reading, ReadingAt
  <2> QED BY <2>1 DEF MaskAt
<1>12. /\ Patches(s, step, Pos) = ValsOf(step.pos) /\ Patches(u, t, Pos) = ValsOf(t.pos)
       /\ Patches(s, step, Dense) = ValsOf(step.mask) /\ Patches(u, t, Dense) = ValsOf(t.mask)
  <2>1. {i \in step.mask : Resolve(s, i.id) # 0} = step.mask /\ {i \in t.mask : Resolve(u, i.id) # 0} = t.mask
    BY <1>5, <1>8
  <2> QED BY <2>1, SpotsAre DEF Patches
<1>13. Patched(ValsOf(t.pos), d[Pos], lw.pos)
  <2>1. Patched(ValsOf(step.pos), d[Pos], lv.pos)
    BY <1>9, <1>12, SpotsAre DEF Leads
  <2>2. CASE "co" \in fields
    <3>1. Captured(step.pos, t.pos, Owner[v], lv.pos)
      BY <1>8, <2>2
    <3> QED BY <1>5, <1>11, <2>1, <3>1, CaptureLeads
  <2>3. CASE "co" \notin fields
    BY <1>8, <2>1, <2>3
  <2> QED BY <2>2, <2>3
<1>14. Patched(ValsOf(t.mask), d[Dense], lw.mask[L])
  <2>1. Patched(ValsOf(step.mask), d[Dense], lv.mask[L])
    BY <1>9, <1>12, SpotsAre DEF Leads
  <2>2. CASE "mask" \in fields
    <3>1. Captured(step.mask, t.mask, Owner[v], lv.mask[L])
      BY <1>8, <2>2
    <3>2. \A i \in step.mask : DOMAIN i.val = Owned(i.leaf)
      BY <1>5
    <3>3. \A w \in Verts : w # v => lw.mask[L][w] = lv.mask[L][w]
      OBVIOUS
    <3> QED BY <1>11, <2>1, <3>1, <3>2, <3>3, CaptureLeads
  <2>3. CASE "mask" \notin fields
    BY <1>8, <2>1, <2>3
  <2> QED BY <2>2, <2>3
<1>15. ASSUME NEW p \in InStore PROVE Patched(Patches(u, t, p), d[p], Reads(lw)[p])
  <2>1. Patches(s, step, p) = {} /\ Patches(u, t, p) = {}
    BY <1>5, <1>8, SpotsAre DEF Patches, Here, ValsOf
  <2>2. p \in Spots /\ p[1] \in Names /\ p[2] \in Levels /\ <<p[1], p[2]>> \in InStore
    BY SpotsAre
  <2>3. Reads(lw)[p] = Reads(lv)[p]
    <3>1. Raw(u, p[1], p[2]) = Raw(s, p[1], p[2])
      BY <1>4, <2>2
    <3> QED BY <1>9, <1>10, <3>1
  <2>4. Patched(Patches(s, step, p), d[p], Reads(lv)[p])
    BY <2>2 DEF Leads
  <2> QED BY <2>1, <2>3, <2>4
<1>16. Leads(u, t, d, Reads(lw))
  <2> SUFFICES ASSUME NEW p \in Spots PROVE Patched(Patches(u, t, p), d[p], Reads(lw)[p])
    BY DEF Leads
  <2>1. CASE p = Pos
    BY <1>10, <1>12, <1>13, <2>1
  <2>2. CASE p = Dense
    BY <1>10, <1>12, <1>14, <2>2
  <2>3. CASE p \in InStore
    BY <1>15, <2>3
  <2> QED BY <2>1, <2>2, <2>3, SpotsAre
<1>17. Capturing(d, lw, t, j)
  <2>1. \A w \in Verts : lw.mask[L][w] = d[Dense][w] \/ (w \in j.touched /\ "mask" \in j.wrote)
    <3> TAKE w \in Verts
    <3>1. CASE w = v /\ "mask" \in fields
      BY <3>1
    <3>2. CASE ~(w = v /\ "mask" \in fields)
      <4>1. lw.mask[L][w] = lv.mask[L][w]
        BY <3>2
      <4> QED BY <1>5, <4>1
    <3> QED BY <3>1, <3>2
  <2> QED BY <1>5, <1>8, <2>1 DEF Capturing
<1> QED BY <1>8, <1>16, <1>17

LEMMA DabValues ==
  ASSUME Inv, NEW ds, Valued(ds), Dab,
         NEW es, es = [k \in 1 .. Len(steps) + 1 |-> IF k = Len(steps) + 1 THEN Reads(live') ELSE ds[k]]
  PROVE  Valued(es)'
<1> DEFINE N == Len(steps)
<1>0. PICK fields \in Kernels, v \in Verts : \E s : Dabbed(fields, v, s)
  BY DabHas
<1>1. PICK s : Dabbed(fields, v, s)
  BY <1>0
<1>2. open /\ open' = open
  BY DabHas
<1>3. PICK nm : Named(nm) /\ live \in Lives(nm, used.toks) /\ live.store \in Store(nm, used.toks) /\ used.toks \in Nat
  BY StoredAs
<1>4. steps \in Seq(Step(used.toks)) /\ N \in Nat \ {0} /\ open' = TRUE
  BY <1>2 DEF Inv, Logged
<1>5. /\ Chain(ds, live, steps, N, FALSE) /\ Coherent(live)
      /\ \A k \in 1 .. N : SoundStep(steps[k], used.toks)
      /\ Capturing(ds[N], live, steps[N], stroke)
  BY <1>2, OpenHas
<1>6. Sound(live.store) /\ Seamless(live.store)
  BY <1>5 DEF Coherent
<1> DEFINE ns == fields \cap (DOMAIN Layers \cup {"mask"})
           n2 == used.toks + (Len(s) - Len(live.store)) * (Depth + 1)
           cap == CaptureLeaf(steps[N], s, live.pos, live.mask[L], Owner[v], fields)
<1>7. /\ s = Ensured(live.store, ns, used.toks) /\ live'.store = s /\ used'.toks = n2
      /\ steps' = [steps EXCEPT ![N] = cap]
      /\ stroke'.touched = stroke.touched \cup {v} /\ stroke'.wrote = stroke.wrote \cup fields
  BY <1>1 DEF Dabbed
<1>8. /\ "co" \notin fields => live'.pos = live.pos
      /\ "mask" \notin fields => live'.mask[L] = live.mask[L]
      /\ \A w \in Verts : w # v => live'.pos[w] = live.pos[w] /\ live'.mask[L][w] = live.mask[L][w]
      /\ \A l \in Levels : l # L => live'.mask[l] = live.mask[l]
  BY <1>1 DEF Dabbed
<1>9. /\ n2 \in Nat /\ used.toks <= n2
      /\ \E nu : /\ Named(nu) /\ s \in Store(nu, n2) /\ Made(nm, live.store, nu, s, used.toks)
                 /\ \A n \in ns : \E c \in DOMAIN nu : nu[c] = n
  <2> DEFINE t == used.toks
             st == live.store
  <2>1. t \in Nat /\ Named(nm) /\ st \in Store(nm, t) /\ ns \in SUBSET ({"mask"} \cup DOMAIN Layers) /\ Sound(st)
    BY <1>3, <1>6
  <2>2. s = Ensured(st, ns, t) /\ n2 = t + (Len(s) - Len(st)) * (Depth + 1)
    BY <1>7
  <2> HIDE DEF t, st, n2, ns
  <2>3. /\ n2 \in Nat /\ t <= n2
        /\ \E nu : /\ Named(nu) /\ s \in Store(nu, n2) /\ Made(nm, st, nu, s, t)
                   /\ \A n \in ns : \E c \in DOMAIN nu : nu[c] = n
    BY <2>1, <2>2, EnsuredMade
  <2> QED BY <2>3 DEF t, st
<1> HIDE DEF n2, cap
<1>10. PICK nu : /\ Named(nu) /\ s \in Store(nu, n2) /\ Made(nm, live.store, nu, s, used.toks)
                 /\ \A n \in ns : \E c \in DOMAIN nu : nu[c] = n
  BY <1>9
<1>11. live' \in Lives(nu, n2)
  <2>1. Inv'
    BY DabKeeps
  <2>2. \E nx : live' \in Lives(nx, used'.toks)
    BY <2>1 DEF Inv, Stored
  <2> QED BY <1>7, <1>10, <2>2, LivesBy
<1>12. More(live.store, s, used.toks) /\ Sound(s) /\ Seamless(s)
       /\ \A l \in Levels : MaskOf(s, l) = MaskOf(live.store, l)
  <2> DEFINE st == live.store
             t == used.toks
  <2>1. /\ Named(nm) /\ t \in Nat /\ st \in Store(nm, t) /\ Sound(st) /\ Seamless(st)
        /\ Named(nu) /\ n2 \in Nat /\ s \in Store(nu, n2) /\ Made(nm, st, nu, s, t)
    BY <1>3, <1>6, <1>9, <1>10
  <2> HIDE DEF st, t
  <2>2. More(st, s, t)
    BY <2>1, MadeFinds
  <2>3. Sound(s) /\ Seamless(s) /\ \A l \in Levels : MaskOf(s, l) = MaskOf(st, l)
    BY <2>1, MadeSound
  <2> QED BY <2>2, <2>3 DEF st, t
<1>13. Coherent(live')
  <2>1. \A l \in Levels : l = L \/ live.mask[l] = None \/ live.mask[l] = MaskOf(live.store, l)
    BY <1>5 DEF Coherent
  <2>2. \A l \in Levels : l = L \/ live'.mask[l] = None \/ live'.mask[l] = MaskOf(live'.store, l)
    BY <1>7, <1>8, <1>12, <2>1
  <2> QED BY <1>7, <1>12, <2>2 DEF Coherent
<1>14. /\ \A k \in 1 .. N + 1 : Reading(ds[k]) /\ (k # N + 1 => Calm(ds[k]))
       /\ ds[N + 1] = Reads(live)
       /\ \A k \in 1 .. N : Leads(live.store, steps[k], ds[k], ds[k + 1])
  <2>1. \A k \in 1 .. N : k <= N
    BY <1>4
  <2> QED BY <1>5, <2>1 DEF Chain
<1>15. Leads(live'.store, cap, ds[N], Reads(live')) /\ SoundStep(cap, n2) /\ Capturing(ds[N], live', cap, stroke')
  <2> DEFINE lv == live
             lw == live'
             step == steps[N]
             d == ds[N]
             n == used.toks
             k == stroke
             j == stroke'
  <2>1. Named(nm) /\ n \in Nat /\ lv \in Lives(nm, n) /\ Coherent(lv)
    BY <1>3, <1>5
  <2>2. Named(nu) /\ n2 \in Nat /\ n <= n2 /\ lw \in Lives(nu, n2) /\ Made(nm, lv.store, nu, lw.store, n)
    BY <1>7, <1>9, <1>10, <1>11
  <2>3. "mask" \in fields => \E c \in DOMAIN nu : nu[c] = "mask"
    BY <1>10
  <2>4. /\ \A w \in Verts : w # v => lw.pos[w] = lv.pos[w] /\ lw.mask[L][w] = lv.mask[L][w]
        /\ "co" \notin fields => lw.pos = lv.pos
        /\ "mask" \notin fields => lw.mask[L] = lv.mask[L]
    BY <1>8
  <2>5. step \in Step(n) /\ SoundStep(step, n)
    BY <1>4, <1>5
  <2>6. Reading(d) /\ Leads(lv.store, step, d, Reads(lv))
    BY <1>4, <1>14
  <2>7. Capturing(d, lv, step, k)
    BY <1>5
  <2>8. j.touched = k.touched \cup {v} /\ j.wrote = k.wrote \cup fields
    BY <1>7
  <2>9. cap = CaptureLeaf(step, lw.store, lv.pos, lv.mask[L], Owner[v], fields)
    BY <1>7 DEF cap
  <2> HIDE DEF lv, lw, step, d, n, k, j
  <2>10. Leads(lw.store, cap, d, Reads(lw)) /\ SoundStep(cap, n2) /\ Capturing(d, lw, cap, j)
    BY SMTT(30), <2>1, <2>2, <2>3, <2>4, <2>5, <2>6, <2>7, <2>8, <2>9, DabLeads
  <2> QED BY <2>10 DEF lw, d, j
<1>16. Len(steps') = N /\ steps'[N] = cap /\ \A k \in 1 .. N : k # N => steps'[k] = steps[k]
  BY <1>4, <1>7
<1>17. /\ DOMAIN es = 1 .. N + 1 /\ es[N + 1] = Reads(live')
       /\ \A k \in 1 .. N + 1 : k # N + 1 => es[k] = ds[k]
  BY <1>4
<1>18. \A k \in 1 .. N + 1 : Reading(es[k]) /\ (k # N + 1 => Calm(es[k]))
  <2>1. Reading(Reads(live'))
    BY <1>9, <1>10, <1>11, ReadsAre
  <2> QED BY <1>14, <1>17, <2>1
<1>19. ASSUME NEW k \in 1 .. N PROVE Leads(live'.store, steps'[k], es[k], es[k + 1])
  <2>1. k \in 1 .. N + 1 /\ k # N + 1 /\ es[k] = ds[k]
    BY <1>4, <1>17
  <2>2. CASE k = N
    BY <1>15, <1>16, <1>17, <2>1, <2>2
  <2>3. CASE k # N
    <3>1. es[k + 1] = ds[k + 1] /\ steps'[k] = steps[k]
      BY <1>4, <1>16, <1>17, <2>3
    <3>2. Leads(live.store, steps[k], ds[k], ds[k + 1]) /\ SoundStep(steps[k], used.toks)
      BY <1>5, <1>14
    <3>3. \A p : Patches(s, steps[k], p) = Patches(live.store, steps[k], p)
      BY <1>12, <3>2, MorePatches
    <3>4. Leads(s, steps[k], ds[k], ds[k + 1])
      BY <3>2, <3>3 DEF Leads
    <3> QED BY <1>7, <2>1, <3>1, <3>4
  <2> QED BY <2>2, <2>3
<1>20. Chain(es, live', steps', Len(steps'), FALSE)
  <2>1. N \in 0 .. N /\ \A k \in 1 .. N : k <= N /\ ~(k > N)
    BY <1>4
  <2> QED BY <1>16, <1>17, <1>18, <1>19, <2>1 DEF Chain
<1>21. \A k \in 1 .. Len(steps') : SoundStep(steps'[k], used'.toks)
  <2> TAKE k \in 1 .. Len(steps')
  <2>1. CASE k = N
    BY Zenon, <1>7, <1>15, <1>16, <2>1
  <2>2. CASE k # N
    <3>1. steps'[k] = steps[k] /\ SoundStep(steps[k], used.toks) /\ steps[k] \in Step(used.toks)
      BY <1>4, <1>5, <1>16, <2>2
    <3> QED BY <1>3, <1>7, <1>9, <3>1, SoundStepGrows
  <2> QED BY <2>1, <2>2
<1>22. Capturing(es[Len(steps')], live', steps'[Len(steps')], stroke')
  <2>1. N \in 1 .. N + 1 /\ N # N + 1
    BY <1>4
  <2> QED BY <1>15, <1>16, <1>17, <2>1
<1> QED BY <1>4, <1>13, <1>20, <1>21, <1>22, OpenValues

-----------------------------------------------------------------------------
(* An edit of a level, on its way up.                                      *)

\* One value a vertex.
Even(v) == \A x, y \in Sites : x[2] = y[2] => v[x] = v[y]

\* Levels g after t, when an edit of level l has reached level m.
Climbed(t, g, l, m, D, delta) ==
  /\ \A k \in 1 .. D : g[k].tok = t[k].tok /\ g[k].owes = t[k].owes
  /\ \A k \in 1 .. D : k < l \/ k > m => g[k] = t[k]
  /\ g[l].val = t[l].val /\ g[l].held # "none"
  /\ \A k \in 1 .. D : l < k /\ k <= m =>
       /\ g[k].held # "none" /\ Even(g[k].val)
       /\ t[k].held # "none" => \A x \in Sites : delta[x] = Zero(l) => g[k].val[x] = t[k].val[x]

LEMMA AddedNone ==
  ASSUME NEW l \in Nat \ {0}, NEW m \in Nat, l <= m, NEW a \in Sample(m), NEW delta, NEW x, delta[x] = Zero(l)
  PROVE  Added(a, Reaching(delta, l, x, m)) = a
<1>1. M \in Nat \ {0}
  BY StoreAssumption
<1>2. DOMAIN a = 1 .. m /\ a = [k \in 1 .. m |-> a[k]] /\ \A k \in 1 .. m : a[k] \in 0 .. M - 1
  BY DEF Sample
<1>3. \A k \in 1 .. m : Reaching(delta, l, x, m)[k] = 0
  BY DEF Reaching, Zero
<1>4. \A k \in 1 .. m : (a[k] + 0) % M = a[k]
  <2>1. \A i \in 0 .. M - 1 : (i + 0) % M = i
    BY <1>1
  <2> QED BY <1>2, <2>1
<1> QED BY <1>2, <1>3, <1>4 DEF Added

LEMMA ReachedClimbs ==
  ASSUME NEW D \in Nat, NEW n \in Nat, NEW t \in LevelsTo(D, n), NEW f \in LevelsTo(D, n),
         NEW l \in 1 .. D, NEW m \in 1 .. D, l < m, NEW delta, Even(delta),
         \A k \in 1 .. D : Even(t[k].val), Climbed(t, f, l, m - 1, D, delta),
         NEW r, r = Reached(delta, l, f, m)
  PROVE  Climbed(t, r, l, m, D, delta)
<1>1. /\ DOMAIN f = 1 .. D /\ \A k \in 1 .. D : f[k] \in LevelAt(k, n) /\ t[k] \in LevelAt(k, n)
  BY LevelsAre
<1>2. m - 1 \in 1 .. D /\ m - 1 # m /\ m \in Nat /\ l \in Nat \ {0} /\ ~(m < 2)
  OBVIOUS
<1>3. f[m] = t[m]
  BY <1>2 DEF Climbed
<1>4. f[m - 1].held # "none" /\ Even(f[m - 1].val)
  <2>1. CASE m - 1 = l
    BY <2>1 DEF Climbed
  <2>2. CASE m - 1 # l
    <3>1. l < m - 1 /\ m - 1 <= m - 1
      BY <2>2
    <3> QED BY <1>2, <3>1 DEF Climbed
  <2> QED BY <2>1, <2>2
<1>5. CASE f[m].held = "none"
  <2> DEFINE v == [x \in Sites |-> Prolonged(f[m - 1].val[x])]
             p == [f[m] EXCEPT !.val = v, !.held = "chunks"]
             q == [f[m - 1] EXCEPT !.held = "chunks"]
  <2>1. r = [[f EXCEPT ![m] = p] EXCEPT ![m - 1] = q]
    BY <1>1, <1>2, <1>4, <1>5 DEF Reached, SeededFromBelow
  <2>2. p.tok = f[m].tok /\ p.owes = f[m].owes /\ p.val = v /\ p.held = "chunks"
    BY <1>1, <1>2 DEF LevelAt
  <2>3. q.tok = f[m - 1].tok /\ q.owes = f[m - 1].owes /\ q.val = f[m - 1].val /\ q.held = "chunks"
    BY <1>1, <1>2 DEF LevelAt
  <2>4. Even(v)
    BY <1>4 DEF Even
  <2> HIDE DEF p, q, v
  <2>5. r[m] = p /\ r[m - 1] = q /\ \A k \in 1 .. D : k # m /\ k # m - 1 => r[k] = f[k]
    BY <1>1, <1>2, <2>1
  <2>6. \A k \in 1 .. D : r[k].tok = t[k].tok /\ r[k].owes = t[k].owes
    <3> TAKE k \in 1 .. D
    <3>1. f[k].tok = t[k].tok /\ f[k].owes = t[k].owes
      BY DEF Climbed
    <3> QED BY <2>2, <2>3, <2>5, <3>1
  <2>7. \A k \in 1 .. D : k < l \/ k > m => r[k] = t[k]
    <3> TAKE k \in 1 .. D
    <3>1. k < l \/ k > m => k # m /\ k # m - 1 /\ f[k] = t[k]
      BY DEF Climbed
    <3> QED BY <2>5, <3>1
  <2>8. r[l].val = t[l].val /\ r[l].held # "none"
    <3>1. f[l].val = t[l].val /\ f[l].held # "none" /\ l # m
      BY DEF Climbed
    <3> QED BY <2>3, <2>5, <3>1
  <2>9. ASSUME NEW k \in 1 .. D, l < k /\ k <= m
        PROVE  /\ r[k].held # "none" /\ Even(r[k].val)
               /\ t[k].held # "none" => \A x \in Sites : delta[x] = Zero(l) => r[k].val[x] = t[k].val[x]
    <3>1. CASE k = m
      BY <1>3, <1>5, <2>2, <2>4, <2>5, <3>1
    <3>2. CASE k # m
      <4>1. k <= m - 1
        BY <2>9, <3>2
      <4>2. /\ f[k].held # "none" /\ Even(f[k].val)
            /\ t[k].held # "none" => \A x \in Sites : delta[x] = Zero(l) => f[k].val[x] = t[k].val[x]
        BY <2>9, <4>1 DEF Climbed
      <4> QED BY <2>3, <2>5, <3>2, <4>2
    <3> QED BY <3>1, <3>2
  <2> QED BY <2>6, <2>7, <2>8, <2>9 DEF Climbed
<1>6. CASE f[m].held # "none"
  <2> DEFINE v == [x \in Sites |-> Added(f[m].val[x], Reaching(delta, l, x, m))]
             p == [f[m] EXCEPT !.val = v, !.held = "chunks"]
  <2>1. r = [f EXCEPT ![m] = p]
    BY <1>1, <1>6 DEF Reached
  <2>2. p.tok = f[m].tok /\ p.owes = f[m].owes /\ p.val = v /\ p.held = "chunks"
    BY <1>1, <1>2 DEF LevelAt
  <2>3. Even(v)
    <3> SUFFICES ASSUME NEW x \in Sites, NEW y \in Sites, x[2] = y[2] PROVE v[x] = v[y]
      BY DEF Even
    <3>1. f[m].val[x] = f[m].val[y] /\ delta[x] = delta[y]
      BY <1>3 DEF Even
    <3>2. Reaching(delta, l, x, m) = Reaching(delta, l, y, m)
      BY <3>1 DEF Reaching
    <3> QED BY <3>1, <3>2
  <2>4. \A x \in Sites : delta[x] = Zero(l) => v[x] = t[m].val[x]
    <3> TAKE x \in Sites
    <3>1. t[m].val[x] \in Sample(m)
      <4>1. t[m].val \in [Sites -> Sample(m)]
        BY Zenon, <1>1, LevelFields
      <4> QED BY <4>1
    <3>2. delta[x] = Zero(l) => Added(t[m].val[x], Reaching(delta, l, x, m)) = t[m].val[x]
      BY <1>2, <3>1, AddedNone
    <3> QED BY <1>3, <3>2
  <2> HIDE DEF p, v
  <2>5. r[m] = p /\ \A k \in 1 .. D : k # m => r[k] = f[k]
    BY <1>1, <1>2, <2>1
  <2>6. \A k \in 1 .. D : r[k].tok = t[k].tok /\ r[k].owes = t[k].owes
    <3> TAKE k \in 1 .. D
    <3>1. f[k].tok = t[k].tok /\ f[k].owes = t[k].owes
      BY DEF Climbed
    <3> QED BY <2>2, <2>5, <3>1
  <2>7. \A k \in 1 .. D : k < l \/ k > m => r[k] = t[k]
    <3> TAKE k \in 1 .. D
    <3>1. k < l \/ k > m => k # m /\ f[k] = t[k]
      BY DEF Climbed
    <3> QED BY <2>5, <3>1
  <2>8. r[l].val = t[l].val /\ r[l].held # "none"
    <3>1. f[l].val = t[l].val /\ f[l].held # "none" /\ l # m
      BY DEF Climbed
    <3> QED BY <2>5, <3>1
  <2>9. ASSUME NEW k \in 1 .. D, l < k /\ k <= m
        PROVE  /\ r[k].held # "none" /\ Even(r[k].val)
               /\ t[k].held # "none" => \A x \in Sites : delta[x] = Zero(l) => r[k].val[x] = t[k].val[x]
    <3>1. CASE k = m
      BY <2>2, <2>3, <2>4, <2>5, <3>1
    <3>2. CASE k # m
      <4>1. k <= m - 1
        BY <2>9, <3>2
      <4>2. /\ f[k].held # "none" /\ Even(f[k].val)
            /\ t[k].held # "none" => \A x \in Sites : delta[x] = Zero(l) => f[k].val[x] = t[k].val[x]
        BY <2>9, <4>1 DEF Climbed
      <4> QED BY <2>5, <3>2, <4>2
    <3> QED BY <3>1, <3>2
  <2> QED BY <2>6, <2>7, <2>8, <2>9 DEF Climbed
<1> QED BY <1>5, <1>6

LEMMA ProlongateHas ==
  ASSUME NEW D \in Nat, NEW n \in Nat, NEW ch \in Channel(D, n), NEW l \in 1 .. D,
         NEW delta \in [Sites -> [1 .. l -> Int]], Even(delta), \A k \in 1 .. D : Even(ch.levels[k].val),
         ch.levels[l].held # "none", NEW r, r = ProlongateEditUp(ch, l, delta)
  PROVE  /\ r.name = ch.name /\ r.tok = ch.tok /\ r.type = ch.type /\ r.rule = ch.rule /\ r.persist = ch.persist
         /\ r \in Channel(D, n) /\ (r = ch \/ Climbed(ch.levels, r.levels, l, D, D, delta))
<1> DEFINE t == ch.levels
<1>1. PICK u : /\ \A m \in l .. D : u[m] \in LevelsTo(D, n)
               /\ Climbs(u, t, l, delta, D)
               /\ r = ch \/ r = [ch EXCEPT !.levels = u[D]]
  BY ProlongateClimbs
<1>2. t \in LevelsTo(D, n)
  BY ChannelLevels
<1>3. Climbed(t, t, l, l, D, delta)
  BY DEF Climbed
<1>4. \A k \in 1 .. D : Even(t[k].val)
  OBVIOUS
<1> HIDE DEF t
<1> DEFINE P == {k \in 0 .. D - l : Climbed(t, u[l + k], l, l + k, D, delta)}
<1>5. 0 \in P
  <2>1. l + 0 = l /\ 0 \in 0 .. D - l /\ u[l] = t
    BY <1>1 DEF Climbs
  <2> QED BY <1>3, <2>1
<1>6. ASSUME NEW k \in 1 .. D - l, k - 1 \in P PROVE k \in P
  <2>1. l + k \in l .. D /\ l + k # l /\ l + k - 1 = l + (k - 1) /\ l + (k - 1) \in l .. D /\ l + k \in 1 .. D /\ l < l + k
    OBVIOUS
  <2>2. u[l + k] = Reached(delta, l, u[l + (k - 1)], l + k)
    BY <1>1, <2>1 DEF Climbs
  <2>3. Climbed(t, u[l + (k - 1)], l, l + k - 1, D, delta)
    BY <1>6, <2>1
  <2>4. u[l + (k - 1)] \in LevelsTo(D, n)
    BY <1>1, <2>1
  <2> DEFINE f == u[l + (k - 1)]
             m == l + k
             g == u[l + k]
  <2>5. /\ f \in LevelsTo(D, n) /\ m \in 1 .. D /\ l < m /\ Climbed(t, f, l, m - 1, D, delta)
        /\ g = Reached(delta, l, f, m)
    BY <2>1, <2>2, <2>3, <2>4
  <2> HIDE DEF f, m, g, P
  <2>6. Climbed(t, g, l, m, D, delta)
    BY <1>2, <1>4, <2>5, ReachedClimbs
  <2> QED BY <2>6 DEF P, g, m
<1>7. Climbed(t, u[D], l, D, D, delta)
  <2>1. D - l \in Nat /\ l + (D - l) = D /\ D - l \in 0 .. D - l
    OBVIOUS
  <2> HIDE DEF P
  <2>2. \A k \in 0 .. D - l : k \in P
    BY <1>5, <1>6, <2>1, NextIn
  <2>3. D - l \in P
    BY <2>1, <2>2
  <2> QED BY <2>1, <2>3 DEF P
<1> HIDE DEF P
<1>8. CASE r = ch
  BY <1>8
<1>9. CASE r = [ch EXCEPT !.levels = u[D]]
  <2> DEFINE g == u[D]
  <2>1. r = [ch EXCEPT !.levels = g] /\ Climbed(t, g, l, D, D, delta) /\ g \in LevelsTo(D, n)
    BY <1>1, <1>7, <1>9
  <2> HIDE DEF g
  <2>2. /\ r.name = ch.name /\ r.tok = ch.tok /\ r.type = ch.type /\ r.rule = ch.rule /\ r.persist = ch.persist
        /\ r.levels = g
    BY <2>1 DEF Channel
  <2>3. r \in Channel(D, n)
    BY <2>1, Relevel
  <2> QED BY <2>1, <2>2, <2>3 DEF t
<1> QED BY <1>1, <1>8, <1>9

\* Values a with those of the vertices vs from d.
Spread(d, vs, a) == [x \in Sites |-> IF x[2] \in vs THEN d[x[2]] ELSE a[x]]

LEMMA SpreadIs ==
  ASSUME NEW d, NEW vs, NEW a, NEW w, w = Spread(d, vs, a)
  PROVE  /\ Even(a) => Even(w)
         /\ \A x \in Sites : w[x] = IF x[2] \in vs THEN d[x[2]] ELSE a[x]
         /\ \A l : d \in [Verts -> Sample(l)] /\ a \in [Sites -> Sample(l)] => w \in [Sites -> Sample(l)]
<1>1. \A x \in Sites : x[2] \in Verts
  BY DEF Sites
<1> QED BY <1>1 DEF Spread, Even

LEMMA ScatteredHas ==
  ASSUME NEW D \in Nat, NEW n \in Nat, NEW ch \in Channel(D, n), NEW l \in 1 .. D, NEW d, NEW vs,
         NEW r, r = Scattered(ch, l, d, vs)
  PROVE  Revalued(ch, r, l, Spread(d, vs, ch.levels[l].val))
<1>1. ch.levels[l] \in LevelAt(l, n) /\ DOMAIN ch.levels = 1 .. D /\ ch.levels \in LevelsTo(D, n)
  BY ChannelLevels
<1>2. Touched(ch, l).levels[l].val = ch.levels[l].val
  <2> DEFINE q == [ch.levels[l] EXCEPT !.held = "chunks"]
             f == [ch.levels EXCEPT ![l] = q]
  <2>1. Touched(ch, l) = [ch EXCEPT !.levels = f]
    BY <1>1 DEF Touched, Channel
  <2>2. q.val = ch.levels[l].val
    BY <1>1 DEF LevelAt
  <2>3. f[l] = q
    BY <1>1
  <2> HIDE DEF f, q
  <2>4. [ch EXCEPT !.levels = f].levels = f
    BY DEF Channel
  <2> QED BY <2>1, <2>2, <2>3, <2>4
<1> DEFINE t == Touched(ch, l)
           w == Spread(d, vs, ch.levels[l].val)
<1>3. r = [t EXCEPT !.levels[l].val = Spread(d, vs, t.levels[l].val)]
  BY DEF Scattered, Spread
<1>4. r = [Touched(ch, l) EXCEPT !.levels[l].val = w]
  BY <1>2, <1>3
<1> HIDE DEF w
<1>5. Revalued(ch, r, l, w)
  BY <1>4, RetouchedHas
<1> QED BY <1>5 DEF w

LEMMA NoteEditHas ==
  ASSUME NEW D \in Nat, NEW n \in Nat, NEW ch \in Channel(D, n), NEW l \in 1 .. D,
         NEW r, r = NoteEdit(ch, l)
  PROVE  /\ r.name = ch.name /\ r.tok = ch.tok /\ r.type = ch.type /\ r.rule = ch.rule /\ r.persist = ch.persist
         /\ DOMAIN r.levels = 1 .. D
         /\ r.levels[l].tok = ch.levels[l].tok /\ r.levels[l].val = ch.levels[l].val
         /\ r.levels[l].held = ch.levels[l].held
         /\ \A k \in 1 .. D : k # l => r.levels[k] = ch.levels[k]
         /\ r.levels[l].owes = (ch.levels[l].owes \/ ~(l < 2 \/ ch.rule # "authored" \/ ~ch.persist))
<1>1. DOMAIN ch.levels = 1 .. D /\ ch.levels[l] \in LevelAt(l, n)
  BY ChannelLevels
<1>2. CASE l < 2 \/ ch.rule # "authored" \/ ~ch.persist
  <2>1. r = ch /\ ch.levels[l].owes \in BOOLEAN
    BY <1>1, <1>2 DEF NoteEdit, LevelAt
  <2> QED BY <1>1, <1>2, <2>1
<1>3. CASE ~(l < 2 \/ ch.rule # "authored" \/ ~ch.persist)
  <2> DEFINE q == [ch.levels[l] EXCEPT !.owes = TRUE]
             f == [ch.levels EXCEPT ![l] = q]
  <2>1. r = [ch EXCEPT !.levels = f]
    BY <1>1, <1>3 DEF NoteEdit, Channel
  <2>2. q.val = ch.levels[l].val /\ q.tok = ch.levels[l].tok /\ q.held = ch.levels[l].held /\ q.owes = TRUE
    BY <1>1 DEF LevelAt
  <2> HIDE DEF q
  <2>3. f[l] = q /\ DOMAIN f = 1 .. D /\ \A k \in 1 .. D : k # l => f[k] = ch.levels[k]
    BY <1>1
  <2> HIDE DEF f
  <2>4. r.name = ch.name /\ r.tok = ch.tok /\ r.type = ch.type /\ r.rule = ch.rule /\ r.persist = ch.persist
        /\ r.levels = f
    BY <2>1 DEF Channel
  <2> QED BY <1>3, <2>2, <2>3, <2>4
<1> QED BY <1>2, <1>3

\* Channel r is ch after an edit of the vertices vs to d at level l.
Renewed(ch, r, l, d, vs, D) ==
  /\ r.name = ch.name /\ r.tok = ch.tok /\ r.type = ch.type /\ r.rule = ch.rule /\ r.persist = ch.persist
  /\ \A k \in 1 .. D : /\ r.levels[k].tok = ch.levels[k].tok
                       /\ k # l => r.levels[k].owes = ch.levels[k].owes
                       /\ k < l => r.levels[k] = ch.levels[k]
  /\ r.levels[l].val = Spread(d, vs, ch.levels[l].val) /\ r.levels[l].held # "none"
  /\ r.levels[l].owes = (ch.levels[l].owes \/ ~(l < 2 \/ ch.rule # "authored" \/ ~ch.persist))
  /\ \A k \in 1 .. D : k > l =>
       /\ Even(r.levels[k].val) /\ (r.levels[k].held = "none" => r.levels[k] = ch.levels[k])
       /\ ch.levels[k].held # "none"
            => \A x \in Sites : x[2] \notin vs => r.levels[k].val[x] = ch.levels[k].val[x]

LEMMA LessSelf ==
  ASSUME NEW l \in Nat, NEW a \in Sample(l)
  PROVE  Less(a, a) = Zero(l)
<1>1. M \in Nat \ {0}
  BY StoreAssumption
<1>2. DOMAIN a = 1 .. l /\ \A k \in 1 .. l : a[k] \in 0 .. M - 1
  BY DEF Sample
<1>3. \A k \in 1 .. l : (a[k] - a[k]) % M = 0
  <2>1. \A i \in 0 .. M - 1 : (i - i) % M = 0
    BY <1>1
  <2> QED BY <1>2, <2>1
<1> QED BY <1>2, <1>3 DEF Less, Zero

LEMMA FlushedHas ==
  ASSUME NEW D \in Nat, NEW n \in Nat, NEW ch \in Channel(D, n), NEW l \in 1 .. D,
         NEW d \in [Verts -> Sample(l)], NEW vs, \A k \in 1 .. D : Even(ch.levels[k].val),
         NEW r, r = Flushed(ch, l, d, vs)
  PROVE  Renewed(ch, r, l, d, vs, D)
<1> DEFINE t == Scattered(ch, l, d, vs)
           a == ch.levels[l].val
           w == Spread(d, vs, a)
           delta == [x \in Sites |-> Less(t.levels[l].val[x], a[x])]
           p == ProlongateEditUp(t, l, delta)
<1>1. t \in Channel(D, n) /\ t.name = ch.name
  BY ScatteredIs
<1>2. t = Scattered(ch, l, d, vs)
  OBVIOUS
<1> HIDE DEF t
<1>3. Revalued(ch, t, l, w)
  BY <1>2, ScatteredHas
<1>4. DOMAIN ch.levels = 1 .. D /\ ch.levels[l] \in LevelAt(l, n) /\ a \in [Sites -> Sample(l)]
  BY Zenon, ChannelLevels, LevelFields
<1>5. w = Spread(d, vs, a) /\ Even(a)
  OBVIOUS
<1>6. r = NoteEdit(p, l)
  BY <1>2 DEF Flushed
<1> HIDE DEF a, w
<1>7. Even(w) /\ w \in [Sites -> Sample(l)]
      /\ \A x \in Sites : w[x] = IF x[2] \in vs THEN d[x[2]] ELSE a[x]
  BY <1>4, <1>5, SpreadIs
<1>8. /\ t.name = ch.name /\ t.tok = ch.tok /\ t.type = ch.type /\ t.rule = ch.rule /\ t.persist = ch.persist
      /\ t.levels[l].val = w /\ t.levels[l].held = "chunks" /\ t.levels[l].tok = ch.levels[l].tok
      /\ t.levels[l].owes = ch.levels[l].owes /\ \A k \in 1 .. D : k # l => t.levels[k] = ch.levels[k]
  BY <1>3, <1>4 DEF Revalued
<1>9. l \in Nat /\ \A x \in Sample(l) : x \in [1 .. l -> Int]
  BY StoreAssumption DEF Sample
<1>10. delta \in [Sites -> [1 .. l -> Int]]
  <2>1. \A x \in Sites : Less(w[x], a[x]) \in Sample(l)
    BY <1>4, <1>7, <1>9, AddedSample
  <2> QED BY <1>8, <1>9, <2>1
<1>11. Even(delta)
  BY <1>5, <1>7, <1>8 DEF Even
<1>12. \A x \in Sites : x[2] \notin vs => delta[x] = Zero(l)
  <2> TAKE x \in Sites
  <2>1. a[x] \in Sample(l)
    BY <1>4
  <2>2. x[2] \notin vs => t.levels[l].val[x] = a[x]
    BY <1>7, <1>8
  <2>3. Less(a[x], a[x]) = Zero(l)
    BY <1>9, <2>1, LessSelf
  <2> QED BY <2>2, <2>3
<1>13. \A k \in 1 .. D : Even(t.levels[k].val)
  BY <1>7, <1>8
<1>14. p = ProlongateEditUp(t, l, delta)
  OBVIOUS
<1> HIDE DEF delta, p
<1>15. /\ p.name = t.name /\ p.tok = t.tok /\ p.type = t.type /\ p.rule = t.rule /\ p.persist = t.persist
       /\ p \in Channel(D, n) /\ (p = t \/ Climbed(t.levels, p.levels, l, D, D, delta))
  <2>1. t.levels[l].held # "none"
    BY <1>8
  <2> QED BY <1>1, <1>10, <1>11, <1>13, <1>14, <2>1, ProlongateHas
<1>16. /\ r.name = p.name /\ r.tok = p.tok /\ r.type = p.type /\ r.rule = p.rule /\ r.persist = p.persist
       /\ DOMAIN r.levels = 1 .. D
       /\ r.levels[l].tok = p.levels[l].tok /\ r.levels[l].val = p.levels[l].val
       /\ r.levels[l].held = p.levels[l].held
       /\ \A k \in 1 .. D : k # l => r.levels[k] = p.levels[k]
       /\ r.levels[l].owes = (p.levels[l].owes \/ ~(l < 2 \/ p.rule # "authored" \/ ~p.persist))
  BY <1>6, <1>15, NoteEditHas
<1>17. /\ p.levels[l].val = w /\ p.levels[l].held # "none" /\ p.levels[l].tok = ch.levels[l].tok
       /\ p.levels[l].owes = ch.levels[l].owes
  BY <1>8, <1>15 DEF Climbed
<1>18. \A k \in 1 .. D : k < l => p.levels[k] = ch.levels[k]
  BY <1>8, <1>15 DEF Climbed
<1>19. ASSUME NEW k \in 1 .. D, k > l
       PROVE  /\ p.levels[k].tok = ch.levels[k].tok /\ p.levels[k].owes = ch.levels[k].owes
              /\ Even(p.levels[k].val) /\ (p.levels[k].held = "none" => p.levels[k] = ch.levels[k])
              /\ ch.levels[k].held # "none"
                   => \A x \in Sites : x[2] \notin vs => p.levels[k].val[x] = ch.levels[k].val[x]
  <2>1. t.levels[k] = ch.levels[k] /\ l < k /\ k <= D
    BY <1>8, <1>19
  <2>2. CASE p = t
    BY <1>13, <2>1, <2>2
  <2>3. CASE Climbed(t.levels, p.levels, l, D, D, delta)
    BY <1>12, <2>1, <2>3 DEF Climbed
  <2> QED BY <1>15, <2>2, <2>3
<1>20. \A k \in 1 .. D : k = l \/ k < l \/ k > l
  OBVIOUS
<1>21. \A k \in 1 .. D : /\ r.levels[k].tok = ch.levels[k].tok
                         /\ k # l => r.levels[k].owes = ch.levels[k].owes
                         /\ k < l => r.levels[k] = ch.levels[k]
  <2> TAKE k \in 1 .. D
  <2>1. CASE k = l
    BY <1>16, <1>17, <2>1
  <2>2. CASE k < l
    BY <1>16, <1>18, <2>2
  <2>3. CASE k > l
    BY <1>16, <1>19, <2>3
  <2> QED BY <2>1, <2>2, <2>3
<1>22. \A k \in 1 .. D : k > l =>
         /\ Even(r.levels[k].val) /\ (r.levels[k].held = "none" => r.levels[k] = ch.levels[k])
         /\ ch.levels[k].held # "none"
              => \A x \in Sites : x[2] \notin vs => r.levels[k].val[x] = ch.levels[k].val[x]
  <2> TAKE k \in 1 .. D
  <2>1. k > l => k # l /\ r.levels[k] = p.levels[k]
    BY <1>16
  <2> QED BY <1>19, <2>1
<1>23. r.levels[l].val = Spread(d, vs, ch.levels[l].val) /\ r.levels[l].held # "none"
  BY <1>5, <1>16, <1>17 DEF a
<1>24. /\ r.name = ch.name /\ r.tok = ch.tok /\ r.type = ch.type /\ r.rule = ch.rule /\ r.persist = ch.persist
       /\ r.levels[l].owes = (ch.levels[l].owes \/ ~(l < 2 \/ ch.rule # "authored" \/ ~ch.persist))
  BY <1>8, <1>15, <1>16, <1>17
<1> QED BY <1>21, <1>22, <1>23, <1>24 DEF Renewed

LEMMA FlushMaskHas ==
  ASSUME NEW nm, Named(nm), NEW n \in Nat, NEW lv \in Lives(nm, n), Seamless(lv.store), NEW l \in Levels,
         lv.mask[l] \in MaskAt(l), NEW vs, NEW c \in DOMAIN nm, nm[c] = "mask",
         NEW r, r = FlushMask(lv, l, vs)
  PROVE  /\ r \in Lives(nm, n) /\ r.pos = lv.pos /\ r.owes = lv.owes
         /\ \A i \in DOMAIN nm : i # c => r.store[i] = lv.store[i]
         /\ Renewed(lv.store[c], r.store[c], l, lv.mask[l], vs, Depth)
         /\ \A k \in Levels : r.mask[k] = IF k > l /\ lv.mask[k] # None THEN MaskOf(r.store, k) ELSE lv.mask[k]
<1> DEFINE ch == Flushed(lv.store[c], l, lv.mask[l], vs)
           u == [lv.store EXCEPT ![c] = ch]
           m == [k \in Levels |-> IF k > l /\ lv.mask[k] # None THEN MaskOf(u, k) ELSE lv.mask[k]]
<1>1. lv.store \in Store(nm, n) /\ Depth \in Nat /\ l \in 1 .. Depth
  BY LogAssumption DEF Lives, Levels
<1>2. FindChannel(lv.store, "mask") = c
  BY <1>1, FindAt
<1>3. r = [lv EXCEPT !.store = u, !.mask = m]
  BY <1>2 DEF FlushMask, Lives
<1>4. r \in Lives(nm, n)
  BY FlushMaskIs
<1>5. lv.store[c] \in Channel(Depth, n) /\ DOMAIN lv.store = DOMAIN nm /\ DOMAIN lv.store[c].levels = Levels
  BY <1>1, StoreHas DEF Levels
<1>6. \A k \in 1 .. Depth : Even(lv.store[c].levels[k].val)
  <2> TAKE k \in 1 .. Depth
  <2>1. k \in Levels
    BY DEF Levels
  <2> QED BY <1>5, <2>1 DEF Seamless, Even
<1>7. Renewed(lv.store[c], ch, l, lv.mask[l], vs, Depth)
  <2> DEFINE d == lv.mask[l]
             a == lv.store[c]
  <2>1. d \in [Verts -> Sample(l)] /\ ch = Flushed(a, l, d, vs)
    BY DEF MaskAt
  <2>2. a \in Channel(Depth, n) /\ \A k \in 1 .. Depth : Even(a.levels[k].val)
    BY <1>5, <1>6
  <2> HIDE DEF d, a, ch
  <2>3. Renewed(a, ch, l, d, vs, Depth)
    BY <1>1, <2>1, <2>2, FlushedHas
  <2> QED BY <2>3 DEF a, d
<1> HIDE DEF ch
<1>8. u[c] = ch /\ \A i \in DOMAIN nm : i # c => u[i] = lv.store[i]
  BY <1>5
<1> HIDE DEF u
<1>9. \A k \in Levels : m[k] = IF k > l /\ lv.mask[k] # None THEN MaskOf(u, k) ELSE lv.mask[k]
  OBVIOUS
<1> HIDE DEF m
<1>10. r.store = u /\ r.mask = m /\ r.pos = lv.pos /\ r.owes = lv.owes
  BY <1>3 DEF Lives
<1> QED BY <1>4, <1>7, <1>8, <1>9, <1>10

LEMMA FlushMaskCoherent ==
  ASSUME NEW nm, Named(nm), NEW n \in Nat, NEW lv \in Lives(nm, n), Sound(lv.store), Seamless(lv.store),
         NEW l \in Levels, lv.mask[l] \in MaskAt(l), NEW vs, NEW c \in DOMAIN nm, nm[c] = "mask",
         \A k \in Levels : k # l => lv.mask[k] = None \/ lv.mask[k] = MaskOf(lv.store, k),
         \A w \in Verts : w \notin vs => lv.mask[l][w] = MaskOf(lv.store, l)[w],
         NEW r, r = FlushMask(lv, l, vs)
  PROVE  /\ Sound(r.store) /\ Seamless(r.store) /\ Alike(lv.store, r.store)
         /\ \A k \in Levels : r.mask[k] = None \/ r.mask[k] = MaskOf(r.store, k)
<1> DEFINE s == lv.store
           u == r.store
           d == lv.mask[l]
<1>1. /\ r \in Lives(nm, n)
      /\ \A i \in DOMAIN nm : i # c => u[i] = s[i]
      /\ Renewed(s[c], u[c], l, d, vs, Depth)
      /\ \A k \in Levels : r.mask[k] = IF k > l /\ lv.mask[k] # None THEN MaskOf(u, k) ELSE lv.mask[k]
  BY FlushMaskHas
<1>2. s \in Store(nm, n) /\ u \in Store(nm, n) /\ DOMAIN d = Verts
  BY <1>1 DEF Lives, MaskAt
<1>3. Sound(s) /\ Seamless(s) /\ \A k \in Levels : k # l => lv.mask[k] = None \/ lv.mask[k] = MaskOf(s, k)
  OBVIOUS
<1>4. \A w \in Verts : w \notin vs => d[w] = MaskOf(s, l)[w]
  OBVIOUS
<1>5. lv.mask[l] = d /\ DOMAIN d = Verts
  BY <1>2
<1> HIDE DEF s, u, d
<1>6. /\ DOMAIN s = DOMAIN nm /\ DOMAIN u = DOMAIN nm
      /\ \A i \in DOMAIN nm : DOMAIN s[i].levels = Levels /\ DOMAIN u[i].levels = Levels
  BY <1>2, StoreForm DEF Levels
<1>7. \A k \in Levels : k \in 1 .. Depth /\ (k = l \/ k < l \/ k > l)
  BY DEF Levels
<1>8. /\ u[c].name = s[c].name /\ u[c].tok = s[c].tok
      /\ \A k \in Levels : u[c].levels[k].tok = s[c].levels[k].tok
      /\ \A k \in Levels : k < l => u[c].levels[k] = s[c].levels[k]
      /\ u[c].levels[l].val = Spread(d, vs, s[c].levels[l].val) /\ u[c].levels[l].held # "none"
      /\ \A k \in Levels : k > l =>
           Even(u[c].levels[k].val) /\ (u[c].levels[k].held = "none" => u[c].levels[k] = s[c].levels[k])
  BY <1>1, <1>7 DEF Renewed
<1>9. \A i \in DOMAIN nm : \A k \in Levels :
        /\ u[i].levels[k].tok = s[i].levels[k].tok
        /\ u[i].levels[k].held = "none" => u[i].levels[k] = s[i].levels[k]
        /\ Even(u[i].levels[k].val)
  <2> TAKE i \in DOMAIN nm
  <2> TAKE k \in Levels
  <2>1. Even(s[i].levels[k].val)
    BY <1>3, <1>6 DEF Seamless, Even
  <2>2. CASE i # c
    BY <1>1, <2>1, <2>2
  <2>3. CASE i = c /\ k < l
    BY <1>8, <2>1, <2>3
  <2>4. CASE i = c /\ k > l
    BY <1>8, <2>4
  <2>5. CASE i = c /\ k = l
    <3>1. Even(Spread(d, vs, s[i].levels[k].val))
      BY <2>1, SpreadIs
    <3> QED BY <1>8, <2>5, <3>1
  <2> QED BY <1>7, <2>2, <2>3, <2>4, <2>5
<1>10. Seamless(u)
  BY <1>6, <1>9 DEF Seamless, Even
<1>11. Sound(u)
  <2> SUFFICES ASSUME NEW i \in DOMAIN nm, NEW k \in Levels
               PROVE  /\ u[i].levels[k].tok = s[i].levels[k].tok
                      /\ s[i].levels[k].val = Blank(k) \/ s[i].levels[k].held # "none"
                           => (u[i].levels[k].held = "none" => u[i].levels[k].val = Blank(k))
                      /\ k = L /\ s[i].levels[k].held # "none" => u[i].levels[k].held # "none"
    BY <1>2, <1>3, SoundBy
  <2> QED BY <1>9
<1>12. Alike(s, u)
  <2>1. \A i \in DOMAIN s : u[i].name = s[i].name /\ u[i].tok = s[i].tok
    BY <1>1, <1>6, <1>8
  <2> QED BY <1>6, <1>9, <2>1 DEF Alike
<1>13. \A k \in Levels : Raw(u, "mask", k) = u[c].levels[k].val /\ Raw(s, "mask", k) = s[c].levels[k].val
  <2>1. "mask" \in Names
    BY DEF Names
  <2> QED BY <1>2, <2>1, RawIs
<1>14. \A k \in Levels : MaskOf(u, k) = MaskFrom(u[c].levels[k].val) /\ MaskOf(s, k) = MaskFrom(s[c].levels[k].val)
  BY <1>2, <1>3, <1>11, <1>13, MaskRaw
<1>15. ASSUME NEW k \in Levels PROVE r.mask[k] = None \/ r.mask[k] = MaskOf(u, k)
  <2>1. CASE k < l
    <3>1. MaskOf(u, k) = MaskOf(s, k) /\ ~(k > l) /\ k # l
      BY <1>7, <1>8, <1>14, <2>1
    <3> QED BY <1>1, <1>3, <3>1
  <2>2. CASE k > l
    BY <1>1, <2>2
  <2>3. CASE k = l
    <3>1. r.mask[k] = d
      BY <1>1, <1>5, <1>7, <2>3
    <3>2. \A w \in Verts : MaskOf(u, l)[w] = d[w]
      <4> TAKE w \in Verts
      <4>1. <<Canon[w], w>> \in Sites
        BY LogAssumption, StoreAssumption DEF Sites
      <4>2. Spread(d, vs, s[c].levels[l].val)[<<Canon[w], w>>]
              = IF w \in vs THEN d[w] ELSE s[c].levels[l].val[<<Canon[w], w>>]
        BY <4>1, SpreadIs
      <4>3. MaskOf(u, l)[w] = Spread(d, vs, s[c].levels[l].val)[<<Canon[w], w>>]
        BY <1>8, <1>14 DEF MaskFrom
      <4>4. MaskOf(s, l)[w] = s[c].levels[l].val[<<Canon[w], w>>]
        BY <1>14 DEF MaskFrom
      <4> QED BY <1>4, <4>2, <4>3, <4>4
    <3>3. MaskOf(u, l) = d
      <4>1. d \in MaskAt(l) /\ MaskOf(u, l) \in MaskAt(l)
        BY <1>2, <1>5, MaskOfIs
      <4> QED BY <3>2, <4>1 DEF MaskAt
    <3> QED BY <2>3, <3>1, <3>3
  <2> QED BY <1>7, <2>1, <2>2, <2>3
<1> QED BY <1>10, <1>11, <1>12, <1>15 DEF s, u

\* What is handed down after an edit of the mask at level l.
HandedOn(l, u) ==
  [given EXCEPT !["mask"] = [k \in Levels |->
     IF k > l /\ ValueAt(live.store, "mask", k) = @[k] THEN ValueAt(u, "mask", k) ELSE @[k]]]

\* An edit of vertex v in the domain of level l, over the store s.
Edited(l, v, s, b) ==
  /\ s = EnsureChannels(live.store, {"mask"}, used.toks)
  /\ used'.toks = used.toks + (Len(s) - Len(live.store)) * (Depth + 1)
  /\ b.store = s /\ b.pos = live.pos /\ b.owes = live.owes
  /\ b.mask = [live.mask EXCEPT ![l] = b.mask[l]]
  /\ \E m : /\ m = IF live.mask[l] = None THEN MaskOf(s, l) ELSE live.mask[l]
            /\ b.mask[l] = [m EXCEPT ![v] = Bumped(@)]
  /\ \A nu, n : b.store \in Store(nu, n) /\ b.mask \in Masks => b \in Lives(nu, n)
  /\ live' = FlushMask(b, l, {v}) /\ given' = HandedOn(l, live'.store)

LEMMA EditMaskHas ==
  ASSUME Inv, EditMask
  PROVE  /\ ~open /\ open' = open /\ steps = <<>> /\ steps' = steps /\ cursor' = cursor
         /\ \E l \in Levels, v \in Verts : \E s, b : Edited(l, v, s, b)
<1>1. PICK l \in Levels, v \in Verts :
        LET s == EnsureChannels(live.store, {"mask"}, used.toks)
            m == IF live.mask[l] = None THEN MaskOf(s, l) ELSE live.mask[l]
            edited == [m EXCEPT ![v] = Bumped(@)]
            lv == FlushMask([live EXCEPT !.store = s, !.mask[l] = edited], l, {v})
        IN  /\ live' = lv
            /\ given' = [given EXCEPT !["mask"] = [k \in Levels |->
                  IF k > l /\ ValueAt(live.store, "mask", k) = @[k]
                  THEN ValueAt(lv.store, "mask", k) ELSE @[k]]]
            /\ used' = [used EXCEPT !.calls = @ + 1,
                                    !.toks = @ + (Len(s) - Len(live.store)) * (Depth + 1)]
  BY Zenon DEF EditMask
<1>2. ~open /\ UNCHANGED <<open, stroke, steps, cursor, floor>> /\ steps = <<>>
  BY DEF EditMask
<1> DEFINE s == EnsureChannels(live.store, {"mask"}, used.toks)
           m == IF live.mask[l] = None THEN MaskOf(s, l) ELSE live.mask[l]
           edited == [m EXCEPT ![v] = Bumped(@)]
           masks == [live.mask EXCEPT ![l] = edited]
           b == [live EXCEPT !.store = s, !.mask = masks]
<1>3. PICK nm : live \in Lives(nm, used.toks) /\ live.mask \in Masks
  BY StoredAs
<1>4. live' = FlushMask(b, l, {v})
  <2>1. [live EXCEPT !.store = s, !.mask[l] = edited] = b
    BY <1>3 DEF Lives
  <2> QED BY <1>1, <2>1
<1>5. used'.toks = used.toks + (Len(s) - Len(live.store)) * (Depth + 1)
  <2>1. used \in Uses
    BY DEF Inv, Logged
  <2> QED BY <1>1, <2>1 DEF Uses
<1> HIDE DEF s
<1>6. m = (IF live.mask[l] = None THEN MaskOf(s, l) ELSE live.mask[l]) /\ edited = [m EXCEPT ![v] = Bumped(@)]
  OBVIOUS
<1> HIDE DEF m, edited
<1>7. masks[l] = edited /\ masks = [live.mask EXCEPT ![l] = masks[l]]
  <2>1. DOMAIN live.mask = Levels
    BY <1>3, MasksAre
  <2> QED BY <2>1
<1> HIDE DEF masks
<1>8. /\ b.store = s /\ b.pos = live.pos /\ b.owes = live.owes /\ b.mask = masks
      /\ \A nu, n : b.store \in Store(nu, n) /\ b.mask \in Masks => b \in Lives(nu, n)
  <2>1. b.store = s /\ b.pos = live.pos /\ b.owes = live.owes /\ b.mask = masks
    BY <1>3 DEF Lives
  <2>2. ASSUME NEW nu, NEW n, s \in Store(nu, n), masks \in Masks PROVE b \in Lives(nu, n)
    BY <1>3, <2>2 DEF Lives
  <2> HIDE DEF b
  <2> QED BY <2>1, <2>2
<1> HIDE DEF b
<1>10. given' = HandedOn(l, live'.store)
  BY <1>1 DEF HandedOn, s
<1>9. Edited(l, v, s, b)
  <2>1. /\ s = EnsureChannels(live.store, {"mask"}, used.toks)
        /\ used'.toks = used.toks + (Len(s) - Len(live.store)) * (Depth + 1)
    BY <1>5 DEF s
  <2>2. b.mask[l] = [m EXCEPT ![v] = Bumped(@)]
    BY <1>6, <1>7, <1>8
  <2>3. b.mask = [live.mask EXCEPT ![l] = b.mask[l]]
    BY <1>7, <1>8
  <2> QED BY <1>4, <1>6, <1>8, <1>10, <2>1, <2>2, <2>3 DEF Edited
<1> QED BY <1>2, <1>9

\* What an edit finds: a store with the mask channel, and masks but one from it.
EditsFrom(nm, nu, n, c, l, v, s, b) ==
  /\ Named(nm) /\ live.store \in Store(nm, used.toks) /\ used.toks \in Nat /\ used.toks <= n
  /\ n \in Nat /\ Named(nu) /\ s \in Store(nu, n) /\ Made(nm, live.store, nu, s, used.toks)
  /\ c \in DOMAIN nu /\ nu[c] = "mask" /\ b \in Lives(nu, n) /\ b.store = s
  /\ Sound(s) /\ Seamless(s) /\ b.mask[l] \in MaskAt(l)
  /\ \A w \in Verts : w \notin {v} => b.mask[l][w] = MaskOf(s, l)[w]
  /\ \A k \in Levels : k # l => b.mask[k] = None \/ b.mask[k] = MaskOf(s, k)

LEMMA EditStarts ==
  ASSUME Inv, NEW ds, Valued(ds), ~open, steps = <<>>, NEW l \in Levels, NEW v \in Verts, NEW s, NEW b,
         Edited(l, v, s, b)
  PROVE  \E nm, nu, n, c : EditsFrom(nm, nu, n, c, l, v, s, b)
<1>3. PICK nm : Named(nm) /\ live \in Lives(nm, used.toks) /\ live.store \in Store(nm, used.toks)
                /\ live.mask \in Masks /\ used.toks \in Nat
  BY StoredAs
<1>4. Chain(ds, live, steps, cursor, TRUE) /\ Coherent(live) /\ cursor = 0
  <2>1. open \in BOOLEAN /\ cursor \in 0 .. Len(steps)
    BY DEF Inv, Logged
  <2>2. Len(steps) = 0
    OBVIOUS
  <2>3. Chain(ds, live, steps, cursor, TRUE) /\ Coherent(live)
    BY ClosedHas
  <2>5. cursor = 0
    BY <2>1, <2>2
  <2> QED BY <2>3, <2>5
<1>5. Sound(live.store) /\ Seamless(live.store)
      /\ \A k \in Levels : live.mask[k] = None \/ live.mask[k] = MaskOf(live.store, k)
  <2>1. Calm(Reads(live))
    <3>1. cursor + 1 \in 1 .. Len(steps) + 1
      BY <1>4
    <3> QED BY <1>4, <3>1 DEF Chain
  <2>2. Sound(live.store) /\ Seamless(live.store)
        /\ \A k \in Levels : k = L \/ live.mask[k] = None \/ live.mask[k] = MaskOf(live.store, k)
    BY <1>4 DEF Coherent
  <2>3. live.mask[L] = MaskOf(live.store, L)
    BY <1>3, <2>1, <2>2, CalmMask
  <2> QED BY <2>2, <2>3
<1> DEFINE n2 == used.toks + (Len(s) - Len(live.store)) * (Depth + 1)
<1>6. /\ s = EnsureChannels(live.store, {"mask"}, used.toks)
      /\ b.store = s /\ b.pos = live.pos /\ b.owes = live.owes
      /\ b.mask = [live.mask EXCEPT ![l] = b.mask[l]]
      /\ \A nx, n : b.store \in Store(nx, n) /\ b.mask \in Masks => b \in Lives(nx, n)
  BY DEF Edited
<1>7. PICK m : /\ m = IF live.mask[l] = None THEN MaskOf(s, l) ELSE live.mask[l]
               /\ b.mask[l] = [m EXCEPT ![v] = Bumped(@)]
  BY DEF Edited
<1>8. /\ n2 \in Nat /\ used.toks <= n2
      /\ \E nu : /\ Named(nu) /\ s \in Store(nu, n2) /\ Made(nm, live.store, nu, s, used.toks)
                 /\ \E c \in DOMAIN nu : nu[c] = "mask"
  <2> DEFINE t == used.toks
             st == live.store
  <2>1. t \in Nat /\ Named(nm) /\ st \in Store(nm, t)
    BY <1>3
  <2>2. s = EnsureChannels(st, {"mask"}, t) /\ n2 = t + (Len(s) - Len(st)) * (Depth + 1)
    BY <1>6
  <2> HIDE DEF t, st, n2
  <2>3. /\ n2 \in Nat /\ t <= n2
        /\ \E nu : /\ Named(nu) /\ s \in Store(nu, n2) /\ Made(nm, st, nu, s, t)
                   /\ \E c \in DOMAIN nu : nu[c] = "mask"
    BY <2>1, <2>2, EnsureMade
  <2> QED BY <2>3 DEF t, st
<1> HIDE DEF n2
<1>9. PICK nu : /\ Named(nu) /\ s \in Store(nu, n2) /\ Made(nm, live.store, nu, s, used.toks)
                /\ \E c \in DOMAIN nu : nu[c] = "mask"
  BY <1>8
<1>10. PICK c \in DOMAIN nu : nu[c] = "mask"
  BY <1>9
<1>11. Sound(s) /\ Seamless(s) /\ \A k \in Levels : MaskOf(s, k) = MaskOf(live.store, k)
  <2> DEFINE st == live.store
             t == used.toks
  <2>1. /\ Named(nm) /\ t \in Nat /\ st \in Store(nm, t) /\ Sound(st) /\ Seamless(st)
        /\ Named(nu) /\ n2 \in Nat /\ s \in Store(nu, n2) /\ Made(nm, st, nu, s, t)
    BY <1>3, <1>5, <1>8, <1>9
  <2> HIDE DEF st, t
  <2>2. Sound(s) /\ Seamless(s) /\ \A k \in Levels : MaskOf(s, k) = MaskOf(st, k)
    BY <2>1, MadeSound
  <2> QED BY <2>2 DEF st
<1>12. m = MaskOf(s, l) /\ m \in MaskAt(l)
  <2>1. live.mask[l] = None \/ live.mask[l] = MaskOf(live.store, l)
    BY <1>5
  <2>2. MaskOf(s, l) \in MaskAt(l)
    BY <1>8, <1>9, MaskOfIs
  <2> QED BY <1>7, <1>11, <2>1, <2>2
<1>13. b.mask[l] \in MaskAt(l) /\ \A w \in Verts : w \notin {v} => b.mask[l][w] = MaskOf(s, l)[w]
  <2>1. [m EXCEPT ![v] = Bumped(@)] \in MaskAt(l)
    BY <1>12, BumpedIs
  <2>2. DOMAIN m = Verts
    BY <1>12 DEF MaskAt
  <2> QED BY <1>7, <1>12, <2>1, <2>2
<1>14. b.mask \in Masks /\ \A k \in Levels : k # l => b.mask[k] = live.mask[k]
  <2> DEFINE e == b.mask[l]
  <2>1. e \in MaskAt(l) /\ b.mask = [live.mask EXCEPT ![l] = e]
    BY <1>6, <1>13
  <2> HIDE DEF e
  <2>2. [live.mask EXCEPT ![l] = e] \in Masks
    BY <1>3, <2>1, MaskPut
  <2>3. DOMAIN live.mask = Levels
    BY <1>3, MasksAre
  <2> QED BY <2>1, <2>2, <2>3
<1>15. b \in Lives(nu, n2)
  BY <1>6, <1>9, <1>14
<1>16. \A k \in Levels : k # l => b.mask[k] = None \/ b.mask[k] = MaskOf(b.store, k)
  BY <1>5, <1>6, <1>11, <1>14
<1>17. EditsFrom(nm, nu, n2, c, l, v, s, b)
  BY <1>3, <1>6, <1>8, <1>9, <1>10, <1>11, <1>13, <1>15, <1>16 DEF EditsFrom
<1> QED BY <1>17

LEMMA EditMaskValues ==
  ASSUME Inv, NEW ds, Valued(ds), EditMask, NEW es, es = Alone(live')
  PROVE  Valued(es)'
<1>1. /\ ~open /\ open' = open /\ steps = <<>> /\ steps' = steps /\ cursor' = cursor
      /\ \E l \in Levels, v \in Verts : \E s, b : Edited(l, v, s, b)
  BY EditMaskHas
<1>0. PICK l \in Levels, v \in Verts : \E s, b : Edited(l, v, s, b)
  BY <1>1
<1>2. PICK s, b : Edited(l, v, s, b)
  BY <1>0
<1>3. PICK nm, nu, n2, c : EditsFrom(nm, nu, n2, c, l, v, s, b)
  BY <1>1, <1>2, EditStarts
<1>4. open' = FALSE /\ cursor = 0
  <2>1. open \in BOOLEAN /\ cursor \in 0 .. Len(steps)
    BY DEF Inv, Logged
  <2>2. Len(steps) = 0
    BY <1>1
  <2> QED BY <1>1, <2>1, <2>2
<1>5. live' = FlushMask(b, l, {v})
  BY <1>2 DEF Edited
<1>6. /\ n2 \in Nat /\ Named(nu) /\ c \in DOMAIN nu /\ nu[c] = "mask" /\ b \in Lives(nu, n2)
      /\ Sound(b.store) /\ Seamless(b.store) /\ b.mask[l] \in MaskAt(l)
      /\ \A w \in Verts : w \notin {v} => b.mask[l][w] = MaskOf(b.store, l)[w]
      /\ \A k \in Levels : k # l => b.mask[k] = None \/ b.mask[k] = MaskOf(b.store, k)
  BY <1>3 DEF EditsFrom
<1>17. /\ Sound(live'.store) /\ Seamless(live'.store)
       /\ \A k \in Levels : live'.mask[k] = None \/ live'.mask[k] = MaskOf(live'.store, k)
       /\ live' \in Lives(nu, n2)
  <2> DEFINE r == live'
             vs == {v}
  <2>1. /\ Sound(b.store) /\ Seamless(b.store) /\ r = FlushMask(b, l, vs)
        /\ \A w \in Verts : w \notin vs => b.mask[l][w] = MaskOf(b.store, l)[w]
    BY <1>5, <1>6
  <2> HIDE DEF r, vs
  <2>2. /\ Sound(r.store) /\ Seamless(r.store)
        /\ \A k \in Levels : r.mask[k] = None \/ r.mask[k] = MaskOf(r.store, k)
    BY <1>6, <2>1, FlushMaskCoherent
  <2>3. r \in Lives(nu, n2)
    BY <1>6, <2>1, FlushMaskIs
  <2> QED BY <2>2, <2>3 DEF r
<1>18. Coherent(live')
  BY <1>17 DEF Coherent
<1>19. live'.mask[L] = MaskOf(live'.store, L)
  <2>1. live'.mask \in Masks
    BY <1>17 DEF Lives
  <2>2. L \in Levels /\ live'.mask[L] # None
    <3>1. L \in Levels /\ live'.mask[L] \in MaskAt(L)
      BY <2>1, MasksAre
    <3>2. DOMAIN live'.mask[L] = Verts
      BY <3>1 DEF MaskAt
    <3> QED BY <3>1, <3>2, LogAssumption DEF None
  <2> QED BY <1>17, <2>2
<1>20. Chain(es, live', steps', cursor', TRUE)
  <2>1. Chain(Alone(live'), live', <<>>, 0, TRUE)
    BY <1>6, <1>17, <1>18, <1>19, StartsOver
  <2> QED BY <1>1, <1>4, <2>1
<1>21. \A k \in 1 .. Len(steps') : SoundStep(steps'[k], used'.toks)
  BY <1>1
<1> QED BY <1>4, <1>18, <1>20, <1>21, ClosedValues

-----------------------------------------------------------------------------
(* The fold of a stroke.                                                   *)

\* Where the stores differ, the step has kept what the first one holds.
Guarded(nm, s, u, t) ==
  \A c \in DOMAIN nm : \A l \in Levels : <<nm[c], l>> \in InStore => \A x \in Sites :
    \/ u[c].levels[l].val[x] = s[c].levels[l].val[x]
    \/ \E q \in Patches(s, t, <<nm[c], l>>) : x \in DOMAIN q

LEMMA WriteLeads ==
  ASSUME NEW nm, Named(nm), NEW n \in Nat, NEW lv \in Lives(nm, n), NEW lw \in Lives(nm, n),
         lw.pos = lv.pos, lw.mask[L] = lv.mask[L], Alike(lv.store, lw.store),
         NEW t, NEW d, Reading(d), Leads(lv.store, t, d, Reads(lv)),
         Guarded(nm, lv.store, lw.store, t)
  PROVE  Leads(lw.store, t, d, Reads(lw))
<1> DEFINE s == lv.store
           u == lw.store
<1>1. s \in Store(nm, n) /\ u \in Store(nm, n)
  BY DEF Lives
<1>2. \A p : Patches(u, t, p) = Patches(s, t, p)
  BY <1>1, AlikeIn
<1>3. /\ Reads(lv)[Pos] = lv.pos /\ Reads(lv)[Dense] = lv.mask[L]
      /\ \A p \in InStore : Reads(lv)[p] = Raw(s, p[1], p[2])
      /\ Reads(lw)[Pos] = lw.pos /\ Reads(lw)[Dense] = lw.mask[L]
      /\ \A p \in InStore : Reads(lw)[p] = Raw(u, p[1], p[2])
  BY ReadsAre
<1> HIDE DEF s, u
<1>4. ASSUME NEW p \in Spots PROVE Patched(Patches(u, t, p), d[p], Reads(lw)[p])
  <2>1. Patched(Patches(s, t, p), d[p], Reads(lv)[p])
    BY DEF Leads, s
  <2>2. CASE p \in {Pos, Dense}
    BY <1>2, <1>3, <2>1, <2>2
  <2>3. CASE p \in InStore
    <3>1. p = <<p[1], p[2]>> /\ p[1] \in Names /\ p[2] \in Levels
      BY <2>3, SpotsAre
    <3>2. CASE FindChannel(s, p[1]) = 0
      <4>1. FindChannel(u, p[1]) = 0
        BY <3>2, AlikeFinds DEF s, u
      <4>2. Reads(lw)[p] = Reads(lv)[p]
        BY <1>3, <2>3, <3>2, <4>1 DEF Raw
      <4> QED BY <1>2, <2>1, <4>2
    <3>3. CASE FindChannel(s, p[1]) # 0
      <4>1. PICK c \in DOMAIN nm : nm[c] = p[1]
        BY <1>1, <3>3, FindIs
      <4>2. Raw(s, nm[c], p[2]) = s[c].levels[p[2]].val /\ Raw(u, nm[c], p[2]) = u[c].levels[p[2]].val
        BY <1>1, <3>1, <4>1, RawIs
      <4>3. Reads(lv)[p] = s[c].levels[p[2]].val /\ Reads(lw)[p] = u[c].levels[p[2]].val
        BY <1>3, <2>3, <4>1, <4>2
      <4>4. \A x \in Sites : Reads(lw)[p][x] = Reads(lv)[p][x] \/ \E q \in Patches(s, t, p) : x \in DOMAIN q
        BY <2>3, <3>1, <4>1, <4>3 DEF s, u, Guarded
      <4>5. DOMAIN d[p] = Sites
        <5>1. d[p] \in ReadingAt(p) /\ p \notin {Pos, Dense}
          BY <2>3, SpotsAre DEF Reading
        <5> QED BY <5>1 DEF ReadingAt
      <4> QED BY <1>2, <2>1, <4>4, <4>5 DEF Patched
    <3> QED BY <3>2, <3>3
  <2> QED BY <2>2, <2>3, SpotsAre
<1> QED BY <1>4 DEF Leads, u

\* More patches, of what shows, of spots that had none.
LEMMA PatchLeads ==
  ASSUME NEW nm, Named(nm), NEW n \in Nat, NEW lv \in Lives(nm, n), NEW step, NEW t, NEW d, Reading(d),
         Leads(lv.store, step, d, Reads(lv)),
         \A p \in Spots :
           \/ Patches(lv.store, t, p) = Patches(lv.store, step, p)
           \/ /\ Patches(lv.store, step, p) = {}
              /\ \A q \in Patches(lv.store, t, p) : \A x \in DOMAIN q :
                   q[x] = Reads(lv)[p][x] /\ x \in DOMAIN d[p]
  PROVE  Leads(lv.store, t, d, Reads(lv))
<1> SUFFICES ASSUME NEW p \in Spots PROVE Patched(Patches(lv.store, t, p), d[p], Reads(lv)[p])
  BY DEF Leads
<1>1. Patched(Patches(lv.store, step, p), d[p], Reads(lv)[p])
  BY DEF Leads
<1>2. CASE Patches(lv.store, t, p) = Patches(lv.store, step, p)
  BY <1>1, <1>2
<1>3. CASE /\ Patches(lv.store, step, p) = {}
           /\ \A q \in Patches(lv.store, t, p) : \A x \in DOMAIN q :
                q[x] = Reads(lv)[p][x] /\ x \in DOMAIN d[p]
  <2>1. \A x \in DOMAIN d[p] : d[p][x] = Reads(lv)[p][x]
    BY <1>1, <1>3 DEF Patched
  <2> QED BY <1>3, <2>1 DEF Patched
<1> QED BY <1>2, <1>3

\* Blocks of the channels cs in these grids, at the session's level.
BlocksIn(s, cs, grids) == {Block(s, c, L, g) : c \in cs, g \in grids}

\* The step has no block of these channels.
Misses(step, s, cs) == \A b \in step.blocks : \A c \in cs : b.id.lev # s[c].levels[L].tok

LEMMA BlockHas ==
  ASSUME NEW nm, Named(nm), NEW n \in Nat, NEW s \in Store(nm, n), NEW c \in DOMAIN nm, NEW l \in Levels,
         NEW g, NEW b, b = Block(s, c, l, g)
  PROVE  /\ b.id.name = nm[c] /\ b.id.level = l /\ b.id.lev = s[c].levels[l].tok /\ b.id.chan < n
         /\ Resolve(s, b.id) = c /\ c # 0
         /\ b.grid = g /\ DOMAIN b.val = InGrid(g) /\ \A x \in InGrid(g) : b.val[x] = s[c].levels[l].val[x]
         /\ b.id = Identity(s, c, l)
<1>1. b.id = Identity(s, c, l) /\ b.grid = g /\ b.val = [x \in InGrid(g) |-> s[c].levels[l].val[x]]
  BY DEF Block
<1>2. s[c] \in Channel(Depth, n) /\ s[c].name = nm[c] /\ DOMAIN s[c].levels = Levels
  BY StoreHas DEF Levels
<1>3. s[c].tok < n
  <2>1. s[c].tok \in 0 .. n - 1
    BY <1>2 DEF Channel
  <2> QED BY <2>1
<1>4. /\ b.id.name = nm[c] /\ b.id.chan = s[c].tok /\ b.id.lev = s[c].levels[l].tok /\ b.id.level = l
  BY <1>1, <1>2 DEF Identity
<1>5. FindChannel(s, nm[c]) = c /\ c # 0
  BY FindAt
<1>6. Resolve(s, b.id) = c
  BY <1>2, <1>4, <1>5 DEF Resolve
<1> QED BY <1>1, <1>3, <1>4, <1>5, <1>6

\* What captureGrids() makes of a step that has no block of these channels.
LEMMA CaptureGridsHas ==
  ASSUME NEW nm, Named(nm), NEW n \in Nat, NEW s \in Store(nm, n), NEW step \in Step(n), SoundStep(step, n),
         NEW cs \in SUBSET DOMAIN nm, NEW grids,
         Misses(step, s, cs),
         NEW t, t = CaptureGrids(step, s, cs, grids)
  PROVE  /\ t.pos = step.pos /\ t.mask = step.mask /\ t.finer = step.finer /\ SoundStep(t, n)
         /\ t.blocks = step.blocks \cup BlocksIn(s, cs, grids)
<1> DEFINE made == {c \in cs : \A d \in step.preAttr : d.id.lev # Identity(s, c, L).lev}
           new(c) == {g \in grids : \A b \in step.blocks :
                                      ~(b.id.lev = Identity(s, c, L).lev /\ b.grid = g)}
           a == {[id |-> Identity(s, c, L), owes |-> s[c].levels[L].owes] : c \in made}
           bs == UNION {{Block(s, c, L, g) : g \in new(c)} : c \in cs}
<1>1. t = [step EXCEPT !.preAttr = step.preAttr \cup a, !.blocks = step.blocks \cup bs]
  BY DEF CaptureGrids, Step
<1>2. L \in Levels
  BY LogAssumption DEF Levels
<1>3. bs = BlocksIn(s, cs, grids)
  <2>1. ASSUME NEW c \in cs PROVE new(c) = grids
    <3>1. Identity(s, c, L).lev = s[c].levels[L].tok
      BY DEF Identity
    <3>2. \A b \in step.blocks : b.id.lev # s[c].levels[L].tok
      BY DEF Misses
    <3> QED BY <3>1, <3>2
  <2> HIDE DEF new
  <2> QED BY <2>1 DEF BlocksIn
<1>4. \A d \in a : d.id.level = L /\ d.id.chan < n
  <2>1. ASSUME NEW c \in DOMAIN nm PROVE Identity(s, c, L).level = L /\ Identity(s, c, L).chan < n
    <3>1. s[c] \in Channel(Depth, n)
      BY StoreHas
    <3>2. s[c].tok \in 0 .. n - 1
      BY <3>1 DEF Channel
    <3> QED BY <3>2 DEF Identity
  <2>2. made \subseteq DOMAIN nm
    OBVIOUS
  <2> HIDE DEF made
  <2> QED BY <2>1, <2>2
<1>5. \A b \in bs : b.id.level = L /\ b.id.chan < n
  <2>1. \A c \in cs, g \in grids : Block(s, c, L, g).id.level = L /\ Block(s, c, L, g).id.chan < n
    BY <1>2, BlockHas
  <2> HIDE DEF bs
  <2> QED BY <1>3, <2>1 DEF BlocksIn
<1> HIDE DEF a, bs
<1>6. /\ t.pos = step.pos /\ t.mask = step.mask /\ t.blocks = step.blocks \cup bs
      /\ t.finer = step.finer /\ t.preAttr = step.preAttr \cup a /\ t.postAttr = step.postAttr
  <2>1. step = [pos |-> step.pos, mask |-> step.mask, blocks |-> step.blocks, finer |-> step.finer,
                pre |-> step.pre, post |-> step.post, preAttr |-> step.preAttr,
                postAttr |-> step.postAttr]
    BY DEF Step
  <2> QED BY <1>1, <2>1
<1>7. SoundStep(t, n)
  <2>1. \A b \in t.blocks : b.id.level = L /\ b.id.chan < n
    BY <1>5, <1>6 DEF SoundStep
  <2>2. \A d \in t.preAttr \cup t.postAttr : d.id.level = L /\ d.id.chan < n
    BY <1>4, <1>6 DEF SoundStep
  <2> QED BY <1>6, <2>1, <2>2 DEF SoundStep
<1> QED BY <1>3, <1>6, <1>7

\* The step keeps every corner of these grids for the channels cs.
Covers(nm, s, t, cs, grids) ==
  \A c \in cs : \A x \in Sites : x[1] \in grids => \E q \in Patches(s, t, <<nm[c], L>>) : x \in DOMAIN q

LEMMA CaptureGridsLeads ==
  ASSUME NEW nm, Named(nm), NEW n \in Nat, NEW lv \in Lives(nm, n), NEW step \in Step(n), SoundStep(step, n),
         NEW cs \in SUBSET DOMAIN nm, NEW grids,
         Misses(step, lv.store, cs),
         NEW d, Reading(d), Leads(lv.store, step, d, Reads(lv)),
         NEW t, t = CaptureGrids(step, lv.store, cs, grids)
  PROVE  /\ Leads(lv.store, t, d, Reads(lv))
         /\ Covers(nm, lv.store, t, cs, grids)
<1> DEFINE s == lv.store
           new == BlocksIn(s, cs, grids)
<1>1. s \in Store(nm, n) /\ L \in Levels
  BY LogAssumption DEF Lives, Levels
<1>2. /\ t.pos = step.pos /\ t.mask = step.mask /\ t.finer = step.finer /\ SoundStep(t, n)
      /\ t.blocks = step.blocks \cup new
  <2>1. t = CaptureGrids(step, s, cs, grids) /\ Misses(step, s, cs)
    OBVIOUS
  <2> QED BY <1>1, <2>1, CaptureGridsHas
<1>3. \A b \in new : \E c \in cs, g \in grids : b = Block(s, c, L, g)
  BY DEF BlocksIn
<1>4. \A c \in cs, g \in grids : Block(s, c, L, g) \in new
  BY DEF BlocksIn
<1>5. \A b \in step.blocks : \A c \in cs : b.id.lev # s[c].levels[L].tok
  BY DEF Misses
<1>6. /\ \A p \in InStore : Reads(lv)[p] = Raw(s, p[1], p[2])
      /\ \A c \in DOMAIN nm : Raw(s, nm[c], L) = s[c].levels[L].val
  <2>1. \A c \in DOMAIN nm : nm[c] \in Names
    BY DEF Named
  <2>2. \A c \in DOMAIN nm : Raw(s, nm[c], L) = s[c].levels[L].val
    BY <1>1, <2>1, RawIs
  <2> QED BY <2>2, ReadsAre
<1> HIDE DEF s, new
<1>7. ASSUME NEW b \in new, NEW p, Resolve(s, b.id) # 0, b.id.name = p[1], b.id.level = p[2]
      PROVE  \E c \in cs : p[1] = nm[c] /\ p[2] = L
  BY <1>1, <1>3, <1>7, BlockHas
<1>8. ASSUME NEW p \in InStore
      PROVE  \/ Patches(s, t, p) = Patches(s, step, p)
             \/ /\ Patches(s, step, p) = {}
                /\ \A q \in Patches(s, t, p) : \A x \in DOMAIN q : q[x] = Reads(lv)[p][x] /\ x \in DOMAIN d[p]
  <2>1. /\ Patches(s, step, p)
               = ValsOf(Here(s, step.blocks, p)) \cup UNION {FinerPatches(f) : f \in Here(s, step.finer, p)}
        /\ Patches(s, t, p)
               = ValsOf(Here(s, t.blocks, p)) \cup UNION {FinerPatches(f) : f \in Here(s, step.finer, p)}
    BY <1>2, SpotsAre DEF Patches
  <2>2. Here(s, t.blocks, p) = Here(s, step.blocks, p) \cup Here(s, new, p)
    BY <1>2 DEF Here
  <2>3. CASE \A c \in cs : ~(p[1] = nm[c] /\ p[2] = L)
    <3>1. Here(s, new, p) = {}
      BY <1>7, <2>3 DEF Here
    <3> QED BY <2>1, <2>2, <3>1
  <2>4. ASSUME NEW c \in cs, p[1] = nm[c], p[2] = L
        PROVE  /\ Patches(s, step, p) = {}
               /\ \A q \in Patches(s, t, p) : \A x \in DOMAIN q : q[x] = Reads(lv)[p][x] /\ x \in DOMAIN d[p]
    <3>1. Patches(s, step, p) = ValsOf(Here(s, step.blocks, p)) /\ Patches(s, t, p) = ValsOf(Here(s, t.blocks, p))
      <4>1. Patches(s, step, p) = ValsOf(Here(s, step.blocks, p))
        BY Zenon, <2>4, PatchesAre
      <4>2. Patches(s, t, p) = ValsOf(Here(s, t.blocks, p))
        <5>1. SoundStep(t, n) /\ p[2] = L
          BY <1>2, <2>4
        <5> QED BY <5>1, PatchesAre
      <4> QED BY <4>1, <4>2
    <3>2. Here(s, step.blocks, p) = {}
      <4>1. ASSUME NEW b, Resolve(s, b.id) # 0, b.id.name = p[1], b.id.level = p[2]
            PROVE  b.id.lev = s[c].levels[L].tok
        <5>1. FindChannel(s, nm[c]) = c
          BY <1>1, FindAt
        <5> QED BY <2>4, <4>1, <5>1 DEF Resolve
      <4> QED BY <1>5, <4>1 DEF Here
    <3>3. Here(s, t.blocks, p) \subseteq new
      BY <2>2, <3>2 DEF Here
    <3>4. ASSUME NEW b \in Here(s, t.blocks, p), NEW x \in DOMAIN b.val
          PROVE  b.val[x] = Reads(lv)[p][x] /\ x \in DOMAIN d[p]
      <4>1. b \in new /\ b.id.name = p[1]
        BY <3>3 DEF Here
      <4>2. PICK e \in cs, g \in grids : b = Block(s, e, L, g)
        BY <1>3, <4>1
      <4>3. b.id.name = nm[e] /\ DOMAIN b.val = InGrid(g) /\ b.val[x] = s[e].levels[L].val[x]
        <5>1. /\ b.id.name = nm[e] /\ DOMAIN b.val = InGrid(g)
              /\ \A y \in InGrid(g) : b.val[y] = s[e].levels[L].val[y]
          BY <1>1, <4>2, BlockHas
        <5> QED BY <5>1
      <4>4. e = c
        BY <2>4, <4>1, <4>3 DEF Named
      <4>5. Reads(lv)[p] = s[c].levels[L].val
        BY <1>6, <2>4
      <4>6. DOMAIN d[p] = Sites
        <5>1. d[p] \in ReadingAt(p) /\ p \notin {Pos, Dense}
          BY SpotsAre DEF Reading
        <5> QED BY <5>1 DEF ReadingAt
      <4>7. x \in Sites
        BY <4>3 DEF InGrid
      <4> QED BY <4>3, <4>4, <4>5, <4>6, <4>7
    <3> QED BY <3>1, <3>2, <3>4 DEF ValsOf
  <2> QED BY <2>3, <2>4
<1>9. \A p \in {Pos, Dense} : Patches(s, t, p) = Patches(s, step, p)
  BY <1>2 DEF Patches
<1>10. Leads(s, t, d, Reads(lv))
  <2>1. ASSUME NEW p \in Spots
        PROVE  \/ Patches(s, t, p) = Patches(s, step, p)
               \/ /\ Patches(s, step, p) = {}
                  /\ \A q \in Patches(s, t, p) : \A x \in DOMAIN q :
                       q[x] = Reads(lv)[p][x] /\ x \in DOMAIN d[p]
    BY <1>8, <1>9, SpotsAre
  <2> QED BY <2>1, PatchLeads DEF s
<1>11. ASSUME NEW c \in cs, NEW x \in Sites, x[1] \in grids
       PROVE  \E q \in Patches(s, t, <<nm[c], L>>) : x \in DOMAIN q
  <2> DEFINE p == <<nm[c], L>>
             g == x[1]
  <2>1. PICK b : b = Block(s, c, L, g)
    OBVIOUS
  <2>2. /\ b.id.name = nm[c] /\ b.id.level = L /\ Resolve(s, b.id) = c /\ c # 0 /\ DOMAIN b.val = InGrid(g)
    BY <1>1, <2>1, BlockHas
  <2>3. b \in t.blocks
    BY <1>2, <1>4, <1>11, <2>1
  <2>4. b \in Here(s, t.blocks, p)
    BY <2>2, <2>3 DEF Here
  <2>5. p \in InStore
    <3>1. nm[c] \in Names
      BY DEF Named
    <3> QED BY <3>1, SpotsAre
  <2>6. b.val \in Patches(s, t, p)
    BY <2>4, <2>5, SpotsAre DEF Patches, ValsOf
  <2>7. x \in DOMAIN b.val
    BY <2>2 DEF InGrid
  <2> QED BY <2>6, <2>7
<1> QED BY <1>10, <1>11 DEF s, Covers

\* What is kept of level l of channel c.
FinerOf(s, c, l, grids, n, f) ==
  /\ f.id.name = s[c].name /\ f.id.level = l /\ f.id.lev = s[c].levels[l].tok /\ f.id.chan < n
  /\ Resolve(s, f.id) = c /\ c # 0 /\ f.state = s[c].levels[l]
  /\ f.whole <=> s[c].levels[l].held = "none"
  /\ \A b \in f.blocks : b.id = f.id /\ \E g \in grids : b = Block(s, c, l, g)
  /\ s[c].levels[l].held # "none" => \A g \in grids : Block(s, c, l, g) \in f.blocks

LEMMA FinerHas ==
  ASSUME NEW nm, Named(nm), NEW n \in Nat, NEW s \in Store(nm, n), NEW c \in DOMAIN nm, NEW l \in Levels,
         NEW grids, NEW f, f = FinerMask(s, c, l, grids)
  PROVE  FinerOf(s, c, l, grids, n, f)
<1>1. /\ f.id = Identity(s, c, l) /\ f.whole = (s[c].levels[l].held = "none") /\ f.state = s[c].levels[l]
      /\ f.blocks = IF s[c].levels[l].held # "none" THEN {Block(s, c, l, g) : g \in grids} ELSE {}
  BY DEF FinerMask, Allocated
<1> DEFINE b == Block(s, c, l, c)
<1>2. /\ b.id.name = nm[c] /\ b.id.level = l /\ b.id.lev = s[c].levels[l].tok /\ b.id.chan < n
      /\ Resolve(s, b.id) = c /\ c # 0 /\ b.id = Identity(s, c, l)
  <2>1. b = Block(s, c, l, c)
    OBVIOUS
  <2> HIDE DEF b
  <2> QED BY <2>1, BlockHas
<1>3. \A g : Block(s, c, l, g).id = Identity(s, c, l)
  BY DEF Block
<1>4. s[c].name = nm[c]
  BY StoreHas
<1> HIDE DEF b
<1>5. f.whole <=> s[c].levels[l].held = "none"
  BY <1>1
<1>6. \A k \in f.blocks : k.id = f.id /\ \E g \in grids : k = Block(s, c, l, g)
  BY <1>1, <1>3
<1>7. s[c].levels[l].held # "none" => \A g \in grids : Block(s, c, l, g) \in f.blocks
  BY <1>1
<1>8. /\ f.id.name = s[c].name /\ f.id.level = l /\ f.id.lev = s[c].levels[l].tok /\ f.id.chan < n
      /\ Resolve(s, f.id) = c /\ c # 0 /\ f.state = s[c].levels[l]
  BY <1>1, <1>2, <1>4
<1> QED BY <1>5, <1>6, <1>7, <1>8 DEF FinerOf

\* More of the finer levels of channel c is kept, and nothing else.
CoversFiner(s, step, t, c, grids) ==
  /\ \A p \in InStore : p[2] = L => Patches(s, t, p) = Patches(s, step, p)
  /\ \A l \in L + 1 .. Depth : \A x \in Sites :
       x[1] \in grids \/ s[c].levels[l].held = "none"
         => \E q \in Patches(s, t, <<"mask", l>>) : x \in DOMAIN q

\* What captureFinerMask() makes of a step that keeps nothing of finer levels.
LEMMA CaptureFinerLeads ==
  ASSUME NEW nm, Named(nm), NEW n \in Nat, NEW lv \in Lives(nm, n), Sound(lv.store),
         NEW step \in Step(n), SoundStep(step, n), step.finer = {},
         NEW c \in DOMAIN nm, nm[c] = "mask", NEW grids,
         NEW d, Reading(d), Leads(lv.store, step, d, Reads(lv)),
         NEW t, t = CaptureFinerMask(step, lv.store, c, grids)
  PROVE  /\ t.pos = step.pos /\ t.mask = step.mask /\ t.blocks = step.blocks /\ SoundStep(t, n)
         /\ Leads(lv.store, t, d, Reads(lv))
         /\ CoversFiner(lv.store, step, t, c, grids)
<1> DEFINE s == lv.store
           F(l) == FinerMask(s, c, l, grids)
           fs == {F(l) : l \in L + 1 .. Depth}
<1>1. s \in Store(nm, n) /\ L \in Levels /\ \A l \in L + 1 .. Depth : l \in Levels /\ l > L /\ l # L
  BY LogAssumption DEF Lives, Levels
<1>2. t = [step EXCEPT !.finer = fs]
  BY DEF CaptureFinerMask, Step
<1>3. \A l \in L + 1 .. Depth : FinerOf(s, c, l, grids, n, F(l))
  <2> TAKE l \in L + 1 .. Depth
  <2>1. PICK f : f = FinerMask(s, c, l, grids)
    OBVIOUS
  <2>2. FinerOf(s, c, l, grids, n, f)
    BY <1>1, <2>1, FinerHas
  <2> QED BY <2>1, <2>2
<1>4. \A f \in fs : \E l \in L + 1 .. Depth : f = F(l)
  OBVIOUS
<1>5. \A l \in L + 1 .. Depth : F(l) \in fs
  OBVIOUS
<1>6. Sound(s) /\ DOMAIN s = DOMAIN nm
  BY <1>1, StoreForm
<1>7. /\ \A p \in InStore : Reads(lv)[p] = Raw(s, p[1], p[2])
      /\ \A l \in Levels : Raw(s, "mask", l) = s[c].levels[l].val /\ s[c].levels[l].val \in [Sites -> Sample(l)]
  <2>1. "mask" \in Names
    BY DEF Names
  <2>2. \A l \in Levels : Raw(s, nm[c], l) = s[c].levels[l].val
    BY <1>1, <2>1, RawIs
  <2> QED BY <1>1, <2>2, ReadsAre, StoreLevel
<1> HIDE DEF s, F, fs
<1>16. \A l \in L + 1 .. Depth :
        /\ F(l).id.name = "mask" /\ F(l).id.level = l /\ F(l).id.lev = s[c].levels[l].tok /\ F(l).id.chan < n
        /\ Resolve(s, F(l).id) = c /\ c # 0 /\ F(l).state = s[c].levels[l]
        /\ F(l).whole <=> s[c].levels[l].held = "none"
        /\ \A b \in F(l).blocks : b.id = F(l).id /\ \E g \in grids : b = Block(s, c, l, g)
        /\ s[c].levels[l].held # "none" => \A g \in grids : Block(s, c, l, g) \in F(l).blocks
  <2>1. s[c].name = "mask"
    BY <1>1, StoreHas
  <2> QED BY <1>3, <2>1 DEF FinerOf
<1>8. /\ t.pos = step.pos /\ t.mask = step.mask /\ t.blocks = step.blocks
      /\ t.finer = fs /\ t.preAttr = step.preAttr /\ t.postAttr = step.postAttr
  <2>1. step = [pos |-> step.pos, mask |-> step.mask, blocks |-> step.blocks, finer |-> step.finer,
                pre |-> step.pre, post |-> step.post, preAttr |-> step.preAttr,
                postAttr |-> step.postAttr]
    BY DEF Step
  <2> QED BY <1>2, <2>1
<1>9. SoundStep(t, n)
  <2>1. ASSUME NEW f \in fs
        PROVE  /\ f.id.name = "mask" /\ f.id.level > L /\ f.id.chan < n
               /\ f.whole => /\ f.state.tok = f.id.lev
                             /\ f.state.held = "none" => f.state.val = Blank(f.id.level)
               /\ \A b \in f.blocks : b.id = f.id
               /\ \A g \in fs : g.id.level = f.id.level => g = f
    <3>1. PICK l \in L + 1 .. Depth : f = F(l)
      BY <1>4
    <3>2. s[c].levels[l].held = "none" => s[c].levels[l].val = Blank(l)
      BY <1>1, <1>6 DEF Sound
    <3>3. \A b \in f.blocks : b.id = f.id
      BY <1>16, <3>1
    <3>4. \A g \in fs : g.id.level = f.id.level => g = f
      <4>1. f.id.level = l
        BY <1>16, <3>1
      <4> QED BY <1>4, <1>16, <3>1, <4>1
    <3>5. /\ f.id.name = "mask" /\ f.id.level = l /\ f.id.lev = s[c].levels[l].tok /\ f.id.chan < n
          /\ f.state = s[c].levels[l] /\ (f.whole <=> s[c].levels[l].held = "none")
      BY <1>16, <3>1
    <3> QED BY <1>1, <3>1, <3>2, <3>3, <3>4, <3>5
  <2> QED BY <1>8, <2>1 DEF SoundStep
<1>10. ASSUME NEW p \in InStore, p[2] = L PROVE Patches(s, t, p) = Patches(s, step, p)
  <2>1. Patches(s, t, p) = ValsOf(Here(s, t.blocks, p))
    BY <1>9, <1>10, PatchesAre
  <2>2. Patches(s, step, p) = ValsOf(Here(s, step.blocks, p))
    BY <1>10, PatchesAre
  <2> QED BY <1>8, <2>1, <2>2
<1>11. ASSUME NEW p \in InStore, p[2] # L
       PROVE  /\ p[1] = "mask" /\ p[2] \in L + 1 .. Depth /\ p = <<"mask", p[2]>>
              /\ Here(s, fs, p) = {F(p[2])} /\ Patches(s, t, p) = FinerPatches(F(p[2]))
              /\ Patches(s, step, p) = {}
  <2>1. p = <<p[1], p[2]>> /\ p[1] = "mask" /\ p[2] \in Levels /\ p[2] >= L
    BY <1>11, SpotsAre
  <2>2. p[2] \in L + 1 .. Depth
    BY <1>1, <1>11, <2>1 DEF Levels
  <2>3. Here(s, fs, p) = {F(p[2])}
    <3>1. F(p[2]) \in Here(s, fs, p)
      BY <1>5, <1>16, <2>1, <2>2 DEF Here
    <3>2. ASSUME NEW f \in Here(s, fs, p) PROVE f = F(p[2])
      <4>1. f \in fs /\ f.id.level = p[2]
        BY DEF Here
      <4>2. PICK l \in L + 1 .. Depth : f = F(l)
        BY <1>4, <4>1
      <4>3. F(l).id.level = l
        BY <1>16
      <4> QED BY <4>1, <4>2, <4>3
    <3> QED BY <3>1, <3>2
  <2>4. Patches(s, t, p) = FinerPatches(F(p[2]))
    BY <1>8, <1>9, <1>11, <2>3, PatchesAre
  <2>5. Patches(s, step, p) = {}
    <3>1. Here(s, step.finer, p) = {}
      BY DEF Here
    <3> QED BY <1>11, <3>1, PatchesAre
  <2> QED BY <2>1, <2>2, <2>3, <2>4, <2>5
<1>12. ASSUME NEW l \in L + 1 .. Depth
       PROVE  /\ s[c].levels[l].held = "none" => FinerPatches(F(l)) = {s[c].levels[l].val}
              /\ s[c].levels[l].held # "none" =>
                   /\ \A q \in FinerPatches(F(l)) : \E g \in grids : q = Block(s, c, l, g).val
                   /\ \A g \in grids : Block(s, c, l, g).val \in FinerPatches(F(l))
  <2>1. s[c].levels[l].held = "none" => F(l).whole /\ F(l).state = s[c].levels[l]
    BY <1>16
  <2>2. s[c].levels[l].held # "none" => ~F(l).whole
    BY <1>16
  <2>3. /\ \A b \in F(l).blocks : \E g \in grids : b = Block(s, c, l, g)
        /\ s[c].levels[l].held # "none" => \A g \in grids : Block(s, c, l, g) \in F(l).blocks
    BY <1>16
  <2> QED BY <2>1, <2>2, <2>3 DEF FinerPatches
<1>13. \A l \in Levels : \A g : LET b == Block(s, c, l, g) IN
         DOMAIN b.val = InGrid(g) /\ \A x \in InGrid(g) : b.val[x] = s[c].levels[l].val[x]
  BY <1>1, BlockHas
<1>14. Leads(s, t, d, Reads(lv))
  <2>1. ASSUME NEW p \in Spots
        PROVE  \/ Patches(s, t, p) = Patches(s, step, p)
               \/ /\ Patches(s, step, p) = {}
                  /\ \A q \in Patches(s, t, p) : \A x \in DOMAIN q :
                       q[x] = Reads(lv)[p][x] /\ x \in DOMAIN d[p]
    <3>1. CASE p \in {Pos, Dense}
      BY <1>8, <3>1 DEF Patches
    <3>2. CASE p \in InStore /\ p[2] = L
      BY <1>10, <3>2
    <3>3. CASE p \in InStore /\ p[2] # L
      <4> DEFINE l == p[2]
      <4>1. l \in L + 1 .. Depth /\ Patches(s, t, p) = FinerPatches(F(l)) /\ Patches(s, step, p) = {} /\ p[1] = "mask"
        BY <1>11, <3>3
      <4>2. Reads(lv)[p] = s[c].levels[l].val /\ DOMAIN s[c].levels[l].val = Sites
        BY <1>1, <1>7, <3>3, <4>1
      <4>3. DOMAIN d[p] = Sites
        <5>1. d[p] \in ReadingAt(p) /\ p \notin {Pos, Dense}
          BY <3>3, SpotsAre DEF Reading
        <5> QED BY <5>1 DEF ReadingAt
      <4>4. \A g : InGrid(g) \subseteq Sites
        BY DEF InGrid
      <4> HIDE DEF l
      <4>5. ASSUME NEW q \in FinerPatches(F(l)), NEW x \in DOMAIN q
            PROVE  q[x] = s[c].levels[l].val[x] /\ x \in Sites
        <5>1. CASE s[c].levels[l].held = "none"
          BY <1>12, <4>1, <4>2, <4>5, <5>1
        <5>2. CASE s[c].levels[l].held # "none"
          <6>1. PICK g \in grids : q = Block(s, c, l, g).val
            BY <1>12, <4>1, <4>5, <5>2
          <6>2. DOMAIN q = InGrid(g) /\ \A y \in InGrid(g) : q[y] = s[c].levels[l].val[y]
            BY <1>1, <1>13, <4>1, <6>1
          <6> QED BY <4>4, <4>5, <6>2
        <5> QED BY <5>1, <5>2
      <4> QED BY <4>1, <4>2, <4>3, <4>5
    <3> QED BY <3>1, <3>2, <3>3, SpotsAre
  <2> QED BY <2>1, PatchLeads DEF s
<1>15. ASSUME NEW l \in L + 1 .. Depth, NEW x \in Sites, x[1] \in grids \/ s[c].levels[l].held = "none"
       PROVE  \E q \in Patches(s, t, <<"mask", l>>) : x \in DOMAIN q
  <2> DEFINE p == <<"mask", l>>
  <2>1. p \in InStore /\ p[2] = l
    <3>1. l \in L .. Depth
      BY LogAssumption
    <3> QED BY <3>1, SpotsAre
  <2>2. Patches(s, t, p) = FinerPatches(F(l))
    BY <1>1, <1>11, <2>1
  <2> HIDE DEF p
  <2>3. CASE s[c].levels[l].held = "none"
    <3>1. x \in DOMAIN s[c].levels[l].val
      BY <1>1, <1>7
    <3> QED BY <1>12, <2>2, <2>3, <3>1 DEF p
  <2>4. CASE s[c].levels[l].held # "none"
    <3> DEFINE g == x[1]
    <3>1. Block(s, c, l, g).val \in Patches(s, t, p) /\ DOMAIN Block(s, c, l, g).val = InGrid(g)
      BY <1>1, <1>12, <1>13, <1>15, <2>2, <2>4
    <3>2. x \in InGrid(g)
      BY DEF InGrid
    <3> QED BY <3>1, <3>2 DEF p
  <2> QED BY <2>3, <2>4
<1> QED BY <1>8, <1>9, <1>10, <1>14, <1>15 DEF s, CoversFiner

\* Channel r is ch with the vertices vs of the session's level from some values.
Overwritten(ch, r, vs) ==
  /\ r.name = ch.name /\ r.tok = ch.tok /\ DOMAIN r.levels = DOMAIN ch.levels
  /\ \E d : r.levels[L].val = Spread(d, vs, ch.levels[L].val)
  /\ r.levels[L].held # "none" /\ r.levels[L].tok = ch.levels[L].tok
  /\ \A k \in DOMAIN ch.levels : k # L => r.levels[k] = ch.levels[k]

\* Store u is s with this done to the channels cs.
Rewritten(s, u, cs, vs) ==
  \A c \in DOMAIN s : IF c \in cs THEN Overwritten(s[c], u[c], vs) ELSE u[c] = s[c]

\* A fold on its way: vertices out of vs show the mask the store holds, and only
\* channels of cs have been captured.
Folded(n, d, lv, step, vs, cs) ==
  /\ SoundStep(step, n) /\ Coherent(lv) /\ Leads(lv.store, step, d, Reads(lv))
  /\ \A v \in Verts : v \in vs \/ lv.mask[L][v] = MaskOf(lv.store, L)[v]
  /\ \A b \in step.blocks : \E c \in cs : b.id.lev = lv.store[c].levels[L].tok

\* The stores differ at vertices vs of the channels cs only.
DifferAt(nm, s, u, cs, vs) ==
  \A c \in DOMAIN nm : \A l \in Levels : \A x \in Sites :
    u[c].levels[l].val[x] = s[c].levels[l].val[x] \/ (c \in cs /\ l = L /\ x[2] \in vs)

LEMMA OverwrittenStore ==
  ASSUME NEW nm, Named(nm), NEW n \in Nat, NEW s \in Store(nm, n), Sound(s), Seamless(s),
         NEW u \in Store(nm, n), NEW cs, NEW vs, Rewritten(s, u, cs, vs)
  PROVE  Sound(u) /\ Seamless(u) /\ Alike(s, u) /\ DifferAt(nm, s, u, cs, vs)
<1>1. /\ DOMAIN s = DOMAIN nm /\ DOMAIN u = DOMAIN nm /\ L \in Levels
      /\ \A c \in DOMAIN nm : DOMAIN s[c].levels = Levels /\ DOMAIN u[c].levels = Levels
  BY StoreForm, LogAssumption DEF Levels
<1>2. ASSUME NEW c \in DOMAIN nm, NEW l \in Levels
      PROVE  /\ u[c].name = s[c].name /\ u[c].tok = s[c].tok
             /\ u[c].levels[l].tok = s[c].levels[l].tok
             /\ u[c].levels[l].held = "none" => u[c].levels[l] = s[c].levels[l]
             /\ Even(u[c].levels[l].val)
             /\ \A x \in Sites : \/ u[c].levels[l].val[x] = s[c].levels[l].val[x]
                                 \/ c \in cs /\ l = L /\ x[2] \in vs
  <2>1. Even(s[c].levels[l].val)
    BY <1>1 DEF Seamless, Even
  <2>2. CASE c \notin cs
    <3>1. u[c] = s[c]
      BY <1>1, <2>2 DEF Rewritten
    <3> QED BY <2>1, <3>1
  <2>3. CASE c \in cs
    <3>1. Overwritten(s[c], u[c], vs)
      BY <1>1, <2>3 DEF Rewritten
    <3>2. PICK d : u[c].levels[L].val = Spread(d, vs, s[c].levels[L].val)
      BY <3>1 DEF Overwritten
    <3>3. CASE l = L
      <4>1. Even(u[c].levels[l].val)
        BY <2>1, <3>2, <3>3, SpreadIs
      <4>2. \A x \in Sites : u[c].levels[l].val[x] = IF x[2] \in vs THEN d[x[2]] ELSE s[c].levels[l].val[x]
        BY <3>2, <3>3, SpreadIs
      <4> QED BY <2>3, <3>1, <3>3, <4>1, <4>2 DEF Overwritten
    <3>4. CASE l # L
      <4>1. u[c].levels[l] = s[c].levels[l]
        BY <1>1, <3>1, <3>4 DEF Overwritten
      <4> QED BY <2>1, <3>1, <4>1 DEF Overwritten
    <3> QED BY <3>3, <3>4
  <2> QED BY <2>2, <2>3
<1>3. Sound(u)
  <2> SUFFICES ASSUME NEW i \in DOMAIN nm, NEW k \in Levels
               PROVE  /\ u[i].levels[k].tok = s[i].levels[k].tok
                      /\ s[i].levels[k].val = Blank(k) \/ s[i].levels[k].held # "none"
                           => (u[i].levels[k].held = "none" => u[i].levels[k].val = Blank(k))
                      /\ k = L /\ s[i].levels[k].held # "none" => u[i].levels[k].held # "none"
    BY SoundBy
  <2> QED BY <1>2
<1>4. Seamless(u)
  BY <1>1, <1>2 DEF Seamless, Even
<1>5. Alike(s, u)
  BY <1>1, <1>2 DEF Alike
<1> QED BY <1>2, <1>3, <1>4, <1>5 DEF DifferAt

\* A part of the fold writes the channels cs, none captured yet, and makes lw and
\* t of lv and step.
Writes(nm, n, d, vs, from, lv, step, cs, lw, t) ==
  /\ lv \in Lives(nm, n) /\ lw \in Lives(nm, n) /\ step \in Step(n) /\ Folded(n, d, lv, step, vs, from)
  /\ cs \subseteq DOMAIN nm /\ from \subseteq DOMAIN nm /\ cs \cap from = {} /\ \A c \in cs : nm[c] # "mask"
  /\ lw.pos = lv.pos /\ (lw.mask = lv.mask \/ lw.mask = Dropped(lv.mask))
  /\ \E ts \in SUBSET Verts : /\ Rewritten(lv.store, lw.store, cs, ts)
                              /\ t = CaptureGrids(step, lv.store, cs, GridsOf(ts))

LEMMA WritesFold ==
  ASSUME NEW nm, Named(nm), NEW n \in Nat, NEW d, Reading(d), NEW vs, NEW from, NEW lv, NEW step, NEW cs,
         NEW lw, NEW t, Writes(nm, n, d, vs, from, lv, step, cs, lw, t)
  PROVE  /\ Folded(n, d, lw, t, vs, from \cup cs) /\ Alike(lv.store, lw.store)
         /\ t.finer = step.finer /\ t.pos = step.pos /\ t.mask = step.mask
<1>0. PICK ts \in SUBSET Verts : /\ Rewritten(lv.store, lw.store, cs, ts)
                                 /\ t = CaptureGrids(step, lv.store, cs, GridsOf(ts))
  BY DEF Writes
<1>a. PICK grids : grids = GridsOf(ts)
  OBVIOUS
<1>b. t = CaptureGrids(step, lv.store, cs, grids)
  BY <1>0, <1>a
<1>c. /\ lv \in Lives(nm, n) /\ lw \in Lives(nm, n) /\ step \in Step(n)
      /\ cs \in SUBSET DOMAIN nm /\ from \in SUBSET DOMAIN nm
  BY DEF Writes
<1>d. /\ Folded(n, d, lv, step, vs, from) /\ cs \cap from = {} /\ \A c \in cs : nm[c] # "mask"
      /\ lw.pos = lv.pos /\ (lw.mask = lv.mask \/ lw.mask = Dropped(lv.mask))
  BY DEF Writes
<1>1. lv.store \in Store(nm, n) /\ lw.store \in Store(nm, n) /\ L \in Levels /\ lv.mask \in Masks
  BY <1>c, LogAssumption DEF Lives, Levels
<1>e. DOMAIN lv.store = DOMAIN nm /\ DOMAIN lw.store = DOMAIN nm
  BY <1>1, StoreForm
<1>2. /\ SoundStep(step, n) /\ Coherent(lv) /\ Sound(lv.store) /\ Seamless(lv.store)
      /\ Leads(lv.store, step, d, Reads(lv))
      /\ \A v \in Verts : v \in vs \/ lv.mask[L][v] = MaskOf(lv.store, L)[v]
      /\ \A b \in step.blocks : \E c \in from : b.id.lev = lv.store[c].levels[L].tok
      /\ \A l \in Levels : l = L \/ lv.mask[l] = None \/ lv.mask[l] = MaskOf(lv.store, l)
  BY <1>d DEF Folded, Coherent
<1>3. /\ \A c \in DOMAIN nm : c \in cs => Overwritten(lv.store[c], lw.store[c], ts)
      /\ \A c \in DOMAIN nm : c \notin cs => lw.store[c] = lv.store[c]
  BY <1>0, <1>e DEF Rewritten
<1>5. Misses(step, lv.store, cs)
  <2>1. ASSUME NEW b \in step.blocks, NEW c \in cs, b.id.lev = lv.store[c].levels[L].tok PROVE FALSE
    <3>0. cs \cap from = {}
      BY <1>d
    <3>1. PICK e \in from : b.id.lev = lv.store[e].levels[L].tok
      BY <1>2
    <3>2. c \in DOMAIN lv.store /\ e \in DOMAIN lv.store /\ lv.store[e].levels[L].tok = lv.store[c].levels[L].tok
      BY <1>c, <1>e, <2>1, <3>1
    <3>3. Sound(lv.store)
      BY <1>2
    <3>4. e = c
      BY <3>2, <3>3 DEF Sound
    <3> QED BY <3>0, <3>4
  <2> QED BY <2>1 DEF Misses
<1>6. /\ t.pos = step.pos /\ t.mask = step.mask /\ t.finer = step.finer /\ SoundStep(t, n)
      /\ t.blocks = step.blocks \cup BlocksIn(lv.store, cs, grids)
  <2>1. SoundStep(step, n)
    BY <1>2
  <2> QED BY <1>1, <1>b, <1>c, <1>5, <2>1, CaptureGridsHas
<1>7. Leads(lv.store, t, d, Reads(lv)) /\ Covers(nm, lv.store, t, cs, grids)
  <2>1. SoundStep(step, n) /\ Leads(lv.store, step, d, Reads(lv))
    BY <1>2
  <2> QED BY <1>b, <1>c, <1>5, <2>1, CaptureGridsLeads
<1>8. /\ Sound(lw.store) /\ Seamless(lw.store) /\ Alike(lv.store, lw.store)
      /\ DifferAt(nm, lv.store, lw.store, cs, ts)
  <2>1. Sound(lv.store) /\ Seamless(lv.store) /\ Rewritten(lv.store, lw.store, cs, ts)
    BY <1>0, <1>2
  <2> QED BY <1>1, <2>1, OverwrittenStore
<1>9. /\ lw.mask[L] = lv.mask[L]
      /\ \A l \in Levels : lw.mask[l] = lv.mask[l] \/ lw.mask[l] = None
  <2>1. ~(L > L)
    BY LogAssumption
  <2>2. Dropped(lv.mask)[L] = lv.mask[L]
    BY <1>1, <2>1 DEF Dropped
  <2>3. \A l \in Levels : Dropped(lv.mask)[l] = lv.mask[l] \/ Dropped(lv.mask)[l] = None
    BY DEF Dropped
  <2> QED BY <1>d, <2>2, <2>3
<1>10. \A x \in Sites : x[2] \in ts => x[1] \in grids
  BY <1>a DEF Sites, GridsOf
<1>11. Leads(lw.store, t, d, Reads(lw))
  <2>1. Guarded(nm, lv.store, lw.store, t)
    BY <1>7, <1>8, <1>10 DEF Covers, DifferAt, Guarded
  <2>2. lw.pos = lv.pos /\ lw.mask[L] = lv.mask[L] /\ Alike(lv.store, lw.store) /\ Leads(lv.store, t, d, Reads(lv))
    BY <1>7, <1>8, <1>9, <1>d
  <2> QED BY <1>c, <2>1, <2>2, WriteLeads
<1>12. \A l \in Levels : MaskOf(lw.store, l) = MaskOf(lv.store, l)
  <2>1. \A c \in DOMAIN nm : nm[c] = "mask" => lw.store[c] = lv.store[c]
    BY <1>3, <1>d
  <2> QED BY <1>1, <1>2, <1>8, <2>1, MaskSame
<1>13. Coherent(lw)
  BY <1>2, <1>8, <1>9, <1>12 DEF Coherent
<1>14. \A v \in Verts : v \in vs \/ lw.mask[L][v] = MaskOf(lw.store, L)[v]
  BY <1>1, <1>2, <1>9, <1>12
<1>15. \A b \in t.blocks : \E c \in from \cup cs : b.id.lev = lw.store[c].levels[L].tok
  <2>1. \A c \in DOMAIN nm : lw.store[c].levels[L].tok = lv.store[c].levels[L].tok
    <3>1. \A c \in DOMAIN nm : DOMAIN lv.store[c].levels = Levels
      BY <1>1, StoreForm DEF Levels
    <3>2. Alike(lv.store, lw.store) /\ L \in Levels
      BY <1>1, <1>8
    <3> QED BY <1>e, <3>1, <3>2 DEF Alike
  <2>2. \A b \in BlocksIn(lv.store, cs, grids) : \E c \in cs : b.id.lev = lv.store[c].levels[L].tok
    BY <1>1, <1>c, BlockHas DEF BlocksIn
  <2> QED BY <1>2, <1>6, <1>c, <2>1, <2>2
<1>16. Folded(n, d, lw, t, vs, from \cup cs)
  BY <1>6, <1>11, <1>13, <1>14, <1>15 DEF Folded
<1> QED BY <1>6, <1>8, <1>16
=============================================================================
