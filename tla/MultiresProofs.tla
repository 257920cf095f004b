--------------------------- MODULE MultiresProofs ---------------------------
(***************************************************************************)
(* What the multires stack can trust of its own caches, for any surface,   *)
(* subdivision, fits, layers, budget and host.                             *)
(*                                                                         *)
(* Good(s, n, D) says that the object s of n levels is in order but for    *)
(* edits in the slots of D: what is valid shows the store, on a valid      *)
(* level and with a right base, and what a slot or a domain relies on is   *)
(* there.  Every operation keeps it, and says what it does to the domains  *)
(* still bound; loops over levels run by RunEnds.  While a stroke is open  *)
(* the positions of its level run ahead of the store and Stroking says     *)
(* what is left.                                                           *)
(*                                                                         *)
(* Undo puts stored positions next to stored detail, so Inv also says that *)
(* the log is a History of its level: a list of details that the steps     *)
(* lead through, each step with the positions its detail gives.            *)
(***************************************************************************)
EXTENDS MultiresStack, SequenceTheorems, FiniteSetTheorems, WellFoundedInduction, TLAPS

-----------------------------------------------------------------------------
(* Loops: what holds of every round.                                       *)

\* A set of numbers that holds 0 and is closed under the next holds them all.
LEMMA NextIn ==
  ASSUME NEW n \in Nat, NEW P, 0 \in P, \A k \in 1 .. n : k - 1 \in P => k \in P
  PROVE  \A k \in 0 .. n : k \in P
<1> DEFINE T == {k \in 0 .. n : k \notin P}
<1>1. SUFFICES ASSUME T # {} PROVE FALSE
  OBVIOUS
<1>2. T \subseteq Nat
  OBVIOUS
<1>3. PICK k \in T : \A j \in T : ~(<<j, k>> \in OpToRel(<, Nat))
  BY <1>1, <1>2, NatLessThanWellFounded, WFMin
<1>4. \A j \in T : ~(j < k)
  BY <1>2, <1>3 DEF OpToRel
<1>5. k \in 0 .. n /\ k \notin P
  OBVIOUS
<1>6. k \in 1 .. n /\ k - 1 \in 0 .. n /\ k - 1 < k
  BY <1>5
<1>7. k - 1 \in P
  BY <1>4, <1>6
<1> QED BY <1>5, <1>6, <1>7

\* A loop of n rounds over S from base, round k as the function g[k], and a run.
Rounds(n, S, g) == g \in [1 .. n -> [S -> S]]
IsRun(f, n, S, base, g) ==
  f \in [0 .. n -> S] /\ f[0] = base /\ \A k \in 1 .. n : f[k] = g[k][f[k - 1]]

\* There is one.
LEMMA RunExists ==
  ASSUME NEW n \in Nat, NEW S, NEW base \in S, NEW g, Rounds(n, S, g)
  PROVE  \E f : IsRun(f, n, S, base, g)
<1>0. g \in [1 .. n -> [S -> S]]
  BY DEF Rounds
<1> DEFINE Run(f, m) == f \in [0 .. m -> S] /\ f[0] = base
                        /\ \A k \in 1 .. m : f[k] = g[k][f[k - 1]]
           P == {m \in 0 .. n : \E f : Run(f, m)}
<1>1. 0 \in P
  <2>1. Run([k \in 0 .. 0 |-> base], 0)
    OBVIOUS
  <2> HIDE DEF Run
  <2> QED BY <2>1
<1>2. ASSUME NEW m \in 1 .. n, m - 1 \in P
      PROVE  m \in P
  <2>1. PICK f : Run(f, m - 1)
    BY <1>2
  <2> DEFINE h == [k \in 0 .. m |-> IF k = m THEN g[m][f[m - 1]] ELSE f[k]]
  <2>2. f[m - 1] \in S /\ g[m][f[m - 1]] \in S
    BY <1>0, <2>1
  <2>3. h \in [0 .. m -> S]
    <3>1. \A k \in 0 .. m : k # m => k \in 0 .. m - 1
      OBVIOUS
    <3> QED BY <2>1, <2>2, <3>1
  <2>4. h[0] = base
    BY <2>1
  <2>5. ASSUME NEW k \in 1 .. m PROVE h[k] = g[k][h[k - 1]]
    <3>1. k - 1 \in 0 .. m - 1 /\ k - 1 # m /\ k - 1 \in 0 .. m /\ k \in 0 .. m
      OBVIOUS
    <3>2. h[k - 1] = f[k - 1]
      BY <3>1
    <3>3. CASE k = m
      BY <3>2, <3>3
    <3>4. CASE k # m
      <4>1. k \in 1 .. m - 1 /\ h[k] = f[k]
        BY <3>4
      <4> QED BY <2>1, <3>2, <4>1
    <3> QED BY <3>3, <3>4
  <2> HIDE DEF h
  <2>6. Run(h, m)
    BY <2>3, <2>4, <2>5
  <2> QED BY <2>6
<1>3. n \in P
  <2> HIDE DEF P
  <2>1. \A k \in 0 .. n : k \in P
    BY <1>1, <1>2, NextIn
  <2> QED BY <2>1
<1> QED BY <1>3 DEF IsRun

\* And where it ends is one of S.
LEMMA RunEnds ==
  ASSUME NEW n \in Nat, NEW S, NEW base \in S, NEW g, Rounds(n, S, g),
         NEW f, f[0] = base, \A k \in 1 .. n : f[k - 1] \in S => f[k] = g[k][f[k - 1]]
  PROVE  f[n] \in S
<1> DEFINE P == {k \in 0 .. n : f[k] \in S}
<1>1. 0 \in P
  OBVIOUS
<1>2. \A k \in 1 .. n : k - 1 \in P => k \in P
  BY DEF Rounds
<1> HIDE DEF P
<1>3. \A k \in 0 .. n : k \in P
  BY <1>1, <1>2, NextIn
<1>4. n \in P
  BY <1>3
<1> QED BY <1>4 DEF P

-----------------------------------------------------------------------------
(* Arithmetic modulo m, and sums over the channels.                        *)

LEMMA ModParts ==
  ASSUME NEW m \in Nat \ {0}, NEW a \in Int
  PROVE  a % m \in 0 .. m - 1 /\ \E k \in Int : a = (a % m) + k * m
<1>1. a % m \in 0 .. m - 1
  OBVIOUS
<1>2. a = (a % m) + (a \div m) * m /\ a \div m \in Int
  OBVIOUS
<1> QED BY <1>1, <1>2

LEMMA ModSame ==
  ASSUME NEW m \in Nat \ {0}, NEW x \in 0 .. m - 1, NEW y \in 0 .. m - 1, NEW k \in Int,
         x = y + k * m
  PROVE  x = y
<1>1. CASE k = 0
  BY <1>1
<1>2. CASE k >= 1
  <2>1. k * m >= m
    BY <1>2
  <2> QED BY <2>1
<1>3. CASE k <= -1
  <2>1. k * m <= -m
    BY <1>3
  <2> QED BY <2>1
<1> QED BY <1>1, <1>2, <1>3

\* What one channel takes so that on top of b all of them give p.
Sought(m, p, b, r) == (((p - b) % m) - (r % m)) % m

LEMMA TakesTheRest ==
  ASSUME NEW m \in Nat \ {0}, NEW p \in 0 .. m - 1, NEW b \in Int, NEW r \in Int
  PROVE  (b + ((Sought(m, p, b, r) + r) % m)) % m = p
<1> DEFINE g == (p - b) % m
           rm == r % m
           d == (g - rm) % m
           t == (d + r) % m
           x == (b + t) % m
<1>1. p - b \in Int
  OBVIOUS
<1>2. g \in 0 .. m - 1 /\ \E k \in Int : p - b = g + k * m
  BY <1>1, ModParts
<1>3. PICK k1 \in Int : p - b = g + k1 * m
  BY <1>2
<1>4. r % m \in 0 .. m - 1 /\ \E k \in Int : r = (r % m) + k * m
  BY ModParts
<1>5. PICK k2 \in Int : r = (r % m) + k2 * m
  BY <1>4
<1> HIDE DEF g, rm
<1>6. g - rm \in Int
  BY <1>2, <1>4 DEF rm
<1>7. d \in 0 .. m - 1 /\ \E k \in Int : g - rm = d + k * m
  BY <1>6, ModParts DEF rm
<1>8. PICK k3 \in Int : g - rm = d + k3 * m
  BY <1>7
<1> HIDE DEF d
<1>9. d + r \in Int
  BY <1>7
<1>10. t \in 0 .. m - 1 /\ \E k \in Int : d + r = t + k * m
  BY <1>9, ModParts
<1>11. PICK k4 \in Int : d + r = t + k4 * m
  BY <1>10
<1> HIDE DEF t
<1>12. b + t \in Int
  BY <1>10
<1>13. x \in 0 .. m - 1 /\ \E k \in Int : b + t = x + k * m
  BY <1>12, ModParts
<1>14. PICK k5 \in Int : b + t = x + k5 * m
  BY <1>13
<1> HIDE DEF x
<1>15. r = rm + k2 * m
  BY <1>5 DEF rm
<1>16. p = x + (k5 * m + k4 * m + k3 * m + k1 * m - k2 * m)
  <2> DEFINE a1 == k1 * m  a2 == k2 * m  a3 == k3 * m  a4 == k4 * m  a5 == k5 * m
  <2>1. a1 \in Int /\ a2 \in Int /\ a3 \in Int /\ a4 \in Int /\ a5 \in Int
    OBVIOUS
  <2>2. rm \in Int /\ g \in Int /\ d \in Int /\ t \in Int /\ x \in Int
    BY <1>2, <1>4, <1>7, <1>10, <1>13 DEF rm
  <2>3. p - b = g + a1 /\ r = rm + a2 /\ g - rm = d + a3 /\ d + r = t + a4 /\ b + t = x + a5
    BY <1>3, <1>15, <1>8, <1>11, <1>14
  <2> HIDE DEF a1, a2, a3, a4, a5
  <2>4. p = x + (a5 + a4 + a3 + a1 - a2)
    BY <2>1, <2>2, <2>3
  <2> QED BY <2>4 DEF a1, a2, a3, a4, a5
<1> DEFINE k == k5 + k4 + k3 + k1 - k2
<1>17. k \in Int /\ k5 * m + k4 * m + k3 * m + k1 * m - k2 * m = k * m
  OBVIOUS
<1>18. p = x + k * m
  BY <1>16, <1>17
<1> HIDE DEF k
<1>19. p = x
  BY <1>13, <1>17, <1>18, ModSame
<1> QED BY <1>19 DEF x, t, d, g, rm, Sought
LEMMA ModAdd ==
  ASSUME NEW m \in Nat \ {0}, NEW x \in Int, NEW r \in Int, NEW s \in Int, r % m = s % m
  PROVE  (x + r) % m = (x + s) % m
<1> DEFINE rm == r % m
           t == (x + r) % m
           u == (x + s) % m
<1>1. rm \in 0 .. m - 1 /\ \E k \in Int : r = rm + k * m
  BY ModParts
<1>2. PICK k1 \in Int : r = rm + k1 * m
  BY <1>1
<1>3. s % m = rm /\ \E k \in Int : s = (s % m) + k * m
  BY ModParts
<1>4. PICK k2 \in Int : s = rm + k2 * m
  BY <1>3
<1>5. x + r \in Int /\ x + s \in Int
  OBVIOUS
<1>6. t \in 0 .. m - 1 /\ \E k \in Int : x + r = t + k * m
  BY <1>5, ModParts
<1>7. u \in 0 .. m - 1 /\ \E k \in Int : x + s = u + k * m
  BY <1>5, ModParts
<1> HIDE DEF rm, t, u
<1>8. PICK k3 \in Int : x + r = t + k3 * m
  BY <1>6
<1>9. PICK k4 \in Int : x + s = u + k4 * m
  BY <1>7
<1> DEFINE k == k1 - k2 - k3 + k4
<1>10. k \in Int /\ k1 * m - k2 * m - k3 * m + k4 * m = k * m
  OBVIOUS
<1>11. t = u + (k1 * m - k2 * m - k3 * m + k4 * m)
  <2> DEFINE a1 == k1 * m  a2 == k2 * m  a3 == k3 * m  a4 == k4 * m
  <2>1. a1 \in Int /\ a2 \in Int /\ a3 \in Int /\ a4 \in Int
    OBVIOUS
  <2>2. r = rm + a1 /\ s = rm + a2 /\ x + r = t + a3 /\ x + s = u + a4
    BY <1>2, <1>4, <1>8, <1>9
  <2> HIDE DEF a1, a2, a3, a4
  <2>3. t = u + (a1 - a2 - a3 + a4)
    BY <1>1, <1>6, <1>7, <2>1, <2>2
  <2> QED BY <2>3 DEF a1, a2, a3, a4
<1>12. t = u + k * m
  BY <1>10, <1>11
<1> HIDE DEF k
<1>13. t = u
  BY <1>6, <1>7, <1>10, <1>12, ModSame
<1> QED BY <1>13 DEF t, u

-----------------------------------------------------------------------------
(* Sums over finite sets.                                                  *)

\* f[t] is the sum of w over t, for the subsets t of U.
One(t) == CHOOSE x \in t : TRUE
SumsOf(f, U, w) ==
  f = [t \in SUBSET U |-> IF t = {} THEN 0 ELSE w[One(t)] + f[t \ {One(t)}]]

Summing(f, U, w) == w \in [U -> Nat] /\ f \in [SUBSET U -> Nat] /\ SumsOf(f, U, w)

LEMMA OneLess ==
  ASSUME NEW U, IsFiniteSet(U), NEW t \in SUBSET U, t # {}
  PROVE  /\ One(t) \in t /\ t \ {One(t)} \in SUBSET U
         /\ Cardinality(t) \in Nat \ {0} /\ Cardinality(t \ {One(t)}) = Cardinality(t) - 1
         /\ \A c \in t : Cardinality(t \ {c}) = Cardinality(t) - 1
<1>1. One(t) \in t
  BY DEF One
<1>2. IsFiniteSet(t)
  BY FS_Subset
<1>3. Cardinality(t) \in Nat /\ Cardinality(t) # 0
  BY <1>2, FS_EmptySet, FS_CardinalityType
<1>4. \A c \in t : Cardinality(t \ {c}) = Cardinality(t) - 1
  BY <1>2, FS_RemoveElement
<1> QED BY <1>1, <1>3, <1>4

\* What holds of the empty set, and of a set if it holds of the smaller ones.
LEMMA BySize ==
  ASSUME NEW U, IsFiniteSet(U), NEW Q,
         \A t \in SUBSET U :
            (\A r \in SUBSET U : Cardinality(r) < Cardinality(t) => r \in Q) => t \in Q
  PROVE  \A t \in SUBSET U : t \in Q
<1> DEFINE n == Cardinality(U)
           P == {m \in 0 .. n : \A t \in SUBSET U : Cardinality(t) <= m => t \in Q}
<1>1. n \in Nat /\ \A t \in SUBSET U : Cardinality(t) \in 0 .. n
  <2>1. n \in Nat
    BY FS_CardinalityType
  <2>2. ASSUME NEW t \in SUBSET U PROVE Cardinality(t) \in 0 .. n
    <3>1. IsFiniteSet(t) /\ Cardinality(t) <= n
      BY FS_Subset
    <3> QED BY <2>1, <3>1, FS_CardinalityType
  <2> QED BY <2>1, <2>2
<1>2. 0 \in P
  BY <1>1
<1>3. ASSUME NEW m \in 1 .. n, m - 1 \in P PROVE m \in P
  <2>1. \A t \in SUBSET U : Cardinality(t) <= m - 1 => t \in Q
    BY <1>3
  <2>2. ASSUME NEW t \in SUBSET U, Cardinality(t) <= m PROVE t \in Q
    <3>1. \A r \in SUBSET U : Cardinality(r) < Cardinality(t) => Cardinality(r) <= m - 1
      BY <1>1, <2>2
    <3> QED BY <2>1, <3>1
  <2> QED BY <2>2
<1> HIDE DEF P
<1>4. \A m \in 0 .. n : m \in P
  BY <1>1, <1>2, <1>3, NextIn
<1>5. n \in P
  BY <1>1, <1>4
<1> QED BY <1>1, <1>5 DEF P

LEMMA SumExists ==
  ASSUME NEW U, IsFiniteSet(U), NEW w \in [U -> Nat]
  PROVE  \E f \in [SUBSET U -> Nat] : SumsOf(f, U, w)
<1> DEFINE n == Cardinality(U)
           Small(m) == {t \in SUBSET U : Cardinality(t) <= m}
           Sums(f, m) == /\ f \in [Small(m) -> Nat]
                         /\ \A t \in Small(m) :
                              f[t] = IF t = {} THEN 0 ELSE w[One(t)] + f[t \ {One(t)}]
           P == {m \in 0 .. n : \E f : Sums(f, m)}
<1>1. n \in Nat /\ \A t \in SUBSET U : Cardinality(t) \in 0 .. n
  <2>1. n \in Nat
    BY FS_CardinalityType
  <2>2. ASSUME NEW t \in SUBSET U PROVE Cardinality(t) \in 0 .. n
    <3>1. IsFiniteSet(t) /\ Cardinality(t) <= n
      BY FS_Subset
    <3> QED BY <2>1, <3>1, FS_CardinalityType
  <2> QED BY <2>1, <2>2
<1>2. 0 \in P
  <2>1. \A t \in Small(0) : t = {}
    <3>1. \A t \in SUBSET U : Cardinality(t) <= 0 => Cardinality(t) = 0 /\ IsFiniteSet(t)
      BY <1>1, FS_Subset
    <3> QED BY <3>1, FS_EmptySet
  <2>2. Sums([t \in Small(0) |-> 0], 0)
    BY <2>1
  <2> HIDE DEF Sums
  <2> QED BY <1>1, <2>2
<1>3. ASSUME NEW m \in 1 .. n, m - 1 \in P PROVE m \in P
  <2>1. PICK f : Sums(f, m - 1)
    BY <1>3
  <2> DEFINE h == [t \in Small(m) |-> IF t = {} THEN 0 ELSE w[One(t)] + f[t \ {One(t)}]]
  <2>2. ASSUME NEW t \in Small(m), t # {}
        PROVE  t \ {One(t)} \in Small(m - 1) /\ One(t) \in U /\ t \ {One(t)} \in Small(m)
    BY <1>1, <2>2, OneLess
  <2>3. h \in [Small(m) -> Nat]
    <3>1. ASSUME NEW t \in Small(m), t # {} PROVE w[One(t)] + f[t \ {One(t)}] \in Nat
      BY <2>1, <2>2, <3>1
    <3> QED BY <3>1
  <2>4. \A t \in Small(m - 1) : t \in Small(m) /\ h[t] = f[t]
    <3>1. \A t \in Small(m - 1) : t \in Small(m)
      BY <1>1
    <3> HIDE DEF Small
    <3> QED BY <2>1, <3>1
  <2>5. \A t \in Small(m) : h[t] = IF t = {} THEN 0 ELSE w[One(t)] + h[t \ {One(t)}]
    <3> HIDE DEF Small
    <3> QED BY <2>2, <2>4
  <2>6. Sums(h, m)
    BY <2>3, <2>5
  <2> HIDE DEF Sums
  <2> QED BY <2>6
<1> HIDE DEF P
<1>4. \A m \in 0 .. n : m \in P
  BY <1>1, <1>2, <1>3, NextIn
<1>5. n \in P
  BY <1>1, <1>4
<1>6. PICK f : Sums(f, n)
  BY <1>5 DEF P
<1>7. Small(n) = SUBSET U
  BY <1>1
<1>8. f \in [SUBSET U -> Nat]
  BY <1>6, <1>7
<1>9. SumsOf(f, U, w)
  <2>1. \A t \in SUBSET U : f[t] = IF t = {} THEN 0 ELSE w[One(t)] + f[t \ {One(t)}]
    BY <1>6, <1>7
  <2> HIDE DEF Small, Sums, n
  <2> QED BY <1>8, <2>1 DEF SumsOf
<1> QED BY <1>8, <1>9

\* It does not matter over which set, nor what w is elsewhere.
LEMMA SumSame ==
  ASSUME NEW U, IsFiniteSet(U), NEW V \in SUBSET U, NEW f, NEW g, NEW w, NEW u,
         SumsOf(f, U, w), SumsOf(g, V, u), \A x \in V : w[x] = u[x]
  PROVE  \A t \in SUBSET V : f[t] = g[t]
<1> DEFINE Q == {t \in SUBSET V : f[t] = g[t]}
<1>1. IsFiniteSet(V)
  BY FS_Subset
<1>2. ASSUME NEW t \in SUBSET V,
             \A r \in SUBSET V : Cardinality(r) < Cardinality(t) => r \in Q
      PROVE  t \in Q
  <2>0. t \in SUBSET U
    OBVIOUS
  <2>1. f[t] = IF t = {} THEN 0 ELSE w[One(t)] + f[t \ {One(t)}]
    BY <2>0 DEF SumsOf
  <2>2. g[t] = IF t = {} THEN 0 ELSE u[One(t)] + g[t \ {One(t)}]
    BY DEF SumsOf
  <2>3. CASE t = {}
    BY <2>1, <2>2, <2>3
  <2>4. CASE t # {}
    <3>1. /\ One(t) \in t /\ t \ {One(t)} \in SUBSET V
          /\ Cardinality(t) \in Nat \ {0} /\ Cardinality(t \ {One(t)}) = Cardinality(t) - 1
      BY <1>1, <2>4, OneLess
    <3>2. Cardinality(t \ {One(t)}) < Cardinality(t)
      BY <3>1
    <3>3. t \ {One(t)} \in Q
      BY <1>2, <3>1, <3>2
    <3>4. One(t) \in V
      BY <3>1
    <3> QED BY <2>1, <2>2, <2>4, <3>3, <3>4
  <2> QED BY <2>3, <2>4
<1> HIDE DEF Q
<1>3. \A t \in SUBSET V : t \in Q
  BY <1>1, <1>2, BySize
<1> QED BY <1>3 DEF Q

\* Any item of a set may be summed first.
LEMMA SumSplit ==
  ASSUME NEW U, IsFiniteSet(U), NEW w, NEW f, Summing(f, U, w)
  PROVE  \A t \in SUBSET U : \A c \in t : f[t] = w[c] + f[t \ {c}]
<1>0. w \in [U -> Nat] /\ f \in [SUBSET U -> Nat] /\ SumsOf(f, U, w)
  BY DEF Summing
<1> DEFINE Q == {t \in SUBSET U : \A c \in t : f[t] = w[c] + f[t \ {c}]}
<1>1. ASSUME NEW t \in SUBSET U,
             \A r \in SUBSET U : Cardinality(r) < Cardinality(t) => r \in Q
      PROVE  t \in Q
  <2> SUFFICES ASSUME NEW c \in t PROVE f[t] = w[c] + f[t \ {c}]
    OBVIOUS
  <2> DEFINE a == One(t)
             b == One(t \ {c})
  <2>1. /\ a \in t /\ Cardinality(t) \in Nat \ {0}
        /\ \A d \in t : Cardinality(t \ {d}) = Cardinality(t) - 1
    BY OneLess
  <2>2. f[t] = w[a] + f[t \ {a}]
    BY <1>0 DEF SumsOf
  <2> HIDE DEF a
  <2>3. CASE a = c
    BY <2>2, <2>3
  <2>4. CASE a # c
    <3>1. t \ {a} \in Q /\ t \ {c} \in Q
      <4>1. Cardinality(t \ {a}) < Cardinality(t) /\ Cardinality(t \ {c}) < Cardinality(t)
        BY <2>1
      <4>2. t \ {a} \in SUBSET U /\ t \ {c} \in SUBSET U
        OBVIOUS
      <4> QED BY <1>1, <4>1, <4>2
    <3>2. c \in t \ {a} /\ a \in t \ {c}
      BY <2>1, <2>4
    <3>3. f[t \ {a}] = w[c] + f[(t \ {a}) \ {c}]
      BY <3>1, <3>2
    <3>4. f[t \ {c}] = w[a] + f[(t \ {c}) \ {a}]
      BY <3>1, <3>2
    <3>5. (t \ {c}) \ {a} = (t \ {a}) \ {c} /\ (t \ {c}) \ {a} \in SUBSET U
      OBVIOUS
    <3>6. w[a] \in Nat /\ w[c] \in Nat /\ f[(t \ {c}) \ {a}] \in Nat
      BY <1>0, <2>1, <3>5
    <3> DEFINE x == f[(t \ {c}) \ {a}]
               y == f[t \ {c}]
               z == f[t \ {a}]
    <3>7. y = w[a] + x /\ z = w[c] + x /\ f[t] = w[a] + z /\ x \in Nat
      BY <2>2, <3>3, <3>4, <3>5, <3>6
    <3> HIDE DEF x, y, z
    <3>8. f[t] = w[c] + y
      BY <3>6, <3>7
    <3> QED BY <3>8 DEF y
  <2> QED BY <2>3, <2>4
<1> HIDE DEF Q
<1>2. \A t \in SUBSET U : t \in Q
  BY <1>1, BySize
<1> QED BY <1>2 DEF Q

-----------------------------------------------------------------------------
(* Detail, and what it displaces.                                          *)

Detail == [Channels -> Pos]

LEMMA ConstantFacts ==
  /\ IsFiniteSet(Channels) /\ Base \in Channels /\ \A on : Mixed(on) \in SUBSET Channels
  /\ \A on : Base \in Mixed(on)
  /\ M \in Nat \ {0} /\ Flat \in Pos /\ Plain \in Detail /\ Cage \in Pos
  /\ Stencil \in [Pos -> Pos] /\ FullWeight \in [Pos -> Pos] /\ LeastSquares \in [Pos -> Pos]
  /\ NoBase \notin Pos
<1>1. IsFiniteSet(Channels)
  BY SurfaceAssumption, FS_Singleton, FS_Union DEF Channels
<1>2. \A on : Mixed(on) \in SUBSET Channels /\ Base \in Mixed(on) /\ Base \in Channels
  BY DEF Mixed, Channels
<1>3. Flat \in Pos
  BY SurfaceAssumption DEF Flat, Pos
<1>4. Plain \in Detail
  BY <1>3 DEF Plain, Detail
<1>5. NoBase \notin Pos
  <2>1. DOMAIN NoBase = {} /\ \A p \in Pos : DOMAIN p = Verts
    BY DEF NoBase, Pos
  <2> QED BY <2>1, SurfaceAssumption
<1> QED BY <1>1, <1>2, <1>3, <1>4, <1>5, SurfaceAssumption

LEMMA TotalSums ==
  ASSUME NEW d \in Detail, NEW v \in Verts
  PROVE  LET w == [c \in Channels |-> d[c][v]]
         IN  /\ w \in [Channels -> Nat]
             /\ \E f \in [SUBSET Channels -> Nat] :
                  /\ SumsOf(f, Channels, w)
                  /\ \A chans \in SUBSET Channels : Total(d, chans)[v] = f[chans] % M
<1> DEFINE w == [c \in Channels |-> d[c][v]]
<1>1. w \in [Channels -> Nat]
  <2>1. \A c \in Channels : d[c][v] \in 0 .. M - 1
    BY DEF Detail, Pos
  <2> QED BY <2>1, ConstantFacts
<1>2. PICK f \in [SUBSET Channels -> Nat] : SumsOf(f, Channels, w)
  BY <1>1, ConstantFacts, SumExists
<1>3. ASSUME NEW S \in SUBSET Channels
      PROVE  Total(d, S)[v] = f[S] % M
  <2> DEFINE F(g) == [t \in SUBSET S |->
                        IF t = {} THEN 0
                        ELSE d[CHOOSE x \in t : TRUE][v] + g[t \ {CHOOSE x \in t : TRUE}]]
             u == [c \in S |-> d[c][v]]
             run == CHOOSE g : g = F(g)
  <2>1. Total(d, S)[v] = run[S] % M
    BY DEF Total, MapThenSumSet, MapThenFoldSet
  <2>2. ASSUME NEW g PROVE SumsOf(g, S, u) <=> g = F(g)
    <3>1. \A t \in SUBSET S : t # {} => u[One(t)] = d[One(t)][v]
      <4>1. \A t \in SUBSET S : t # {} => One(t) \in S
        BY DEF One
      <4> QED BY <4>1
    <3>2. F(g) = [t \in SUBSET S |-> IF t = {} THEN 0 ELSE u[One(t)] + g[t \ {One(t)}]]
      <4>1. F(g) = [t \in SUBSET S |-> IF t = {} THEN 0 ELSE d[One(t)][v] + g[t \ {One(t)}]]
        BY DEF One
      <4> HIDE DEF F, u
      <4> QED BY <3>1, <4>1
    <3> QED BY <3>2 DEF SumsOf
  <2>3. \E g : g = F(g)
    <3>1. u \in [S -> Nat]
      BY <1>1
    <3>2. IsFiniteSet(S)
      BY ConstantFacts, FS_Subset
    <3>3. PICK g \in [SUBSET S -> Nat] : SumsOf(g, S, u)
      BY <3>1, <3>2, SumExists
    <3> HIDE DEF F
    <3> QED BY <2>2, <3>3
  <2>4. SumsOf(run, S, u)
    <3>1. run = F(run)
      <4> HIDE DEF F
      <4> QED BY <2>3
    <3> HIDE DEF run, F
    <3> QED BY <2>2, <3>1
  <2>5. \A x \in S : w[x] = u[x]
    OBVIOUS
  <2> HIDE DEF run, F, u, w
  <2>6. f[S] = run[S]
    <3>1. \A t \in SUBSET S : f[t] = run[t]
      BY <1>2, <2>4, <2>5, ConstantFacts, SumSame
    <3> QED BY <3>1
  <2> QED BY <2>1, <2>6
<1> QED BY <1>1, <1>2, <1>3

LEMMA TotalType ==
  ASSUME NEW d \in Detail, NEW S \in SUBSET Channels
  PROVE  Total(d, S) \in Pos
<1>1. ASSUME NEW v \in Verts PROVE Total(d, S)[v] \in 0 .. M - 1
  <2> DEFINE w == [c \in Channels |-> d[c][v]]
  <2>1. PICK f \in [SUBSET Channels -> Nat] : Total(d, S)[v] = f[S] % M
    BY TotalSums
  <2>2. f[S] \in Int
    OBVIOUS
  <2> QED BY <2>1, <2>2, ConstantFacts, ModParts
<1>2. Total(d, S) = [v \in Verts |-> Total(d, S)[v]]
  BY DEF Total
<1> QED BY <1>1, <1>2 DEF Pos

\* The sum over a set with c, of the sum r over the others.
LEMMA TotalSplit ==
  ASSUME NEW d \in Detail, NEW S \in SUBSET Channels, NEW c \in S, NEW v \in Verts
  PROVE  \E r \in Nat : /\ Total(d, S \ {c})[v] = r % M
                        /\ Total(d, S)[v] = (d[c][v] + r) % M
<1> DEFINE w == [x \in Channels |-> d[x][v]]
<1>1. w \in [Channels -> Nat]
  BY TotalSums
<1>2. PICK f \in [SUBSET Channels -> Nat] :
         /\ SumsOf(f, Channels, w)
         /\ \A chans \in SUBSET Channels : Total(d, chans)[v] = f[chans] % M
  BY TotalSums
<1>3. w[c] = d[c][v]
  OBVIOUS
<1> HIDE DEF w
<1>4. f[S] = w[c] + f[S \ {c}]
  <2>1. IsFiniteSet(Channels)
    BY ConstantFacts
  <2>2. Summing(f, Channels, w)
    BY <1>1, <1>2 DEF Summing
  <2> QED BY <2>1, <2>2, SumSplit
<1>5. S \ {c} \in SUBSET Channels
  OBVIOUS
<1> QED BY <1>2, <1>3, <1>4, <1>5

\* It depends on what is summed only.
LEMMA TotalSame ==
  ASSUME NEW d \in Detail, NEW e \in Detail, NEW S \in SUBSET Channels, \A c \in S : d[c] = e[c]
  PROVE  Total(d, S) = Total(e, S)
<1>1. ASSUME NEW v \in Verts PROVE Total(d, S)[v] = Total(e, S)[v]
  <2> DEFINE w == [x \in Channels |-> d[x][v]]
             u == [x \in Channels |-> e[x][v]]
             y == [x \in S |-> d[x][v]]
  <2>1. PICK f \in [SUBSET Channels -> Nat] :
          SumsOf(f, Channels, w) /\ Total(d, S)[v] = f[S] % M
    BY TotalSums
  <2>2. PICK g \in [SUBSET Channels -> Nat] :
          SumsOf(g, Channels, u) /\ Total(e, S)[v] = g[S] % M
    BY TotalSums
  <2>3. y \in [S -> Nat]
    <3>1. w \in [Channels -> Nat]
      BY TotalSums
    <3> QED BY <3>1
  <2>4. \A x \in S : w[x] = y[x] /\ u[x] = y[x]
    OBVIOUS
  <2> HIDE DEF w, u, y
  <2>5. PICK h \in [SUBSET S -> Nat] : SumsOf(h, S, y)
    <3>1. IsFiniteSet(S)
      BY ConstantFacts, FS_Subset
    <3> QED BY <2>3, <3>1, SumExists
  <2>6. \A t \in SUBSET S : f[t] = h[t]
    BY <2>1, <2>4, <2>5, ConstantFacts, SumSame
  <2>7. \A t \in SUBSET S : g[t] = h[t]
    BY <2>2, <2>4, <2>5, ConstantFacts, SumSame
  <2>8. f[S] = g[S]
    BY <2>6, <2>7
  <2> QED BY <2>1, <2>2, <2>8
<1>2. Total(d, S) = [v \in Verts |-> Total(d, S)[v]] /\ Total(e, S) = [v \in Verts |-> Total(e, S)[v]]
  BY DEF Total
<1> QED BY <1>1, <1>2

LEMMA PosOps ==
  ASSUME NEW p \in Pos, NEW q \in Pos
  PROVE  Plus(p, q) \in Pos /\ Minus(p, q) \in Pos
<1>1. \A v \in Verts : p[v] \in Int /\ q[v] \in Int
  BY ConstantFacts DEF Pos
<1>2. ASSUME NEW v \in Verts
      PROVE  (p[v] + q[v]) % M \in 0 .. M - 1 /\ (p[v] - q[v]) % M \in 0 .. M - 1
  <2>1. p[v] + q[v] \in Int /\ p[v] - q[v] \in Int /\ M \in Nat \ {0}
    BY <1>1, ConstantFacts
  <2> QED BY <2>1, ModParts
<1> QED BY <1>2 DEF Plus, Minus, Pos

\* Adding nothing.
LEMMA PlusFlat ==
  ASSUME NEW p \in Pos, NEW on, NEW d \in Detail, \A c \in Mixed(on) : d[c] = Flat
  PROVE  Plus(p, Total(d, Mixed(on))) = p
<1> DEFINE S == Mixed(on)
<1>0. S \in SUBSET Channels
  BY ConstantFacts
<1>1. ASSUME NEW v \in Verts PROVE Total(d, S)[v] = 0
  <2> DEFINE w == [x \in Channels |-> d[x][v]]
  <2>1. w \in [Channels -> Nat] /\ \A c \in S : w[c] = 0
    <3>1. w \in [Channels -> Nat]
      BY TotalSums
    <3>2. \A c \in S : d[c][v] = 0
      BY DEF Flat
    <3> QED BY <1>0, <3>1, <3>2
  <2>2. PICK f \in [SUBSET Channels -> Nat] :
          SumsOf(f, Channels, w) /\ Total(d, S)[v] = f[S] % M
    BY <1>0, TotalSums
  <2> HIDE DEF w, S
  <2> DEFINE Q == {t \in SUBSET S : f[t] = 0}
  <2>3. ASSUME NEW t \in SUBSET S,
               \A r \in SUBSET S : Cardinality(r) < Cardinality(t) => r \in Q
        PROVE  t \in Q
    <3>0. t \in SUBSET Channels
      BY <1>0
    <3>1. f[t] = IF t = {} THEN 0 ELSE w[One(t)] + f[t \ {One(t)}]
      BY <2>2, <3>0 DEF SumsOf
    <3>2. CASE t = {}
      BY <3>1, <3>2
    <3>3. CASE t # {}
      <4>1. /\ One(t) \in t /\ Cardinality(t) \in Nat \ {0}
            /\ Cardinality(t \ {One(t)}) = Cardinality(t) - 1
        BY <3>0, <3>3, ConstantFacts, OneLess
      <4>2. t \ {One(t)} \in Q
        BY <2>3, <4>1
      <4> QED BY <2>1, <3>1, <3>3, <4>1, <4>2
    <3> QED BY <3>2, <3>3
  <2>4. \A t \in SUBSET S : t \in Q
    <3>1. IsFiniteSet(S)
      BY <1>0, ConstantFacts, FS_Subset
    <3> HIDE DEF Q
    <3> QED BY <2>3, <3>1, BySize
  <2>5. f[S] = 0
    BY <2>4
  <2> QED BY <2>2, <2>5, ConstantFacts
<1>2. ASSUME NEW v \in Verts PROVE (p[v] + Total(d, S)[v]) % M = p[v]
  <2>1. p[v] \in 0 .. M - 1
    BY DEF Pos
  <2> HIDE DEF S
  <2> QED BY <1>1, <2>1, ConstantFacts
<1> QED BY <1>2 DEF Plus, Pos

\* With c expressed at vs, the level shows pos there and elsewhere what it did.
LEMMA Expression ==
  ASSUME NEW d \in Detail, NEW on, NEW c \in Mixed(on), NEW b \in Pos, NEW p \in Pos,
         NEW vs \in SUBSET Verts,
         \A v \in Verts \ vs : p[v] = Plus(b, Total(d, Mixed(on)))[v]
  PROVE  LET e == Express(d, on, c, b, p, vs)
         IN  /\ e \in Detail /\ \A x \in Channels \ {c} : e[x] = d[x]
             /\ Plus(b, Total(e, Mixed(on))) = p
<1> DEFINE S == Mixed(on)
           q == Minus(Minus(p, b), Total(d, S \ {c}))
           n == [v \in Verts |-> IF v \in vs THEN q[v] ELSE d[c][v]]
           e == [d EXCEPT ![c] = n]
<1>1. S \in SUBSET Channels /\ c \in Channels /\ S \ {c} \in SUBSET Channels
  BY ConstantFacts
<1>2. Express(d, on, c, b, p, vs) = e
  BY <1>1 DEF Express, Detail
<1>3. q \in Pos
  BY <1>1, TotalType, PosOps
<1>4. n \in Pos
  <2> HIDE DEF q
  <2> QED BY <1>1, <1>3 DEF Detail, Pos
<1>5. e \in Detail /\ e[c] = n /\ \A x \in Channels \ {c} : e[x] = d[x]
  <2> HIDE DEF n
  <2> QED BY <1>1, <1>4 DEF Detail
<1> HIDE DEF e, S
<1>6. Total(e, S \ {c}) = Total(d, S \ {c})
  <2>1. \A x \in S \ {c} : e[x] = d[x]
    BY <1>1, <1>5
  <2> QED BY <1>1, <1>5, <2>1, TotalSame
<1>7. ASSUME NEW v \in Verts PROVE (b[v] + Total(e, S)[v]) % M = p[v]
  <2>1. PICK r \in Nat : /\ Total(e, S \ {c})[v] = r % M
                         /\ Total(e, S)[v] = (e[c][v] + r) % M
    BY <1>1, <1>5, TotalSplit DEF S
  <2>2. PICK s \in Nat : /\ Total(d, S \ {c})[v] = s % M
                         /\ Total(d, S)[v] = (d[c][v] + s) % M
    BY <1>1, TotalSplit DEF S
  <2>3. /\ b[v] \in Int /\ p[v] \in 0 .. M - 1 /\ d[c][v] \in Int
        /\ r \in Int /\ s \in Int /\ M \in Nat \ {0}
    BY <1>1, ConstantFacts DEF Pos, Detail
  <2>4. CASE v \in vs
    <3>1. e[c][v] = Sought(M, p[v], b[v], r)
      <4>1. e[c][v] = q[v]
        BY <1>5, <2>4
      <4>2. q[v] = (((p[v] - b[v]) % M) - Total(d, S \ {c})[v]) % M
        BY DEF Minus
      <4> QED BY <1>6, <2>1, <4>1, <4>2 DEF Sought
    <3>2. (b[v] + ((Sought(M, p[v], b[v], r) + r) % M)) % M = p[v]
      <4> DEFINE pv == p[v]
                 bv == b[v]
      <4>1. pv \in 0 .. M - 1 /\ bv \in Int /\ r \in Int /\ M \in Nat \ {0}
        BY <2>3
      <4> HIDE DEF pv, bv
      <4>2. (bv + ((Sought(M, pv, bv, r) + r) % M)) % M = pv
        BY <4>1, TakesTheRest
      <4> QED BY <4>2 DEF pv, bv
    <3> QED BY <2>1, <3>1, <3>2
  <2>5. CASE v \notin vs
    <3>1. p[v] = (b[v] + Total(d, S)[v]) % M
      BY <2>5 DEF Plus, S
    <3>2. e[c][v] = d[c][v]
      BY <1>5, <2>5
    <3>3. Total(e, S)[v] = Total(d, S)[v]
      <4>1. r % M = s % M
        BY <1>6, <2>1, <2>2
      <4>2. (d[c][v] + r) % M = (d[c][v] + s) % M
        BY <2>3, <4>1, ModAdd
      <4> QED BY <2>1, <2>2, <3>2, <4>2
    <3> QED BY <3>1, <3>3
  <2> QED BY <2>4, <2>5
<1>8. Plus(b, Total(e, S)) = p
  <2>1. p = [v \in Verts |-> p[v]]
    BY DEF Pos
  <2> QED BY <1>7, <2>1 DEF Plus
<1> QED BY <1>2, <1>5, <1>8 DEF S

-----------------------------------------------------------------------------
(* Surfaces.                                                               *)

Layered(disp, l) == \A k \in 1 .. l : disp[k] \in Detail

\* f holds the surfaces of the levels to l.
IsSurface(f, l, disp, on) ==
  /\ f \in [0 .. l -> Pos] /\ f[0] = Cage
  /\ \A k \in 1 .. l : f[k] = Plus(Stencil[f[k - 1]], Total(disp[k], Mixed(on)))
  /\ \A k \in 0 .. l : Surface(disp, on, k) = f[k]

LEMMA SurfaceRun ==
  ASSUME NEW l \in Nat, NEW disp, NEW on, Layered(disp, l)
  PROVE  \E f : IsSurface(f, l, disp, on)
<1> DEFINE Round(p, k) == Plus(Stencil[p], Total(disp[k], Mixed(on)))
           g == [k \in 1 .. l |-> [p \in Pos |-> Round(p, k)]]
<1>1. \A k \in 1 .. l, p \in Pos : Round(p, k) \in Pos
  <2> TAKE k \in 1 .. l, p \in Pos
  <2>1. disp[k] \in Detail
    BY DEF Layered
  <2>2. Total(disp[k], Mixed(on)) \in Pos
    BY <2>1, ConstantFacts, TotalType
  <2>3. Stencil[p] \in Pos
    BY ConstantFacts
  <2> QED BY <2>2, <2>3, PosOps
<1>2. Cage \in Pos
  BY ConstantFacts
<1> HIDE DEF Round
<1>3. Rounds(l, Pos, g)
  BY <1>1 DEF Rounds
<1>4. \A k \in 1 .. l, p \in Pos : g[k][p] = Round(p, k)
  OBVIOUS
<1> HIDE DEF g
<1>5. PICK f : IsRun(f, l, Pos, Cage, g)
  BY <1>2, <1>3, RunExists
<1>6. f \in [0 .. l -> Pos] /\ f[0] = Cage /\ \A k \in 1 .. l : f[k] = Round(f[k - 1], k)
  <2>1. f \in [0 .. l -> Pos] /\ f[0] = Cage /\ \A k \in 1 .. l : f[k] = g[k][f[k - 1]]
    BY <1>5 DEF IsRun
  <2>2. \A k \in 1 .. l : k - 1 \in 0 .. l
    OBVIOUS
  <2> QED BY <1>4, <2>1, <2>2
<1>7. ASSUME NEW m \in 0 .. l PROVE Surface(disp, on, m) = f[m]
  <2> DEFINE F(h) == [k \in 0 .. m |-> IF k = 0 THEN Cage ELSE Round(h[k - 1], k)]
             run == CHOOSE h : h = F(h)
  <2>1. Surface(disp, on, m) = run[m]
    BY DEF Surface, Round
  <2>2. run = F(run)
    <3> DEFINE h == [k \in 0 .. m |-> f[k]]
    <3>1. \A k \in 1 .. m : k \in 1 .. l /\ k - 1 \in 0 .. m
      OBVIOUS
    <3>2. h = F(h)
      BY <1>6, <3>1
    <3> HIDE DEF h
    <3>3. \E x : x = F(x)
      BY <3>2
    <3> QED BY <3>3
  <2> HIDE DEF run
  <2>3. run[0] = Cage /\ \A k \in 1 .. m : run[k] = Round(run[k - 1], k)
    BY <2>2
  <2> DEFINE P == {k \in 0 .. m : run[k] = f[k]}
  <2>4. 0 \in P
    BY <1>6, <2>3
  <2>5. \A k \in 1 .. m : k - 1 \in P => k \in P
    <3>1. \A k \in 1 .. m : k \in 1 .. l
      OBVIOUS
    <3> QED BY <1>6, <2>3, <3>1
  <2> HIDE DEF P
  <2>6. \A k \in 0 .. m : k \in P
    BY <2>4, <2>5, NextIn
  <2>7. m \in P
    BY <2>6
  <2> QED BY <2>1, <2>7 DEF P
<1> QED BY <1>6, <1>7 DEF Round, IsSurface

\* A level on top of the one below.
LEMMA SurfaceStep ==
  ASSUME NEW l \in Nat \ {0}, NEW disp, NEW on, Layered(disp, l)
  PROVE  /\ Surface(disp, on, l) \in Pos /\ Surface(disp, on, l - 1) \in Pos
         /\ Surface(disp, on, l) =
              Plus(Stencil[Surface(disp, on, l - 1)], Total(disp[l], Mixed(on)))
<1>0. l \in Nat
  OBVIOUS
<1>1. PICK f : IsSurface(f, l, disp, on)
  BY <1>0, SurfaceRun
<1>2. l \in 0 .. l /\ l \in 1 .. l /\ l - 1 \in 0 .. l
  OBVIOUS
<1> QED BY <1>1, <1>2 DEF IsSurface

LEMMA SurfaceZero ==
  ASSUME NEW disp, NEW on
  PROVE  Surface(disp, on, 0) = Cage
<1>1. Layered(disp, 0)
  BY DEF Layered
<1>2. PICK f : IsSurface(f, 0, disp, on)
  BY <1>1, SurfaceRun
<1> QED BY <1>2 DEF IsSurface

\* Detail above a level is not seen there.
LEMMA SurfaceSame ==
  ASSUME NEW l \in Nat, NEW disp, NEW other, NEW on, Layered(disp, l),
         \A k \in 1 .. l : other[k] = disp[k]
  PROVE  Surface(other, on, l) = Surface(disp, on, l)
<1> DEFINE P == {k \in 0 .. l : Surface(other, on, k) = Surface(disp, on, k)}
<1>1. 0 \in P
  BY SurfaceZero
<1>2. ASSUME NEW k \in 1 .. l, k - 1 \in P PROVE k \in P
  <2>1. Layered(disp, k) /\ Layered(other, k) /\ k \in Nat \ {0}
    BY DEF Layered
  <2>2. Surface(disp, on, k) = Plus(Stencil[Surface(disp, on, k - 1)], Total(disp[k], Mixed(on)))
    BY <2>1, SurfaceStep
  <2>3. Surface(other, on, k) = Plus(Stencil[Surface(other, on, k - 1)], Total(other[k], Mixed(on)))
    BY <2>1, SurfaceStep
  <2>4. other[k] = disp[k]
    OBVIOUS
  <2> QED BY <1>2, <2>2, <2>3, <2>4
<1> HIDE DEF P
<1>3. \A k \in 0 .. l : k \in P
  BY <1>1, <1>2, NextIn
<1>4. l \in P
  BY <1>3
<1> QED BY <1>4 DEF P

-----------------------------------------------------------------------------
(* The state of the object, and its slots.                                 *)

Slot == [level : Nat, mesh : Pos]
Kinds == {"none", "new", "bound"}
Stack(n) ==
  [disp : [1 .. n -> Detail], on : [Layers -> BOOLEAN], target : Channels,
   cache : [1 .. n -> PosCache], slots : Seq(Slot), domains : [1 .. n -> Kinds],
   fresh : BOOLEAN, debt : SUBSET (2 .. n), stale : SUBSET Nat, active : 0 .. n]

\* Nothing but the slots differ.
OnlySlots(s, t) ==
  /\ t.disp = s.disp /\ t.on = s.on /\ t.target = s.target /\ t.cache = s.cache
  /\ t.domains = s.domains /\ t.fresh = s.fresh /\ t.debt = s.debt /\ t.stale = s.stale
  /\ t.active = s.active

\* The slots are of different levels.
Distinct(q) ==
  /\ q \in Seq(Slot) /\ Len(q) \in Nat /\ DOMAIN q = 1 .. Len(q)
  /\ \A i, j \in DOMAIN q : q[i].level = q[j].level => i = j

LEMMA StackFields ==
  ASSUME NEW n \in Nat, NEW s \in Stack(n)
  PROVE  /\ s.disp \in [1 .. n -> Detail] /\ s.on \in [Layers -> BOOLEAN] /\ s.target \in Channels
         /\ s.cache \in [1 .. n -> PosCache] /\ s.slots \in Seq(Slot)
         /\ s.domains \in [1 .. n -> Kinds] /\ s.fresh \in BOOLEAN /\ s.debt \in SUBSET (2 .. n)
         /\ s.stale \in SUBSET Nat /\ s.active \in 0 .. n
         /\ Depth(s) = n /\ Levels(s) = 1 .. n
         /\ DOMAIN s.disp = 1 .. n /\ DOMAIN s.cache = 1 .. n /\ DOMAIN s.domains = 1 .. n
<1>1. /\ s.disp \in [1 .. n -> Detail] /\ s.on \in [Layers -> BOOLEAN] /\ s.target \in Channels
      /\ s.cache \in [1 .. n -> PosCache] /\ s.slots \in Seq(Slot)
      /\ s.domains \in [1 .. n -> Kinds] /\ s.fresh \in BOOLEAN /\ s.debt \in SUBSET (2 .. n)
      /\ s.stale \in SUBSET Nat /\ s.active \in 0 .. n
  BY DEF Stack
<1>2. Len(s.disp) = n
  <2>1. s.disp \in Seq(Detail) /\ DOMAIN s.disp = 1 .. n
    BY <1>1, SeqDef
  <2>2. Len(s.disp) \in Nat /\ DOMAIN s.disp = 1 .. Len(s.disp)
    BY <2>1, LenProperties
  <2> QED BY <2>1, <2>2
<1> QED BY <1>1, <1>2 DEF Depth, Levels

LEMMA WithSlots ==
  ASSUME NEW n \in Nat, NEW s \in Stack(n), NEW q \in Seq(Slot)
  PROVE  /\ [s EXCEPT !.slots = q] \in Stack(n) /\ [s EXCEPT !.slots = q].slots = q
         /\ OnlySlots(s, [s EXCEPT !.slots = q])
BY DEF Stack, OnlySlots

LEMMA SlotAt ==
  ASSUME NEW s, Distinct(s.slots), NEW i \in DOMAIN s.slots
  PROVE  /\ Resident(s, s.slots[i].level) /\ SlotMesh(s, s.slots[i].level) = s.slots[i].mesh
         /\ s.slots[i].level \in Nat /\ s.slots[i].mesh \in Pos /\ s.slots[i] \in Slot
<1> DEFINE q == s.slots
           x == q[i]
<1>1. x \in Slot
  BY ElementOfSeq DEF Distinct
<1>2. Resident(s, x.level)
  BY DEF Resident
<1>3. SlotMesh(s, x.level) = x.mesh
  <2>1. \A y \in ToSet(q) : y.level = x.level => y = x
    BY DEF ToSet, Distinct
  <2>2. x \in ToSet(q)
    BY DEF ToSet
  <2> HIDE DEF q, x
  <2>3. (CHOOSE y \in ToSet(q) : y.level = x.level) = x
    BY <2>1, <2>2
  <2> QED BY <2>3 DEF SlotMesh, q
<1> QED BY <1>1, <1>2, <1>3 DEF Slot

LEMMA SlotOf ==
  ASSUME NEW s, Distinct(s.slots), NEW l, Resident(s, l)
  PROVE  /\ l \in Nat /\ SlotMesh(s, l) \in Pos
         /\ \E i \in DOMAIN s.slots : s.slots[i].level = l /\ s.slots[i].mesh = SlotMesh(s, l)
<1>1. PICK i \in DOMAIN s.slots : s.slots[i].level = l
  BY DEF Resident
<1> QED BY <1>1, SlotAt

LEMMA SetMeshSlots ==
  ASSUME NEW n \in Nat, NEW s \in Stack(n), Distinct(s.slots), NEW l, NEW p \in Pos
  PROVE  LET t == SetMesh(s, l, p)
         IN  /\ t \in Stack(n) /\ OnlySlots(s, t) /\ Distinct(t.slots)
             /\ Len(t.slots) = Len(s.slots)
             /\ \A k : Resident(t, k) <=> Resident(s, k)
             /\ \A k : Resident(s, k) => SlotMesh(t, k) = IF k = l THEN p ELSE SlotMesh(s, k)
<1> DEFINE q == s.slots
           r == [i \in DOMAIN q |-> IF q[i].level = l THEN [q[i] EXCEPT !.mesh = p] ELSE q[i]]
           t == [s EXCEPT !.slots = r]
<1>1. SetMesh(s, l, p) = t
  BY DEF SetMesh
<1>2. \A i \in DOMAIN q : q[i] \in Slot
  BY SlotAt
<1>3. Len(q) \in Nat /\ DOMAIN q = 1 .. Len(q) /\ \A i, j \in DOMAIN q : q[i].level = q[j].level => i = j
  BY DEF Distinct
<1>4. \A i \in DOMAIN q :
        /\ r[i] \in Slot /\ r[i].level = q[i].level
        /\ r[i].mesh = IF q[i].level = l THEN p ELSE q[i].mesh
  <2> TAKE i \in DOMAIN q
  <2> DEFINE x == q[i]
             y == [x EXCEPT !.mesh = p]
  <2>1. x \in Slot
    BY <1>2
  <2> HIDE DEF x
  <2>2. y \in Slot /\ y.level = x.level /\ y.mesh = p
    BY <2>1 DEF Slot
  <2>3. r[i] = IF x.level = l THEN y ELSE x
    BY DEF x
  <2> HIDE DEF y, r
  <2>4. r[i] \in Slot /\ r[i].level = x.level /\ r[i].mesh = IF x.level = l THEN p ELSE x.mesh
    BY <2>1, <2>2, <2>3
  <2> QED BY <2>4 DEF x
<1>5. DOMAIN r = 1 .. Len(q)
  BY <1>3
<1>6. r \in [1 .. Len(q) -> Slot]
  <2>1. r = [i \in 1 .. Len(q) |-> r[i]]
    BY <1>3
  <2> HIDE DEF r
  <2> QED BY <1>3, <1>4, <2>1
<1> HIDE DEF r
<1>7. r \in Seq(Slot)
  BY <1>3, <1>6, SeqDef
<1>8. Len(r) = Len(q)
  <2>1. Len(r) \in Nat /\ DOMAIN r = 1 .. Len(r)
    BY <1>7, LenProperties
  <2> QED BY <1>3, <1>5, <2>1
<1>9. Distinct(r)
  BY <1>3, <1>4, <1>5, <1>7, <1>8 DEF Distinct
<1>10. t \in Stack(n) /\ t.slots = r /\ OnlySlots(s, t)
  BY <1>7, WithSlots
<1> HIDE DEF t
<1>11. \A k : Resident(t, k) <=> Resident(s, k)
  BY <1>3, <1>4, <1>5, <1>10 DEF Resident
<1>12. ASSUME NEW k, Resident(s, k)
       PROVE  SlotMesh(t, k) = IF k = l THEN p ELSE SlotMesh(s, k)
  <2>1. PICK i \in DOMAIN q : q[i].level = k /\ q[i].mesh = SlotMesh(s, k)
    BY <1>12, SlotOf
  <2>2. i \in DOMAIN t.slots
    BY <1>3, <1>5, <1>10
  <2>3. SlotMesh(t, t.slots[i].level) = t.slots[i].mesh
    BY <1>9, <1>10, <2>2, SlotAt
  <2> QED BY <1>4, <1>10, <2>1, <2>3
<1> QED BY <1>1, <1>8, <1>9, <1>10, <1>11, <1>12

Added(s, l, p) == [s EXCEPT !.slots = Append(@, [level |-> l, mesh |-> p])]

LEMMA AppendSlots ==
  ASSUME NEW n \in Nat, NEW s \in Stack(n), Distinct(s.slots), NEW l \in Nat, NEW p \in Pos,
         ~Resident(s, l)
  PROVE  LET t == Added(s, l, p)
         IN  /\ t \in Stack(n) /\ OnlySlots(s, t) /\ Distinct(t.slots)
             /\ Len(t.slots) = Len(s.slots) + 1
             /\ \A k : Resident(t, k) <=> Resident(s, k) \/ k = l
             /\ \A k : Resident(s, k) => SlotMesh(t, k) = SlotMesh(s, k)
             /\ SlotMesh(t, l) = p
<1> DEFINE q == s.slots
           x == [level |-> l, mesh |-> p]
           r == Append(q, x)
           t == [s EXCEPT !.slots = r]
<1>1. x \in Slot /\ x.level = l /\ x.mesh = p
  BY DEF Slot
<1>2. q \in Seq(Slot) /\ Len(q) \in Nat /\ DOMAIN q = 1 .. Len(q)
      /\ \A i, j \in DOMAIN q : q[i].level = q[j].level => i = j
  BY DEF Distinct
<1> HIDE DEF x
<1>3. /\ r \in Seq(Slot) /\ Len(r) = Len(q) + 1
      /\ \A i \in 1 .. Len(q) : r[i] = q[i]
      /\ r[Len(q) + 1] = x
  BY <1>1, <1>2, AppendProperties
<1>4. t \in Stack(n) /\ t.slots = r /\ OnlySlots(s, t)
  <2> HIDE DEF r
  <2> QED BY <1>3, WithSlots
<1> HIDE DEF r, t
<1>5. Len(r) \in Nat /\ DOMAIN r = 1 .. Len(q) + 1
  BY <1>2, <1>3, LenProperties
<1>6. \A i \in DOMAIN q : q[i].level # l
  BY DEF Resident
<1>7. Distinct(r)
  <2>1. ASSUME NEW i \in DOMAIN r, NEW j \in DOMAIN r, r[i].level = r[j].level PROVE i = j
    <3>1. (i \in DOMAIN q \/ i = Len(q) + 1) /\ (j \in DOMAIN q \/ j = Len(q) + 1)
      BY <1>2, <1>5
    <3> QED BY <1>1, <1>2, <1>3, <1>6, <2>1, <3>1
  <2> QED BY <1>3, <1>5, <2>1 DEF Distinct
<1>8. ASSUME NEW k PROVE Resident(t, k) <=> Resident(s, k) \/ k = l
  <2>1. Len(q) + 1 \in DOMAIN r /\ \A i \in DOMAIN q : i \in DOMAIN r
    BY <1>2, <1>5
  <2>2. \A i \in DOMAIN r : i \in DOMAIN q \/ i = Len(q) + 1
    BY <1>2, <1>5
  <2> QED BY <1>1, <1>2, <1>3, <1>4, <2>1, <2>2 DEF Resident
<1>9. ASSUME NEW k, Resident(s, k) PROVE SlotMesh(t, k) = SlotMesh(s, k)
  <2>1. PICK i \in DOMAIN q : q[i].level = k /\ q[i].mesh = SlotMesh(s, k)
    BY <1>9, SlotOf
  <2>2. i \in DOMAIN t.slots /\ t.slots[i] = q[i]
    BY <1>2, <1>3, <1>4, <1>5
  <2>3. SlotMesh(t, t.slots[i].level) = t.slots[i].mesh
    BY <1>4, <1>7, <2>2, SlotAt
  <2> QED BY <2>1, <2>2, <2>3
<1>10. SlotMesh(t, l) = p
  <2>1. Len(q) + 1 \in DOMAIN t.slots
    BY <1>2, <1>4, <1>5
  <2>2. SlotMesh(t, t.slots[Len(q) + 1].level) = t.slots[Len(q) + 1].mesh
    BY <1>4, <1>7, <2>1, SlotAt
  <2> QED BY <1>1, <1>3, <1>4, <2>2
<1> QED BY <1>3, <1>4, <1>7, <1>8, <1>9, <1>10 DEF t, r, x, Added

-----------------------------------------------------------------------------
(* Slots that are evicted.                                                 *)

\* What is kept of a list are the items at the places K, each once.
LEMMA KeptOrder ==
  ASSUME NEW S, NEW s \in Seq(S), NEW K \in SUBSET DOMAIN s
  PROVE  /\ Kept(s, K) \in Seq(S) /\ Cardinality(K) \in Nat /\ Cardinality(K) <= Len(s)
         /\ DOMAIN Kept(s, K) = 1 .. Cardinality(K)
         /\ \E f \in Bijection(1 .. Cardinality(K), K) :
              \A n \in 1 .. Cardinality(K) : Kept(s, K)[n] = s[f[n]]
<1> DEFINE N == Cardinality(K)
           Upto(i) == {j \in K : j <= i}
           rank == [i \in K |-> Cardinality(Upto(i))]
<1>1. IsFiniteSet(K) /\ N \in Nat /\ K \subseteq Nat
  <2>1. Len(s) \in Nat /\ DOMAIN s = 1 .. Len(s)
    BY LenProperties
  <2>2. IsFiniteSet(1 .. Len(s))
    BY <2>1, FS_Interval
  <2> QED BY <2>1, <2>2, FS_Subset, FS_CardinalityType
<1>2. ASSUME NEW i \in K
      PROVE  IsFiniteSet(Upto(i)) /\ rank[i] \in 1 .. N
  <2>1. IsFiniteSet(Upto(i)) /\ Cardinality(Upto(i)) <= N
    BY <1>1, FS_Subset
  <2>2. i \in Upto(i)
    BY <1>1
  <2>3. Cardinality(Upto(i)) # 0 /\ Cardinality(Upto(i)) \in Nat
    BY <2>1, <2>2, FS_EmptySet, FS_CardinalityType
  <2> QED BY <1>1, <2>1, <2>3
<1>3. ASSUME NEW i \in K, NEW j \in K, i < j
      PROVE  rank[i] # rank[j]
  <2>1. Upto(i) \in SUBSET Upto(j)
    <3>1. \A k \in K : k <= i => k <= j
      BY <1>1, <1>3
    <3> QED BY <3>1
  <2>2. j \in Upto(j) /\ j \notin Upto(i)
    BY <1>1, <1>3
  <2> QED BY <1>2, <2>1, <2>2, FS_Subset
<1>4. rank \in Injection(K, 1 .. N)
  <2>1. rank \in [K -> 1 .. N]
    BY <1>2
  <2>2. \A i, j \in K : i # j => i < j \/ j < i
    BY <1>1
  <2>3. \A i, j \in K : rank[i] = rank[j] => i = j
    <3> HIDE DEF rank
    <3> QED BY <1>3, <2>2
  <2> HIDE DEF rank
  <2> QED BY <2>1, <2>3 DEF Injection, IsInjective
<1>5. rank \in Surjection(K, 1 .. N)
  <2>1. IsFiniteSet(1 .. N) /\ Cardinality(1 .. N) = N
    BY <1>1, FS_Interval
  <2> QED BY <1>1, <1>4, <2>1, FS_Injection
<1> DEFINE f == [n \in 1 .. N |-> CHOOSE k \in K : Cardinality(Upto(k)) = n]
<1>6. /\ \A n \in 1 .. N : f[n] \in K /\ rank[f[n]] = n
      /\ \A n \in 1 .. N : Kept(s, K)[n] = s[f[n]]
  <2>1. \A n \in 1 .. N : \E k \in K : rank[k] = n
    BY <1>5 DEF Surjection
  <2>2. \A n \in 1 .. N : \E k \in K : Cardinality(Upto(k)) = n
    BY <2>1
  <2>3. \A n \in 1 .. N : f[n] \in K /\ Cardinality(Upto(f[n])) = n
    BY <2>2
  <2>4. \A n \in 1 .. N : Kept(s, K)[n] = s[f[n]]
    BY DEF Kept
  <2> QED BY <2>3, <2>4
<1>7. DOMAIN Kept(s, K) = 1 .. N
  BY DEF Kept
<1>8. Kept(s, K) = [n \in 1 .. N |-> Kept(s, K)[n]]
  BY DEF Kept
<1>9. Kept(s, K) \in Seq(S) /\ N <= Len(s)
  <2>0. \A k \in K : s[k] \in S
    BY ElementOfSeq, LenProperties
  <2> HIDE DEF f
  <2>1. \A n \in 1 .. N : Kept(s, K)[n] \in S
    BY <1>6, <2>0
  <2>2. Kept(s, K) \in [1 .. N -> S]
    BY <1>8, <2>1
  <2>3. N <= Len(s)
    <3>1. Len(s) \in Nat /\ DOMAIN s = 1 .. Len(s)
      BY LenProperties
    <3> DEFINE l == Len(s)
    <3>2. l \in Nat /\ 1 \in Int /\ l \in Int
      BY <3>1
    <3> HIDE DEF l, N
    <3>3. IsFiniteSet(1 .. l) /\ Cardinality(1 .. l) = l
      BY <3>2, FS_Interval
    <3>4. K \in SUBSET (1 .. l)
      BY <3>1 DEF l
    <3>5. Cardinality(K) <= l
      BY <3>3, <3>4, FS_Subset
    <3> QED BY <3>5 DEF l, N
  <2> QED BY <1>1, <2>2, <2>3, SeqDef
<1>10. f \in Bijection(1 .. N, K)
  <2>1. f \in [1 .. N -> K]
    BY <1>6
  <2>2. \A k \in K : rank[k] \in 1 .. N
    BY <1>2
  <2>3. \A j, k \in K : rank[j] = rank[k] => j = k
    BY <1>4 DEF Injection, IsInjective
  <2> HIDE DEF rank, f
  <2>4. \A n, m \in 1 .. N : f[n] = f[m] => n = m
    BY <1>6
  <2>5. \A k \in K : \E n \in 1 .. N : f[n] = k
    BY <1>6, <2>2, <2>3
  <2> QED BY <2>1, <2>4, <2>5 DEF Bijection, Injection, Surjection, IsInjective
<1> HIDE DEF f
<1> QED BY <1>1, <1>6, <1>7, <1>9, <1>10


LEMMA EvictedSlots ==
  ASSUME NEW n \in Nat, NEW s \in Stack(n), Distinct(s.slots), NEW gone
  PROVE  LET t == Evicted(s, gone)
         IN  /\ t \in Stack(n) /\ OnlySlots(s, t) /\ Distinct(t.slots)
             /\ Len(t.slots) <= Len(s.slots)
             /\ \A k : Resident(t, k) <=> Resident(s, k) /\ k \notin gone
             /\ \A k : Resident(t, k) => SlotMesh(t, k) = SlotMesh(s, k)
             /\ (\E k \in gone : Resident(s, k)) => Len(t.slots) < Len(s.slots)
<1> DEFINE q == s.slots
           K == {i \in DOMAIN q : q[i].level \notin gone}
           r == Kept(q, K)
           t == [s EXCEPT !.slots = r]
           m == Cardinality(K)
<1>1. Evicted(s, gone) = t
  BY DEF Evicted
<1>2. q \in Seq(Slot) /\ Len(q) \in Nat /\ DOMAIN q = 1 .. Len(q)
      /\ \A i, j \in DOMAIN q : q[i].level = q[j].level => i = j
  BY DEF Distinct
<1>3. K \in SUBSET DOMAIN q
  OBVIOUS
<1>4. r \in Seq(Slot) /\ m \in Nat /\ m <= Len(q) /\ DOMAIN r = 1 .. m
      /\ \E f \in Bijection(1 .. m, K) : \A j \in 1 .. m : r[j] = q[f[j]]
  <2> HIDE DEF K
  <2> QED BY <1>2, <1>3, KeptOrder
<1>5. PICK f \in Bijection(1 .. m, K) : \A j \in 1 .. m : r[j] = q[f[j]]
  BY <1>4
<1> HIDE DEF r
<1>6. t \in Stack(n) /\ t.slots = r /\ OnlySlots(s, t)
  BY <1>4, WithSlots
<1>7. Len(r) = m
  <2>1. Len(r) \in Nat /\ DOMAIN r = 1 .. Len(r)
    BY <1>4, LenProperties
  <2> QED BY <1>4, <2>1
<1> HIDE DEF m, t
<1>8. /\ \A j \in 1 .. m : f[j] \in DOMAIN q /\ q[f[j]].level \notin gone
      /\ \A i, j \in 1 .. m : f[i] = f[j] => i = j
      /\ \A i \in DOMAIN q : q[i].level \notin gone => \E j \in 1 .. m : f[j] = i
  BY <1>5 DEF Bijection, Injection, Surjection, IsInjective
<1>9. Distinct(r)
  <2>1. ASSUME NEW i \in DOMAIN r, NEW j \in DOMAIN r, r[i].level = r[j].level PROVE i = j
    <3>1. i \in 1 .. m /\ j \in 1 .. m
      BY <1>4
    <3>2. r[i] = q[f[i]] /\ r[j] = q[f[j]] /\ f[i] \in DOMAIN q /\ f[j] \in DOMAIN q
      BY <1>5, <1>8, <3>1
    <3>3. f[i] = f[j]
      BY <1>2, <2>1, <3>2
    <3> QED BY <1>8, <3>1, <3>3
  <2> QED BY <1>4, <1>7, <2>1 DEF Distinct
<1>10. ASSUME NEW k PROVE Resident(t, k) <=> Resident(s, k) /\ k \notin gone
  <2>1. ASSUME Resident(t, k) PROVE Resident(s, k) /\ k \notin gone
    <3>1. PICK i \in 1 .. m : r[i].level = k
      BY <1>4, <1>6, <2>1 DEF Resident
    <3>2. r[i] = q[f[i]] /\ f[i] \in DOMAIN q /\ q[f[i]].level \notin gone
      BY <1>5, <1>8
    <3> QED BY <3>1, <3>2 DEF Resident
  <2>2. ASSUME Resident(s, k), k \notin gone PROVE Resident(t, k)
    <3>1. PICK i \in DOMAIN q : q[i].level = k
      BY <2>2 DEF Resident
    <3>2. PICK j \in 1 .. m : f[j] = i
      BY <1>8, <2>2, <3>1
    <3>3. r[j].level = k
      BY <1>5, <3>1, <3>2
    <3> QED BY <1>4, <1>6, <3>3 DEF Resident
  <2> QED BY <2>1, <2>2
<1>11. ASSUME NEW k, Resident(t, k) PROVE SlotMesh(t, k) = SlotMesh(s, k)
  <2>1. PICK i \in DOMAIN t.slots : t.slots[i].level = k /\ t.slots[i].mesh = SlotMesh(t, k)
    BY <1>6, <1>9, <1>11, SlotOf
  <2>2. i \in 1 .. m /\ t.slots[i] = q[f[i]] /\ f[i] \in DOMAIN q
    BY <1>4, <1>5, <1>6, <1>8, <2>1
  <2>3. SlotMesh(s, q[f[i]].level) = q[f[i]].mesh
    BY <2>2, SlotAt
  <2> QED BY <2>1, <2>2, <2>3
<1>12. ASSUME NEW k \in gone, Resident(s, k) PROVE m < Len(q)
  <2>1. PICK i \in DOMAIN q : q[i].level = k
    BY <1>12 DEF Resident
  <2>2. i \notin K
    BY <1>12, <2>1
  <2>3. IsFiniteSet(DOMAIN q) /\ Cardinality(DOMAIN q) = Len(q)
    BY <1>2, FS_Interval
  <2>4. Cardinality(DOMAIN q) # Cardinality(K)
    BY <1>3, <2>1, <2>2, <2>3, FS_Subset
  <2> QED BY <1>2, <1>4, <2>3, <2>4 DEF m
<1> QED BY <1>1, <1>2, <1>4, <1>6, <1>7, <1>9, <1>10, <1>11, <1>12

-----------------------------------------------------------------------------
(* When the object is in order.                                            *)

Surf(s, l) == Surface(s.disp, s.on, l)
Under(s, l) == Stencil[Surf(s, l - 1)]

\* The levels whose slots may be stale: none if every stroke is mirrored.
Unmirrored == IF Mirrors \subseteq {TRUE} THEN {} ELSE Nat

Room == Max({1, Budget})
Shaped(s, n) ==
  /\ n \in 1 .. MaxLevels /\ s \in Stack(n)
  /\ Distinct(s.slots) /\ Len(s.slots) <= Room
  /\ \A k : Resident(s, k) => k \in 1 .. n
  /\ s.target \in Mixed(s.on)

\* What the cache says of level l can be trusted.
Held(s, l) ==
  IF s.cache[l].valid
  THEN /\ l > 1 => s.cache[l - 1].valid
       /\ s.cache[l].pos = Surf(s, l)
       /\ s.cache[l].base # NoBase => s.cache[l].base = Under(s, l)
       /\ s.cache[l].posIsBase /\ s.cache[l].base = NoBase => s.cache[l].pos = Under(s, l)
  ELSE s.cache[l].base = NoBase
Pins(s, l) ==
  /\ Resident(s, l) /\ l \notin s.stale => s.cache[l].valid
  /\ s.domains[l] # "none" => s.cache[l].valid /\ s.cache[l].base # NoBase
Showing(s, l, D) ==
  Resident(s, l) /\ l \notin Unmirrored =>
    l \notin s.stale /\ (l \notin D => SlotMesh(s, l) = Surf(s, l))
Orderly(s, l, D) == Held(s, l) /\ Pins(s, l) /\ Showing(s, l, D)

\* The levels to m are in order, but for the slots of D.
UpTo(s, n, m, D) == Shaped(s, n) /\ \A l \in 1 .. m : Orderly(s, l, D)
Good(s, n, D) == UpTo(s, n, n, D)

BoundAt(s, l) == l \in DOMAIN s.domains /\ s.domains[l] = "bound"
\* What the log of a domain still bound relies on.
Keeps(s, t) ==
  \A l : BoundAt(t, l) => /\ BoundAt(s, l) /\ t.on = s.on
                          /\ \A k \in 1 .. l : t.disp[k] = s.disp[k]
Frame(s, t) == Keeps(s, t) /\ t.on = s.on /\ t.target = s.target /\ t.active = s.active

LEMMA FrameTwice ==
  ASSUME NEW s, NEW t, NEW u, Frame(s, t), Frame(t, u)
  PROVE  Frame(s, u)
BY DEF Frame, Keeps

LEMMA ShapedFacts ==
  ASSUME NEW n, NEW s, Shaped(s, n)
  PROVE  /\ n \in Nat /\ n \in 1 .. n /\ n \in 1 .. MaxLevels
         /\ s \in Stack(n) /\ Distinct(s.slots) /\ Len(s.slots) <= Room
         /\ \A k : Resident(s, k) => k \in 1 .. n
         /\ s.target \in Mixed(s.on)
         /\ \A l \in 0 .. n : l \in Nat /\ Layered(s.disp, l) /\ Surf(s, l) \in Pos
         /\ \A l \in 1 .. n : Under(s, l) \in Pos /\ Under(s, l) # NoBase
         /\ \A l \in 1 .. n : Surf(s, l) = Plus(Under(s, l), Total(s.disp[l], Mixed(s.on)))
<1>1. /\ n \in Nat /\ n \in 1 .. n /\ n \in 1 .. MaxLevels
      /\ s \in Stack(n) /\ Distinct(s.slots) /\ Len(s.slots) <= Room
      /\ \A k : Resident(s, k) => k \in 1 .. n
      /\ s.target \in Mixed(s.on)
  BY StackAssumption DEF Shaped
<1>2. \A l \in 0 .. n : l \in Nat /\ Layered(s.disp, l)
  BY <1>1, StackFields DEF Layered
<1>3. \A l \in 0 .. n : Surf(s, l) \in Pos
  <2> TAKE l \in 0 .. n
  <2>1. CASE l = 0
    BY <2>1, SurfaceZero, ConstantFacts DEF Surf
  <2>2. CASE l # 0
    <3>1. l \in Nat \ {0} /\ Layered(s.disp, l)
      BY <1>1, <1>2, <2>2
    <3> QED BY <3>1, SurfaceStep DEF Surf
  <2> QED BY <2>1, <2>2
<1>4. ASSUME NEW l \in 1 .. n
      PROVE  /\ Under(s, l) \in Pos /\ Under(s, l) # NoBase
             /\ Surf(s, l) = Plus(Under(s, l), Total(s.disp[l], Mixed(s.on)))
  <2>1. l - 1 \in 0 .. n /\ l \in Nat \ {0} /\ l \in 0 .. n
    BY <1>1
  <2>2. Surf(s, l - 1) \in Pos /\ Layered(s.disp, l)
    BY <1>2, <1>3, <2>1
  <2>3. Under(s, l) \in Pos
    BY <2>2, ConstantFacts DEF Under
  <2>4. Surf(s, l) = Plus(Under(s, l), Total(s.disp[l], Mixed(s.on)))
    BY <2>1, <2>2, SurfaceStep DEF Surf, Under
  <2> QED BY <2>3, <2>4, ConstantFacts
<1> QED BY <1>1, <1>2, <1>3, <1>4

LEMMA SurfSame ==
  ASSUME NEW n, NEW s, Shaped(s, n), NEW l \in 0 .. n, NEW t, t.on = s.on,
         \A k \in 1 .. l : t.disp[k] = s.disp[k]
  PROVE  Surf(t, l) = Surf(s, l)
<1>1. l \in Nat /\ Layered(s.disp, l)
  BY ShapedFacts
<1> QED BY <1>1, SurfaceSame DEF Surf

\* t agrees with s on level l, and has a slot or domain only where s has.
Agrees(s, t, l) ==
  /\ t.disp[l] = s.disp[l] /\ t.cache[l] = s.cache[l]
  /\ t.domains[l] # "none" => s.domains[l] # "none"
  /\ l \in t.stale <=> l \in s.stale
  /\ Resident(t, l) => Resident(s, l) /\ SlotMesh(t, l) = SlotMesh(s, l)

LEMMA Agreeing ==
  ASSUME NEW n, NEW m \in 0 .. n, NEW D, NEW s, UpTo(s, n, m, D), NEW t, Shaped(t, n),
         t.on = s.on, \A l \in 1 .. m : Agrees(s, t, l)
  PROVE  UpTo(t, n, m, D)
<1>1. Shaped(s, n) /\ n \in Nat
  BY ShapedFacts DEF UpTo
<1>2. \A l \in 0 .. m : Surf(t, l) = Surf(s, l)
  <2> TAKE l \in 0 .. m
  <2>1. l \in 0 .. n /\ \A k \in 1 .. l : k \in 1 .. m
    BY <1>1
  <2>2. \A k \in 1 .. l : t.disp[k] = s.disp[k]
    BY <2>1 DEF Agrees
  <2> QED BY <1>1, <2>1, <2>2, SurfSame
<1>3. ASSUME NEW l \in 1 .. m PROVE Orderly(t, l, D)
  <2>1. Orderly(s, l, D) /\ Agrees(s, t, l)
    BY DEF UpTo
  <2>2. l \in 0 .. m /\ l - 1 \in 0 .. m /\ (l > 1 => l - 1 \in 1 .. m)
    BY <1>1
  <2>3. Surf(t, l) = Surf(s, l) /\ Under(t, l) = Under(s, l)
    BY <1>2, <2>2 DEF Under
  <2>4. l > 1 => t.cache[l - 1] = s.cache[l - 1]
    BY <2>2 DEF Agrees
  <2>5. Held(t, l)
    BY <2>1, <2>3, <2>4 DEF Held, Orderly, Agrees
  <2>6. Pins(t, l)
    BY <2>1 DEF Pins, Orderly, Agrees
  <2>7. Showing(t, l, D)
    BY <2>1, <2>3 DEF Showing, Orderly, Agrees
  <2> QED BY <2>5, <2>6, <2>7 DEF Orderly
<1> QED BY <1>3 DEF UpTo

LEMMA MoreHidden ==
  ASSUME NEW n, NEW m, NEW s, NEW D, NEW E, UpTo(s, n, m, D), \A l \in 1 .. m : l \in D => l \in E
  PROVE  UpTo(s, n, m, E)
BY DEF UpTo, Orderly, Showing

LEMMA Lower ==
  ASSUME NEW n, NEW m \in 0 .. n, NEW s, NEW D, Good(s, n, D)
  PROVE  UpTo(s, n, m, D)
<1>1. n \in Nat
  BY ShapedFacts DEF Good, UpTo
<1>2. \A l \in 1 .. m : l \in 1 .. n
  BY <1>1
<1> QED BY <1>2 DEF Good, UpTo

-----------------------------------------------------------------------------
(* Dropping what is derived, and the debt.                                 *)

LEMMA SlotsSame ==
  ASSUME NEW s, NEW t, t.slots = s.slots
  PROVE  \A k : /\ Resident(t, k) <=> Resident(s, k)
                /\ SlotMesh(t, k) = SlotMesh(s, k)
BY DEF Resident, SlotMesh

\* A change of other fields than the slots, the channels and the target.
LEMMA ShapedLike ==
  ASSUME NEW n, NEW s, Shaped(s, n), NEW t, t \in Stack(n), t.slots = s.slots,
         t.on = s.on, t.target = s.target
  PROVE  Shaped(t, n)
BY SlotsSame DEF Shaped

LEMMA Dropping ==
  ASSUME NEW n, NEW s, Shaped(s, n), NEW a \in Int
  PROVE  LET t == DropDomains(s, a)
         IN  /\ Shaped(t, n) /\ Frame(s, t) /\ t.disp = s.disp /\ t.cache = s.cache
             /\ t.slots = s.slots /\ t.debt = s.debt /\ t.stale = s.stale
             /\ \A l \in 1 .. n : t.domains[l] = IF l > a THEN "none" ELSE s.domains[l]
<1> DEFINE d == [l \in DOMAIN s.domains |-> IF l > a THEN "none" ELSE s.domains[l]]
           f == s.fresh /\ \A l \in Levels(s) : l > a => s.domains[l] = "none"
           t == [s EXCEPT !.domains = d, !.fresh = f]
<1>1. DropDomains(s, a) = t
  BY DEF DropDomains
<1>2. /\ n \in Nat /\ s \in Stack(n) /\ DOMAIN s.domains = 1 .. n
      /\ s.domains \in [1 .. n -> Kinds]
  BY ShapedFacts, StackFields
<1>3. d \in [1 .. n -> Kinds] /\ DOMAIN d = 1 .. n
      /\ \A l \in 1 .. n : d[l] = IF l > a THEN "none" ELSE s.domains[l]
  BY <1>2 DEF Kinds
<1>4. f \in BOOLEAN
  OBVIOUS
<1> HIDE DEF d, f
<1>5. /\ t \in Stack(n) /\ t.domains = d /\ t.disp = s.disp /\ t.cache = s.cache
      /\ t.slots = s.slots /\ t.debt = s.debt /\ t.stale = s.stale
      /\ t.on = s.on /\ t.target = s.target /\ t.active = s.active
  BY <1>2, <1>3, <1>4 DEF Stack
<1> HIDE DEF t
<1>6. Shaped(t, n)
  BY <1>5, ShapedLike
<1>7. Frame(s, t)
  BY <1>2, <1>3, <1>5 DEF Frame, Keeps, BoundAt
<1> QED BY <1>1, <1>3, <1>5, <1>6, <1>7

LEMMA RoomFor == Room \in Nat \ {0} /\ Room = IF Budget > 1 THEN Budget ELSE 1
<1>1. Budget \in Nat
  BY StackAssumption
<1>2. \E x \in {1, Budget} : \A y \in {1, Budget} : x >= y
  <2>1. CASE Budget > 1
    BY <1>1, <2>1
  <2>2. CASE ~(Budget > 1)
    BY <1>1, <2>2
  <2> QED BY <2>1, <2>2
<1>3. Room \in {1, Budget} /\ \A y \in {1, Budget} : Room >= y
  BY <1>2 DEF Room, Max
<1> QED BY <1>1, <1>3

LEMMA Evicting ==
  ASSUME NEW n, NEW s, Shaped(s, n), NEW gone
  PROVE  LET t == Evicted(s, gone)
         IN  /\ Shaped(t, n) /\ Frame(s, t) /\ OnlySlots(s, t)
             /\ \A k : Resident(t, k) <=> Resident(s, k) /\ k \notin gone
             /\ \A k : Resident(t, k) => SlotMesh(t, k) = SlotMesh(s, k)
<1> DEFINE t == Evicted(s, gone)
<1>1. n \in Nat /\ s \in Stack(n) /\ Distinct(s.slots) /\ Len(s.slots) \in Nat /\ Len(s.slots) <= Room
  BY ShapedFacts DEF Distinct
<1>2. /\ t \in Stack(n) /\ OnlySlots(s, t) /\ Distinct(t.slots)
      /\ Len(t.slots) <= Len(s.slots)
      /\ \A k : Resident(t, k) <=> Resident(s, k) /\ k \notin gone
      /\ \A k : Resident(t, k) => SlotMesh(t, k) = SlotMesh(s, k)
  BY <1>1, EvictedSlots
<1> HIDE DEF t
<1>3. Shaped(t, n)
  <2>1. Len(t.slots) <= Room
    <3>1. Len(t.slots) \in Nat
      BY <1>2 DEF Distinct
    <3> QED BY <1>1, <1>2, <3>1, RoomFor
  <2> QED BY <1>2, <2>1 DEF Shaped, OnlySlots
<1>4. Frame(s, t)
  BY <1>2 DEF Frame, Keeps, BoundAt, OnlySlots
<1> QED BY <1>2, <1>3, <1>4 DEF t

LEMMA EvictingUpTo ==
  ASSUME NEW n, NEW m \in 0 .. n, NEW D, NEW s, UpTo(s, n, m, D), NEW gone
  PROVE  UpTo(Evicted(s, gone), n, m, D \ gone)
<1> DEFINE t == Evicted(s, gone)
<1>1. Shaped(s, n)
  BY DEF UpTo
<1>2. /\ Shaped(t, n) /\ OnlySlots(s, t)
      /\ \A k : Resident(t, k) <=> Resident(s, k) /\ k \notin gone
      /\ \A k : Resident(t, k) => SlotMesh(t, k) = SlotMesh(s, k)
  BY <1>1, Evicting
<1> HIDE DEF t
<1>3. \A l \in 1 .. m : Agrees(s, t, l)
  BY <1>2 DEF Agrees, OnlySlots
<1>4. UpTo(t, n, m, D)
  BY <1>2, <1>3, Agreeing DEF OnlySlots
<1>5. \A l \in 1 .. m : Orderly(t, l, D \ gone)
  BY <1>2, <1>4 DEF UpTo, Orderly, Showing
<1>6. UpTo(t, n, m, D \ gone)
  BY <1>2, <1>5 DEF UpTo
<1> QED BY <1>6 DEF t

\* What is dropped above a level, everything is in order for.
LEMMA Invalidating ==
  ASSUME NEW n, NEW s, NEW D, NEW a \in 0 .. n, UpTo(s, n, a, D)
  PROVE  LET t == InvalidateAbove(s, a)
         IN  /\ Good(t, n, D) /\ Frame(s, t) /\ t.disp = s.disp
             /\ t.debt = s.debt /\ t.stale = s.stale
             /\ \A l \in 1 .. a : t.cache[l] = s.cache[l] /\ t.domains[l] = s.domains[l]
             /\ \A l \in 1 .. n : l > a => t.domains[l] = "none"
             /\ \A k : Resident(t, k) <=> Resident(s, k) /\ k <= a
             /\ \A k : Resident(t, k) => SlotMesh(t, k) = SlotMesh(s, k)
<1> DEFINE x == DropDomains(s, a)
           c == [k \in DOMAIN x.cache |-> IF k > a THEN Dropped ELSE x.cache[k]]
           y == [x EXCEPT !.cache = c]
           gone == a + 1 .. MaxLevels
           t == Evicted(y, gone)
<1>1. InvalidateAbove(s, a) = t
  BY DEF InvalidateAbove
<1>2. Shaped(s, n) /\ a \in Int /\ n \in Nat
  BY ShapedFacts DEF UpTo
<1>3. /\ Shaped(x, n) /\ Frame(s, x) /\ x.disp = s.disp /\ x.cache = s.cache
      /\ x.slots = s.slots /\ x.debt = s.debt /\ x.stale = s.stale
      /\ \A l \in 1 .. n : x.domains[l] = IF l > a THEN "none" ELSE s.domains[l]
  BY <1>2, Dropping
<1> HIDE DEF x
<1>4. x \in Stack(n) /\ x.cache \in [1 .. n -> PosCache] /\ DOMAIN x.cache = 1 .. n
  BY <1>2, <1>3, ShapedFacts, StackFields
<1>5. Dropped \in PosCache
  BY ConstantFacts DEF Dropped, PosCache
<1>6. c \in [1 .. n -> PosCache] /\ \A k \in 1 .. n : c[k] = IF k > a THEN Dropped ELSE s.cache[k]
  BY <1>3, <1>4, <1>5
<1> HIDE DEF c
<1>7. /\ y \in Stack(n) /\ y.cache = c /\ y.disp = x.disp /\ y.slots = x.slots
      /\ y.domains = x.domains /\ y.debt = x.debt /\ y.stale = x.stale
      /\ y.on = x.on /\ y.target = x.target /\ y.active = x.active
  BY <1>4, <1>6 DEF Stack
<1> HIDE DEF y
<1>8. Shaped(y, n) /\ \A k : k \in gone <=> k \in a + 1 .. MaxLevels
  BY <1>3, <1>7, ShapedLike
<1> HIDE DEF gone
<1>9. /\ Shaped(t, n) /\ Frame(y, t) /\ OnlySlots(y, t)
      /\ \A k : Resident(t, k) <=> Resident(y, k) /\ k \notin gone
      /\ \A k : Resident(t, k) => SlotMesh(t, k) = SlotMesh(y, k)
  BY <1>8, Evicting
<1> HIDE DEF t
<1>10. Frame(s, t)
  <2>1. Frame(x, y)
    BY <1>7 DEF Frame, Keeps, BoundAt
  <2> QED BY <1>3, <1>9, <2>1, FrameTwice
<1>11. \A k : Resident(t, k) <=> Resident(s, k) /\ k <= a
  <2>1. \A k : Resident(y, k) <=> Resident(s, k)
    BY <1>3, <1>7, SlotsSame
  <2>2. \A k : Resident(s, k) => (k \notin gone <=> k <= a)
    <3>1. \A k : Resident(s, k) => k \in 1 .. n
      BY <1>2, ShapedFacts
    <3>2. n \in 1 .. MaxLevels /\ MaxLevels \in Nat
      BY <1>2, ShapedFacts, StackAssumption
    <3> QED BY <1>2, <1>8, <3>1, <3>2
  <2> QED BY <1>9, <2>1, <2>2
<1>12. \A k : Resident(t, k) => SlotMesh(t, k) = SlotMesh(s, k)
  BY <1>3, <1>7, <1>9, SlotsSame
<1>13. t.disp = s.disp /\ t.debt = s.debt /\ t.stale = s.stale /\ t.cache = c /\ t.domains = x.domains
  BY <1>3, <1>7, <1>9 DEF OnlySlots
<1>14. \A l \in 1 .. a : l \in 1 .. n /\ t.cache[l] = s.cache[l] /\ t.domains[l] = s.domains[l]
  <2>1. \A l \in 1 .. a : l \in 1 .. n /\ ~(l > a)
    BY <1>2
  <2> QED BY <1>3, <1>6, <1>13, <2>1
<1>15. UpTo(t, n, a, D)
  <2>1. \A l \in 1 .. a : Agrees(s, t, l)
    BY <1>11, <1>12, <1>13, <1>14 DEF Agrees
  <2> QED BY <1>9, <1>10, <2>1, Agreeing DEF Frame
<1>16. ASSUME NEW l \in 1 .. n PROVE Orderly(t, l, D)
  <2>1. CASE l <= a
    BY <1>2, <1>15, <2>1 DEF UpTo
  <2>2. CASE l > a
    <3>1. /\ ~t.cache[l].valid /\ t.domains[l] = "none" /\ ~Resident(t, l)
          /\ t.cache[l].base = NoBase
      BY <1>2, <1>3, <1>6, <1>11, <1>13, <2>2 DEF Dropped
    <3> QED BY <3>1 DEF Orderly, Held, Pins, Showing
  <2> QED BY <1>2, <2>1, <2>2
<1>17. Good(t, n, D)
  BY <1>9, <1>16 DEF Good, UpTo
<1>18. \A l \in 1 .. n : l > a => t.domains[l] = "none"
  BY <1>3, <1>13
<1> QED BY <1>1, <1>10, <1>11, <1>12, <1>13, <1>14, <1>17, <1>18

\* The debt is no part of it.
LEMMA Indebting ==
  ASSUME NEW n, NEW s, NEW D, Good(s, n, D), NEW b \in SUBSET (2 .. n)
  PROVE  LET t == [s EXCEPT !.debt = b]
         IN  /\ Good(t, n, D) /\ Frame(s, t) /\ t.disp = s.disp /\ t.cache = s.cache
             /\ t.domains = s.domains /\ t.stale = s.stale /\ t.slots = s.slots /\ t.debt = b
<1> DEFINE t == [s EXCEPT !.debt = b]
<1>1. Shaped(s, n) /\ s \in Stack(n) /\ n \in Nat /\ n \in 0 .. n
  BY ShapedFacts DEF Good, UpTo
<1>2. /\ t \in Stack(n) /\ t.disp = s.disp /\ t.cache = s.cache /\ t.slots = s.slots
      /\ t.domains = s.domains /\ t.stale = s.stale /\ t.debt = b
      /\ t.on = s.on /\ t.target = s.target /\ t.active = s.active
  BY <1>1 DEF Stack
<1> HIDE DEF t
<1>3. Shaped(t, n) /\ Frame(s, t)
  BY <1>1, <1>2, ShapedLike DEF Frame, Keeps, BoundAt
<1>4. \A l \in 1 .. n : Agrees(s, t, l)
  BY <1>2, SlotsSame DEF Agrees
<1>5. Good(t, n, D)
  BY <1>1, <1>2, <1>3, <1>4, Agreeing DEF Good
<1> QED BY <1>2, <1>3, <1>5 DEF t

LEMMA OwingGood ==
  ASSUME NEW n, NEW s, NEW D, Good(s, n, D), NEW l \in 1 .. n
  PROVE  LET t == Owing(s, l)
         IN  /\ Good(t, n, D) /\ Frame(s, t) /\ t.disp = s.disp /\ t.cache = s.cache
             /\ t.domains = s.domains /\ t.stale = s.stale /\ t.slots = s.slots
<1>1. n \in Nat /\ s.debt \in SUBSET (2 .. n)
  BY ShapedFacts, StackFields DEF Good, UpTo
<1>2. CASE l >= 2
  <2>1. s.debt \union {l} \in SUBSET (2 .. n)
    BY <1>1, <1>2
  <2>2. Owing(s, l) = [s EXCEPT !.debt = s.debt \union {l}]
    BY <1>2 DEF Owing
  <2> QED BY <2>1, <2>2, Indebting
<1>3. CASE ~(l >= 2)
  <2>1. Owing(s, l) = s
    BY <1>3 DEF Owing
  <2> QED BY <2>1 DEF Frame, Keeps
<1> QED BY <1>2, <1>3

LEMMA PaidGood ==
  ASSUME NEW n, NEW s, NEW D, Good(s, n, D), NEW l
  PROVE  LET t == Paid(s, l)
         IN  /\ Good(t, n, D) /\ Frame(s, t) /\ t.disp = s.disp /\ t.cache = s.cache
             /\ t.domains = s.domains /\ t.stale = s.stale /\ t.slots = s.slots
<1>1. n \in Nat /\ s.debt \in SUBSET (2 .. n)
  BY ShapedFacts, StackFields DEF Good, UpTo
<1> DEFINE b == s.debt \ {l}
<1>2. b \in SUBSET (2 .. n)
  BY <1>1
<1>3. Paid(s, l) = [s EXCEPT !.debt = b]
  BY DEF Paid
<1> HIDE DEF b
<1> QED BY <1>2, <1>3, Indebting

-----------------------------------------------------------------------------
(* A level evaluated.                                                      *)

\* Nothing but the cache differs.
OnlyCache(s, t) ==
  /\ t.disp = s.disp /\ t.on = s.on /\ t.target = s.target /\ t.slots = s.slots
  /\ t.domains = s.domains /\ t.fresh = s.fresh /\ t.debt = s.debt /\ t.stale = s.stale
  /\ t.active = s.active
SameElse(s, t, n, l) == \A k \in 1 .. n : k # l => t.cache[k] = s.cache[k]

LEMMA WithCache ==
  ASSUME NEW n \in Nat, NEW s \in Stack(n), NEW l \in 1 .. n, NEW x \in PosCache
  PROVE  LET t == [s EXCEPT !.cache[l] = x]
         IN  /\ t \in Stack(n) /\ OnlyCache(s, t) /\ t.cache[l] = x /\ SameElse(s, t, n, l)
<1> DEFINE c == [s.cache EXCEPT ![l] = x]
           t == [s EXCEPT !.cache = c]
<1>1. s.cache \in [1 .. n -> PosCache]
  BY StackFields
<1>2. c \in [1 .. n -> PosCache] /\ c[l] = x /\ \A k \in 1 .. n : k # l => c[k] = s.cache[k]
  BY <1>1
<1>3. [s EXCEPT !.cache[l] = x] = t
  OBVIOUS
<1> HIDE DEF c
<1>4. t \in Stack(n) /\ t.cache = c /\ OnlyCache(s, t)
  BY <1>2 DEF Stack, OnlyCache
<1> HIDE DEF t
<1> QED BY <1>2, <1>3, <1>4 DEF SameElse

LEMMA CacheShape ==
  ASSUME NEW n, NEW s, Shaped(s, n), NEW t, t \in Stack(n), OnlyCache(s, t)
  PROVE  /\ Shaped(t, n) /\ Frame(s, t)
         /\ \A k \in 0 .. n : Surf(t, k) = Surf(s, k)
         /\ \A k \in 1 .. n : Under(t, k) = Under(s, k)
         /\ \A k : (Resident(t, k) <=> Resident(s, k)) /\ SlotMesh(t, k) = SlotMesh(s, k)
<1>1. Shaped(t, n) /\ n \in Nat
  BY ShapedFacts, ShapedLike DEF OnlyCache
<1>2. Frame(s, t)
  BY DEF Frame, Keeps, BoundAt, OnlyCache
<1>3. \A k \in 0 .. n : Surf(t, k) = Surf(s, k)
  BY SurfSame DEF OnlyCache
<1>4. \A k \in 1 .. n : Under(t, k) = Under(s, k)
  <2>1. \A k \in 1 .. n : k - 1 \in 0 .. n
    BY <1>1
  <2> QED BY <1>3, <2>1 DEF Under
<1>5. \A k : (Resident(t, k) <=> Resident(s, k)) /\ SlotMesh(t, k) = SlotMesh(s, k)
  BY SlotsSame DEF OnlyCache
<1> QED BY <1>1, <1>2, <1>3, <1>4, <1>5

\* A level is evaluated, or its base copied out.
LEMMA CacheGood ==
  ASSUME NEW n, NEW s, NEW D, Good(s, n, D), NEW t, t \in Stack(n), OnlyCache(s, t),
         NEW l \in 1 .. n, SameElse(s, t, n, l), Held(t, l), t.cache[l].valid,
         s.cache[l].valid /\ s.cache[l].base # NoBase => t.cache[l].base # NoBase
  PROVE  Good(t, n, D) /\ Frame(s, t)
<1>1. Shaped(s, n) /\ n \in Nat
  BY ShapedFacts DEF Good, UpTo
<1>2. /\ Shaped(t, n) /\ Frame(s, t)
      /\ \A k \in 0 .. n : Surf(t, k) = Surf(s, k)
      /\ \A k \in 1 .. n : Under(t, k) = Under(s, k)
      /\ \A k : (Resident(t, k) <=> Resident(s, k)) /\ SlotMesh(t, k) = SlotMesh(s, k)
  BY <1>1, CacheShape
<1>3. ASSUME NEW k \in 1 .. n PROVE Orderly(t, k, D)
  <2>1. Orderly(s, k, D)
    BY DEF Good, UpTo
  <2>2. Surf(t, k) = Surf(s, k) /\ Under(t, k) = Under(s, k)
    BY <1>1, <1>2
  <2>3. Showing(t, k, D)
    BY <1>2, <2>1, <2>2 DEF Orderly, Showing, OnlyCache
  <2>4. CASE k = l
    <3>1. Pins(t, k)
      BY <2>1, <2>4 DEF Orderly, Pins, OnlyCache
    <3> QED BY <2>3, <2>4, <3>1 DEF Orderly
  <2>5. CASE k # l
    <3>1. t.cache[k] = s.cache[k]
      BY <2>5 DEF SameElse
    <3>2. Pins(t, k)
      BY <1>2, <2>1, <3>1 DEF Orderly, Pins, OnlyCache
    <3>3. k > 1 /\ s.cache[k - 1].valid => t.cache[k - 1].valid
      <4>1. k > 1 => k - 1 \in 1 .. n
        BY <1>1
      <4> QED BY <4>1 DEF SameElse
    <3>4. Held(t, k)
      BY <2>1, <2>2, <3>1, <3>3 DEF Orderly, Held
    <3> QED BY <2>3, <3>2, <3>4 DEF Orderly
  <2> QED BY <2>4, <2>5
<1> QED BY <1>2, <1>3 DEF Good, UpTo

\* What is below a level, when it is there.
LEMMA BelowSurf ==
  ASSUME NEW n, NEW s, Shaped(s, n), NEW l \in 1 .. n
  PROVE  /\ Below(s, l) \in Pos
         /\ (l > 1 => s.cache[l - 1].pos = Surf(s, l - 1)) => Stencil[Below(s, l)] = Under(s, l)
<1>1. n \in Nat /\ s.cache \in [1 .. n -> PosCache]
  BY ShapedFacts, StackFields
<1>2. CASE l = 1
  <2>1. Below(s, l) = Cage /\ Surf(s, 0) = Cage
    BY <1>2, SurfaceZero DEF Below, Surf
  <2>2. l - 1 = 0
    BY <1>2
  <2> QED BY <2>1, <2>2, ConstantFacts DEF Under
<1>3. CASE l # 1
  <2>1. l - 1 \in 1 .. n /\ l > 1
    BY <1>1, <1>3
  <2>2. Below(s, l) = s.cache[l - 1].pos
    BY <1>3 DEF Below
  <2>3. s.cache[l - 1].pos \in Pos
    BY <1>1, <2>1 DEF PosCache
  <2> QED BY <2>1, <2>2, <2>3 DEF Under
<1> QED BY <1>2, <1>3

LEMMA DerivedFacts ==
  ASSUME NEW n, NEW s, Shaped(s, n), NEW l \in 1 .. n, NEW b \in Pos
  PROVE  LET x == Derived(s, l, b)
         IN  /\ x \in PosCache /\ x.valid
             /\ x.pos = Plus(b, Total(s.disp[l], Mixed(s.on)))
             /\ x.base # NoBase => x.base = b
             /\ x.posIsBase /\ x.base = NoBase => x.pos = b
<1>1. n \in Nat /\ s.disp[l] \in Detail
  BY ShapedFacts, StackFields
<1>2. Total(s.disp[l], Mixed(s.on)) \in Pos
  BY <1>1, ConstantFacts, TotalType
<1>3. CASE DispNonZero(s, l)
  <2> DEFINE y == Plus(b, Total(s.disp[l], Mixed(s.on)))
  <2>1. y \in Pos
    BY <1>2, PosOps
  <2>2. Derived(s, l, b) = [valid |-> TRUE, pos |-> y, base |-> b, posIsBase |-> FALSE]
    BY <1>3 DEF Derived
  <2> HIDE DEF y
  <2>3. /\ Derived(s, l, b) \in PosCache /\ Derived(s, l, b).valid
        /\ Derived(s, l, b).pos = y /\ Derived(s, l, b).base = b
        /\ ~Derived(s, l, b).posIsBase
    BY <2>1, <2>2 DEF PosCache
  <2> QED BY <2>3 DEF y
<1>4. CASE ~DispNonZero(s, l)
  <2>1. \A c \in Mixed(s.on) : s.disp[l][c] = Flat
    BY <1>4 DEF DispNonZero
  <2>2. Plus(b, Total(s.disp[l], Mixed(s.on))) = b
    BY <1>1, <2>1, PlusFlat
  <2>3. Derived(s, l, b) = [valid |-> TRUE, pos |-> b, base |-> NoBase, posIsBase |-> TRUE]
    BY <1>4 DEF Derived
  <2>4. /\ Derived(s, l, b) \in PosCache /\ Derived(s, l, b).valid
        /\ Derived(s, l, b).pos = b /\ Derived(s, l, b).base = NoBase
    BY <2>3 DEF PosCache
  <2> QED BY <2>2, <2>4
<1> QED BY <1>3, <1>4

LEMMA Reevaluating ==
  ASSUME NEW n, NEW s, NEW D, Good(s, n, D), NEW l \in 1 .. n, ~s.cache[l].valid,
         l > 1 => s.cache[l - 1].valid
  PROVE  LET t == Reevaluated(s, l)
         IN  /\ Good(t, n, D) /\ Frame(s, t) /\ OnlyCache(s, t) /\ SameElse(s, t, n, l)
             /\ t.cache[l].valid
<1> DEFINE b == Stencil[Below(s, l)]
           x == Derived(s, l, b)
           t == [s EXCEPT !.cache[l] = x]
<1>1. Shaped(s, n) /\ n \in Nat /\ s \in Stack(n) /\ l \in 0 .. n
  BY ShapedFacts DEF Good, UpTo
<1>2. l > 1 => s.cache[l - 1].pos = Surf(s, l - 1)
  <2>1. l > 1 => l - 1 \in 1 .. n
    BY <1>1
  <2> QED BY <2>1 DEF Good, UpTo, Orderly, Held
<1>3. b \in Pos /\ b = Under(s, l)
  <2>1. Below(s, l) \in Pos /\ b = Under(s, l)
    BY <1>1, <1>2, BelowSurf
  <2> QED BY <2>1, ConstantFacts
<1>4. Reevaluated(s, l) = t
  BY DEF Reevaluated
<1> HIDE DEF b
<1>5. /\ x \in PosCache /\ x.valid
      /\ x.pos = Plus(b, Total(s.disp[l], Mixed(s.on)))
      /\ x.base # NoBase => x.base = b
      /\ x.posIsBase /\ x.base = NoBase => x.pos = b
  <2>1. b \in Pos /\ Shaped(s, n)
    BY <1>1, <1>3
  <2> HIDE DEF x
  <2> QED BY <2>1, DerivedFacts DEF x
<1> HIDE DEF x
<1>6. t \in Stack(n) /\ OnlyCache(s, t) /\ t.cache[l] = x /\ SameElse(s, t, n, l)
  BY <1>1, <1>5, WithCache
<1> HIDE DEF t
<1>7. Surf(t, l) = Surf(s, l) /\ Under(t, l) = Under(s, l)
  BY <1>1, <1>6, CacheShape
<1>8. Surf(s, l) = Plus(b, Total(s.disp[l], Mixed(s.on)))
  BY <1>1, <1>3, ShapedFacts
<1>9. l > 1 => t.cache[l - 1].valid
  <2>1. l > 1 => l - 1 \in 1 .. n /\ l - 1 # l
    BY <1>1
  <2> QED BY <1>6, <2>1 DEF SameElse
<1>10. Held(t, l)
  BY <1>3, <1>5, <1>6, <1>7, <1>8, <1>9 DEF Held
<1>11. Good(t, n, D) /\ Frame(s, t)
  BY <1>5, <1>6, <1>10, CacheGood
<1> QED BY <1>4, <1>5, <1>6, <1>11

LEMMA FirstInvalidFacts ==
  ASSUME NEW s, NEW l \in Nat
  PROVE  LET i == FirstInvalid(s, l)
         IN  /\ i \in 1 .. l + 1 /\ \A j \in 1 .. i - 1 : s.cache[j].valid
             /\ i <= l => ~s.cache[i].valid
<1> DEFINE Is(k) == (\A j \in 1 .. k - 1 : s.cache[j].valid) /\ (k <= l => ~s.cache[k].valid)
<1>1. \E k \in 1 .. l + 1 : Is(k)
  <2> SUFFICES ASSUME \A k \in 1 .. l + 1 : ~Is(k) PROVE FALSE
    OBVIOUS
  <2> DEFINE P == {k \in 0 .. l : \A j \in 1 .. k : s.cache[j].valid}
  <2>1. 0 \in P
    OBVIOUS
  <2>2. ASSUME NEW k \in 1 .. l, k - 1 \in P PROVE k \in P
    <3>1. \A j \in 1 .. k - 1 : s.cache[j].valid
      BY <2>2
    <3>2. s.cache[k].valid
      <4>1. k \in 1 .. l + 1 /\ k <= l
        OBVIOUS
      <4> QED BY <3>1, <4>1
    <3>3. \A j \in 1 .. k : j = k \/ j \in 1 .. k - 1
      OBVIOUS
    <3> QED BY <3>1, <3>2, <3>3
  <2> HIDE DEF P
  <2>3. \A k \in 0 .. l : k \in P
    BY <2>1, <2>2, NextIn
  <2>4. l \in P
    BY <2>3
  <2>5. \A j \in 1 .. (l + 1) - 1 : s.cache[j].valid
    <3>1. (l + 1) - 1 = l
      OBVIOUS
    <3> QED BY <2>4, <3>1 DEF P
  <2>6. l + 1 \in 1 .. l + 1 /\ ~(l + 1 <= l)
    OBVIOUS
  <2> QED BY <2>5, <2>6
<1>2. FirstInvalid(s, l) = CHOOSE k \in 1 .. l + 1 : Is(k)
  BY DEF FirstInvalid
<1> DEFINE i == FirstInvalid(s, l)
<1>3. i \in 1 .. l + 1 /\ Is(i)
  BY <1>1, <1>2
<1> QED BY <1>3

LEMMA ReevaluatedType ==
  ASSUME NEW n, NEW s, Shaped(s, n), NEW t \in Stack(n), NEW l \in 1 .. n
  PROVE  Reevaluated(t, l) \in Stack(n)
<1> DEFINE b == Stencil[Below(t, l)]
           x == Derived(t, l, b)
           u == [t EXCEPT !.cache[l] = x]
<1>1. n \in Nat /\ t.cache \in [1 .. n -> PosCache] /\ t.disp[l] \in Detail
  BY ShapedFacts, StackFields
<1>2. Below(t, l) \in Pos
  <2>1. CASE l = 1
    BY <2>1, ConstantFacts DEF Below
  <2>2. CASE l # 1
    <3>1. l - 1 \in 1 .. n
      BY <1>1, <2>2
    <3> QED BY <1>1, <2>2, <3>1 DEF Below, PosCache
  <2> QED BY <2>1, <2>2
<1>3. b \in Pos
  BY <1>2, ConstantFacts
<1>4. Reevaluated(t, l) = u
  BY DEF Reevaluated
<1> HIDE DEF b
<1>5. x \in PosCache
  <2>1. Total(t.disp[l], Mixed(t.on)) \in Pos
    BY <1>1, ConstantFacts, TotalType
  <2>2. Plus(b, Total(t.disp[l], Mixed(t.on))) \in Pos
    BY <1>3, <2>1, PosOps
  <2> DEFINE y == Plus(b, Total(t.disp[l], Mixed(t.on)))
  <2>3. x = IF DispNonZero(t, l)
            THEN [valid |-> TRUE, pos |-> y, base |-> b, posIsBase |-> FALSE]
            ELSE [valid |-> TRUE, pos |-> b, base |-> NoBase, posIsBase |-> TRUE]
    BY DEF Derived
  <2>4. y \in Pos
    BY <2>2
  <2> HIDE DEF x, y
  <2>5. CASE DispNonZero(t, l)
    BY <1>3, <2>3, <2>4, <2>5 DEF PosCache
  <2>6. CASE ~DispNonZero(t, l)
    BY <1>3, <2>3, <2>4, <2>6 DEF PosCache
  <2> QED BY <2>5, <2>6
<1> HIDE DEF x
<1>6. u \in Stack(n)
  BY <1>1, <1>5, WithCache
<1> QED BY <1>4, <1>6

\* After ensureChain the levels to l are there; those that were are as before.
Chained(s, t, n, l) ==
  /\ OnlyCache(s, t) /\ \A k \in 1 .. l : t.cache[k].valid
  /\ \A k \in 1 .. n : s.cache[k].valid => t.cache[k] = s.cache[k]

LEMMA ChainGood ==
  ASSUME NEW n, NEW s, NEW D, Good(s, n, D), NEW l \in 1 .. n
  PROVE  LET t == EnsureChain(s, l)
         IN  Good(t, n, D) /\ Frame(s, t) /\ Chained(s, t, n, l)
<1> DEFINE i == FirstInvalid(s, l)
           Round(t, k) == IF k < i THEN s ELSE Reevaluated(t, k)
           S == Stack(n)
           g == [k \in 1 .. l |-> [t \in S |-> Round(t, k)]]
<1>1. Shaped(s, n) /\ n \in Nat /\ s \in S /\ l \in Nat /\ \A k \in 1 .. l : k \in 1 .. n
  BY ShapedFacts DEF Good, UpTo
<1>2. /\ i \in 1 .. l + 1 /\ \A j \in 1 .. i - 1 : s.cache[j].valid
      /\ i <= l => ~s.cache[i].valid
  BY <1>1, FirstInvalidFacts
<1> HIDE DEF i
<1>3. \A k \in 1 .. l, t \in S : Round(t, k) \in S
  BY <1>1, ReevaluatedType
<1>4. /\ \A t, k : k < i => Round(t, k) = s
      /\ \A t, k : ~(k < i) => Round(t, k) = Reevaluated(t, k)
  OBVIOUS
<1>5. EnsureChain(s, l) = LET f[k \in 0 .. l] == IF k < i THEN s ELSE Reevaluated(f[k - 1], k) IN f[l]
  BY DEF EnsureChain, i
<1>6. s = IF 0 < i THEN s ELSE Reevaluated(s, 0)
  BY <1>2
<1> HIDE DEF Round
<1>7. Rounds(l, S, g)
  BY <1>3 DEF Rounds
<1>8. \A k \in 1 .. l, t \in S : g[k][t] = Round(t, k)
  OBVIOUS
<1> HIDE DEF g
<1>9. PICK f : IsRun(f, l, S, s, g)
  BY <1>1, <1>7, RunExists
<1>10. f \in [0 .. l -> S] /\ f[0] = s /\ \A k \in 1 .. l : f[k] = Round(f[k - 1], k)
  <2>1. f \in [0 .. l -> S] /\ f[0] = s /\ \A k \in 1 .. l : f[k] = g[k][f[k - 1]]
    BY <1>9 DEF IsRun
  <2>2. \A k \in 1 .. l : k - 1 \in 0 .. l
    BY <1>1
  <2> QED BY <1>8, <2>1, <2>2
<1>11. EnsureChain(s, l) = f[l]
  <2> DEFINE F(h) == [k \in 0 .. l |-> IF k < i THEN s ELSE Reevaluated(h[k - 1], k)]
             run == CHOOSE h : h = F(h)
  <2>1. EnsureChain(s, l) = run[l]
    BY <1>5
  <2>2. f = F(f)
    <3>1. f = [k \in 0 .. l |-> f[k]]
      BY <1>10
    <3>2. ASSUME NEW k \in 0 .. l
          PROVE  f[k] = IF k < i THEN s ELSE Reevaluated(f[k - 1], k)
      <4>1. CASE k = 0
        BY <1>2, <1>10, <4>1
      <4>2. CASE k # 0
        <5>1. k \in 1 .. l
          BY <1>1, <4>2
        <5> QED BY <1>4, <1>10, <5>1
      <4> QED BY <4>1, <4>2
    <3> QED BY <3>1, <3>2
  <2>3. run = F(run)
    <3>1. \E h : h = F(h)
      BY <2>2
    <3> QED BY <3>1
  <2> HIDE DEF run
  <2>4. run[0] = s /\ \A k \in 1 .. l : run[k] = Round(run[k - 1], k)
    BY <1>1, <1>2, <1>4, <2>3
  <2> DEFINE P == {k \in 0 .. l : run[k] = f[k]}
  <2>5. 0 \in P
    BY <1>1, <1>10, <2>4
  <2>6. \A k \in 1 .. l : k - 1 \in P => k \in P
    BY <1>10, <2>4
  <2> HIDE DEF P
  <2>7. \A k \in 0 .. l : k \in P
    BY <1>1, <2>5, <2>6, NextIn
  <2>8. l \in P
    BY <1>1, <2>7
  <2> QED BY <2>1, <2>8 DEF P
<1> DEFINE Q(t, k) ==
             /\ Good(t, n, D) /\ Frame(s, t) /\ OnlyCache(s, t)
             /\ \A j \in 1 .. k : t.cache[j].valid
             /\ \A j \in 1 .. n : j > k \/ s.cache[j].valid => t.cache[j] = s.cache[j]
           P == {k \in 0 .. l : Q(f[k], k)}
<1>12. Q(f[0], 0)
  BY <1>10 DEF OnlyCache, Frame, Keeps
<1>13. ASSUME NEW k \in 1 .. l, Q(f[k - 1], k - 1) PROVE Q(f[k], k)
  <2>1. k \in 1 .. n /\ k \in Nat
    BY <1>1
  <2>2. CASE k < i
    <3>1. f[k] = s
      BY <1>4, <1>10, <2>2
    <3>2. \A j \in 1 .. k : s.cache[j].valid
      BY <1>2, <2>1, <2>2
    <3> QED BY <3>1, <3>2 DEF OnlyCache, Frame, Keeps
  <2>3. CASE ~(k < i)
    <3> DEFINE t == f[k - 1]
               u == Reevaluated(t, k)
    <3>1. f[k] = u
      BY <1>4, <1>10, <2>3
    <3>2. Q(t, k - 1)
      BY <1>13
    <3> HIDE DEF t
    <3>3. ~s.cache[k].valid
      <4> DEFINE P0 == {m \in 0 .. n - i : ~s.cache[i + m].valid}
      <4>1. i \in 1 .. n /\ n - i \in Nat
        BY <1>1, <1>2, <2>1, <2>3
      <4>2. 0 \in P0
        BY <1>1, <1>2, <2>1, <2>3, <4>1
      <4>3. ASSUME NEW m \in 1 .. n - i, m - 1 \in P0 PROVE m \in P0
        <5>1. i + m \in 1 .. n /\ i + m > 1 /\ (i + m) - 1 = i + (m - 1)
          BY <1>1, <4>1
        <5>2. s.cache[i + m].valid => s.cache[(i + m) - 1].valid
          BY <5>1 DEF Good, UpTo, Orderly, Held
        <5> QED BY <4>3, <5>1, <5>2
      <4> HIDE DEF P0
      <4>4. \A m \in 0 .. n - i : m \in P0
        BY <4>1, <4>2, <4>3, NextIn
      <4>5. k - i \in 0 .. n - i /\ i + (k - i) = k
        BY <1>1, <2>1, <2>3, <4>1
      <4> QED BY <4>4, <4>5 DEF P0
    <3>4. ~t.cache[k].valid
      BY <2>1, <3>2, <3>3
    <3>5. k > 1 => t.cache[k - 1].valid
      BY <2>1, <3>2
    <3>6. /\ Good(u, n, D) /\ Frame(t, u) /\ OnlyCache(t, u) /\ SameElse(t, u, n, k)
          /\ u.cache[k].valid
      BY <2>1, <3>2, <3>4, <3>5, Reevaluating
    <3> HIDE DEF u
    <3>7. Frame(s, u) /\ OnlyCache(s, u)
      BY <3>2, <3>6, FrameTwice DEF OnlyCache
    <3>8. ASSUME NEW j \in 1 .. k PROVE u.cache[j].valid
      <4>1. j = k \/ (j \in 1 .. k - 1 /\ j \in 1 .. n /\ j # k)
        BY <1>1, <2>1
      <4>2. CASE j = k
        BY <3>6, <4>2
      <4>3. CASE j \in 1 .. k - 1 /\ j \in 1 .. n /\ j # k
        <5>1. u.cache[j] = t.cache[j] /\ t.cache[j].valid
          BY <3>2, <3>6, <4>3 DEF SameElse
        <5> QED BY <5>1
      <4> QED BY <4>1, <4>2, <4>3
    <3>9. ASSUME NEW j \in 1 .. n, j > k \/ s.cache[j].valid PROVE u.cache[j] = s.cache[j]
      BY <2>1, <3>2, <3>3, <3>6, <3>9 DEF SameElse
    <3> QED BY <3>1, <3>6, <3>7, <3>8, <3>9
  <2> QED BY <2>2, <2>3
<1> HIDE DEF Q
<1>14. 0 \in P /\ \A k \in 1 .. l : k - 1 \in P => k \in P
  <2>1. 0 \in 0 .. l
    BY <1>1
  <2> QED BY <1>12, <1>13, <2>1
<1> HIDE DEF P
<1>15. \A k \in 0 .. l : k \in P
  BY <1>1, <1>14, NextIn
<1>16. Q(f[l], l)
  <2>1. l \in P
    BY <1>1, <1>15
  <2> QED BY <2>1 DEF P
<1> QED BY <1>11, <1>16 DEF Q, Chained

-----------------------------------------------------------------------------
(* Bases and domains.                                                      *)

\* What ensureBase finds or computes is the base.
RightBase(s, l) ==
  /\ s.cache[l].base # NoBase => s.cache[l].base = Under(s, l)
  /\ s.cache[l].base = NoBase /\ s.cache[l].posIsBase => s.cache[l].pos = Under(s, l)
  /\ s.cache[l].base = NoBase /\ ~s.cache[l].posIsBase /\ l > 1
       => s.cache[l - 1].pos = Surf(s, l - 1)

LEMMA BaseEnsured ==
  ASSUME NEW n, NEW s, Shaped(s, n), NEW l \in 1 .. n, RightBase(s, l)
  PROVE  LET t == EnsureBase(s, l)
         IN  /\ t \in Stack(n) /\ OnlyCache(s, t) /\ SameElse(s, t, n, l)
             /\ t.cache[l].valid = s.cache[l].valid /\ t.cache[l].pos = s.cache[l].pos
             /\ t.cache[l].base = Under(s, l)
             /\ s.cache[l].base # NoBase => t.cache[l] = s.cache[l]
<1> DEFINE c == s.cache[l]
           b == IF c.posIsBase THEN c.pos ELSE Stencil[Below(s, l)]
           x == IF c.base # NoBase THEN c ELSE [c EXCEPT !.base = b, !.posIsBase = FALSE]
           t == [s EXCEPT !.cache[l] = x]
<1>1. n \in Nat /\ s \in Stack(n) /\ c \in PosCache
  BY ShapedFacts, StackFields
<1>2. EnsureBase(s, l) = t
  BY DEF EnsureBase
<1>3. /\ Below(s, l) \in Pos
      /\ (l > 1 => s.cache[l - 1].pos = Surf(s, l - 1)) => Stencil[Below(s, l)] = Under(s, l)
  BY BelowSurf
<1>4. b \in Pos /\ (c.base = NoBase => b = Under(s, l))
  BY <1>1, <1>3, ConstantFacts DEF RightBase, PosCache
<1>5. c.base # NoBase => c.base = Under(s, l)
  BY DEF RightBase
<1> HIDE DEF b, c
<1>6. /\ x \in PosCache /\ x.valid = c.valid /\ x.pos = c.pos /\ x.base = Under(s, l)
      /\ c.base # NoBase => x = c
  <2>1. CASE c.base # NoBase
    BY <1>1, <1>5, <2>1
  <2>2. CASE c.base = NoBase
    <3>1. x = [c EXCEPT !.base = b, !.posIsBase = FALSE]
      BY <2>2
    <3> QED BY <1>1, <1>4, <2>2, <3>1 DEF PosCache
  <2> QED BY <2>1, <2>2
<1> HIDE DEF x
<1>7. t \in Stack(n) /\ OnlyCache(s, t) /\ t.cache[l] = x /\ SameElse(s, t, n, l)
  BY <1>1, <1>6, WithCache
<1> HIDE DEF t
<1> QED BY <1>2, <1>6, <1>7 DEF c

\* A valid level of a stack in order has it.
LEMMA HeldBase ==
  ASSUME NEW n, NEW s, NEW D, Good(s, n, D), NEW l \in 1 .. n, s.cache[l].valid
  PROVE  /\ RightBase(s, l) /\ s.cache[l].pos = Surf(s, l)
         /\ l > 1 => s.cache[l - 1].valid /\ s.cache[l - 1].pos = Surf(s, l - 1)
<1>1. n \in Nat
  BY ShapedFacts DEF Good, UpTo
<1>2. Held(s, l) /\ (l > 1 => l - 1 \in 1 .. n)
  BY <1>1 DEF Good, UpTo, Orderly
<1>3. l > 1 => Held(s, l - 1)
  BY <1>2 DEF Good, UpTo, Orderly
<1> QED BY <1>2, <1>3 DEF Held, RightBase

LEMMA BaseGood ==
  ASSUME NEW n, NEW s, NEW D, Good(s, n, D), NEW l \in 1 .. n, s.cache[l].valid
  PROVE  LET t == EnsureBase(s, l)
         IN  /\ Good(t, n, D) /\ Frame(s, t) /\ OnlyCache(s, t) /\ SameElse(s, t, n, l)
             /\ t.cache[l].valid /\ t.cache[l].pos = s.cache[l].pos
             /\ t.cache[l].base # NoBase
<1> DEFINE t == EnsureBase(s, l)
<1>1. Shaped(s, n) /\ RightBase(s, l) /\ n \in Nat /\ s.cache[l].pos = Surf(s, l)
  BY HeldBase, ShapedFacts DEF Good, UpTo
<1>2. /\ t \in Stack(n) /\ OnlyCache(s, t) /\ SameElse(s, t, n, l)
      /\ t.cache[l].valid = s.cache[l].valid /\ t.cache[l].pos = s.cache[l].pos
      /\ t.cache[l].base = Under(s, l)
  BY <1>1, BaseEnsured
<1> HIDE DEF t
<1>3. /\ Surf(t, l) = Surf(s, l) /\ Under(t, l) = Under(s, l) /\ Under(s, l) # NoBase
      /\ l \in 0 .. n
  BY <1>1, <1>2, CacheShape, ShapedFacts
<1>4. l > 1 => t.cache[l - 1].valid
  <2>1. l > 1 => s.cache[l - 1].valid /\ l - 1 \in 1 .. n /\ l - 1 # l
    BY <1>1, HeldBase
  <2> QED BY <1>2, <2>1 DEF SameElse
<1>5. Held(t, l)
  BY <1>1, <1>2, <1>3, <1>4 DEF Held
<1>6. Good(t, n, D) /\ Frame(s, t)
  BY <1>2, <1>3, <1>5, CacheGood
<1> QED BY <1>2, <1>3, <1>6 DEF t

\* The domain of a level, bound or not, aliases an entry with its base.
LEMMA DomainGood ==
  ASSUME NEW n, NEW s, NEW D, Good(s, n, D), NEW l \in 1 .. n
  PROVE  LET t == GridDomain(s, l)
         IN  /\ Good(t, n, D) /\ Frame(s, t) /\ t.disp = s.disp /\ t.slots = s.slots
             /\ t.debt = s.debt /\ t.stale = s.stale
             /\ t.domains[l] # "none" /\ t.cache[l].valid /\ t.cache[l].base # NoBase
             /\ \A k \in 1 .. n : s.cache[k].valid => t.cache[k].valid /\ t.cache[k].pos = s.cache[k].pos
             /\ \A k \in 1 .. n : k # l => t.domains[k] = s.domains[k]
             /\ s.domains[l] # "none" => t = s
             /\ t.domains[l] = "bound" => s.domains[l] = "bound"
<1> DEFINE t == GridDomain(s, l)
<1>1. Shaped(s, n) /\ n \in Nat
  BY ShapedFacts DEF Good, UpTo
<1>2. CASE s.domains[l] # "none"
  <2>1. t = s
    BY <1>2 DEF GridDomain
  <2>2. s.cache[l].valid /\ s.cache[l].base # NoBase
    BY <1>2 DEF Good, UpTo, Orderly, Pins
  <2> HIDE DEF t
  <2>3. Frame(s, t)
    BY <2>1 DEF Frame, Keeps
  <2> QED BY <1>2, <2>1, <2>2, <2>3 DEF t
<1>3. CASE s.domains[l] = "none"
  <2> DEFINE u == EnsureChain(s, l)
             w == EnsureBase(u, l)
             d == [w.domains EXCEPT ![l] = "new"]
             x == [w EXCEPT !.domains = d, !.fresh = FALSE]
  <2>1. t = x
    BY <1>3 DEF GridDomain
  <2>2. Good(u, n, D) /\ Frame(s, u) /\ Chained(s, u, n, l)
    BY ChainGood
  <2> HIDE DEF t, u
  <2>3. u.cache[l].valid
    BY <1>1, <2>2 DEF Chained
  <2>4. /\ Good(w, n, D) /\ Frame(u, w) /\ OnlyCache(u, w) /\ SameElse(u, w, n, l)
        /\ w.cache[l].valid /\ w.cache[l].pos = u.cache[l].pos /\ w.cache[l].base # NoBase
    BY <2>2, <2>3, BaseGood
  <2> HIDE DEF w
  <2>5. Shaped(w, n) /\ w \in Stack(n) /\ w.domains \in [1 .. n -> Kinds]
    BY <1>1, <2>4, ShapedFacts, StackFields DEF Good, UpTo
  <2>6. d \in [1 .. n -> Kinds] /\ d[l] = "new" /\ \A k \in 1 .. n : k # l => d[k] = w.domains[k]
    BY <2>5 DEF Kinds
  <2> HIDE DEF d
  <2>7. /\ x \in Stack(n) /\ x.domains = d /\ x.disp = w.disp /\ x.cache = w.cache
        /\ x.slots = w.slots /\ x.debt = w.debt /\ x.stale = w.stale
        /\ x.on = w.on /\ x.target = w.target /\ x.active = w.active
    BY <2>5, <2>6 DEF Stack
  <2> HIDE DEF x
  <2>8. Shaped(x, n)
    BY <2>5, <2>7, ShapedLike
  <2>9. Frame(w, x)
    BY <2>5, <2>6, <2>7, <1>1 DEF Frame, Keeps, BoundAt
  <2>10. Frame(s, x)
    BY <2>2, <2>4, <2>9, FrameTwice
  <2>11. ASSUME NEW k \in 1 .. n PROVE Orderly(x, k, D)
    <3>1. Orderly(w, k, D)
      BY <2>4 DEF Good, UpTo
    <3>2. \A j \in 0 .. n : Surf(x, j) = Surf(w, j)
      BY <2>5, <2>7, SurfSame
    <3>3. k \in 0 .. n /\ k - 1 \in 0 .. n
      BY <1>1
    <3>4. Surf(x, k) = Surf(w, k) /\ Under(x, k) = Under(w, k)
      BY <3>2, <3>3 DEF Under
    <3>5. Held(x, k)
      BY <2>7, <3>1, <3>4 DEF Orderly, Held
    <3>6. \A j : (Resident(x, j) <=> Resident(w, j)) /\ SlotMesh(x, j) = SlotMesh(w, j)
      BY <2>7, SlotsSame
    <3>7. Showing(x, k, D)
      BY <2>7, <3>1, <3>4, <3>6 DEF Orderly, Showing
    <3>8. Pins(x, k)
      BY <2>4, <2>6, <2>7, <3>1, <3>6 DEF Orderly, Pins
    <3> QED BY <3>5, <3>7, <3>8 DEF Orderly
  <2>12. Good(x, n, D)
    BY <2>8, <2>11 DEF Good, UpTo
  <2>13. \A k \in 1 .. n : s.cache[k].valid => x.cache[k].valid /\ x.cache[k].pos = s.cache[k].pos
    BY <2>2, <2>4, <2>7 DEF Chained, SameElse
  <2>14. /\ x.disp = s.disp /\ x.slots = s.slots /\ x.debt = s.debt /\ x.stale = s.stale
         /\ x.domains[l] = "new" /\ \A k \in 1 .. n : k # l => x.domains[k] = s.domains[k]
    BY <2>2, <2>4, <2>6, <2>7 DEF Chained, OnlyCache
  <2> QED BY <1>3, <2>1, <2>4, <2>7, <2>10, <2>12, <2>13, <2>14 DEF t
<1> QED BY <1>2, <1>3

\* Nothing but the detail and the cache differs.
OnlyStore(s, t) ==
  /\ t.on = s.on /\ t.target = s.target /\ t.slots = s.slots /\ t.domains = s.domains
  /\ t.fresh = s.fresh /\ t.debt = s.debt /\ t.stale = s.stale /\ t.active = s.active

LEMMA WithDisp ==
  ASSUME NEW n \in Nat, NEW s \in Stack(n), NEW l \in 1 .. n, NEW e \in Detail
  PROVE  LET t == [s EXCEPT !.disp[l] = e]
         IN  /\ t \in Stack(n) /\ OnlyStore(s, t) /\ t.cache = s.cache
             /\ t.disp[l] = e /\ \A k \in 1 .. n : k # l => t.disp[k] = s.disp[k]
<1> DEFINE d == [s.disp EXCEPT ![l] = e]
           t == [s EXCEPT !.disp = d]
<1>1. s.disp \in [1 .. n -> Detail]
  BY StackFields
<1>2. d \in [1 .. n -> Detail] /\ d[l] = e /\ \A k \in 1 .. n : k # l => d[k] = s.disp[k]
  BY <1>1
<1>3. [s EXCEPT !.disp[l] = e] = t
  OBVIOUS
<1> HIDE DEF d
<1>4. t \in Stack(n) /\ t.disp = d /\ t.cache = s.cache /\ OnlyStore(s, t)
  BY <1>2 DEF Stack, OnlyStore
<1> HIDE DEF t
<1> QED BY <1>2, <1>3, <1>4

\* After storeDisp the level shows p, with its base copied out.
Stored(s, t, n, l, p, c) ==
  /\ t \in Stack(n) /\ OnlyStore(s, t) /\ SameElse(s, t, n, l)
  /\ \A k \in 1 .. n : k # l => t.disp[k] = s.disp[k]
  /\ \A x \in Channels \ {c} : t.disp[l][x] = s.disp[l][x]
  /\ t.cache[l].valid = s.cache[l].valid /\ t.cache[l].pos = s.cache[l].pos
  /\ t.cache[l].base = Under(s, l) /\ Under(t, l) = Under(s, l) /\ Surf(t, l) = p

LEMMA Storing ==
  ASSUME NEW n, NEW s, Shaped(s, n), NEW l \in 1 .. n, RightBase(s, l),
         NEW p \in Pos, NEW vs \in SUBSET Verts, NEW c \in Mixed(s.on),
         \A v \in Verts \ vs : p[v] = Surf(s, l)[v]
  PROVE  Shaped(StoreDisp(s, l, p, vs, c), n) /\ Stored(s, StoreDisp(s, l, p, vs, c), n, l, p, c)
<1> DEFINE u == EnsureBase(s, l)
           b == u.cache[l].base
           d == u.disp[l]
           e == Express(d, u.on, c, b, p, vs)
           t == [u EXCEPT !.disp[l] = e]
<1>1. n \in Nat /\ s \in Stack(n) /\ l \in 0 .. n
  BY ShapedFacts
<1>2. /\ u \in Stack(n) /\ OnlyCache(s, u) /\ SameElse(s, u, n, l)
      /\ u.cache[l].valid = s.cache[l].valid /\ u.cache[l].pos = s.cache[l].pos
      /\ u.cache[l].base = Under(s, l)
  BY BaseEnsured
<1>3. StoreDisp(s, l, p, vs, c) = t
  BY DEF StoreDisp, Expressed
<1> HIDE DEF u
<1>4. /\ Shaped(u, n) /\ \A k \in 0 .. n : Surf(u, k) = Surf(s, k)
      /\ \A k \in 1 .. n : Under(u, k) = Under(s, k)
  BY <1>2, CacheShape
<1>5. /\ d \in Detail /\ d = s.disp[l] /\ u.on = s.on /\ c \in Mixed(u.on)
      /\ b \in Pos /\ b = Under(s, l) /\ b = Under(u, l)
  BY <1>1, <1>2, <1>4, StackFields, ShapedFacts DEF OnlyCache
<1>6. Surf(s, l) = Plus(b, Total(d, Mixed(u.on)))
  BY <1>1, <1>5, ShapedFacts
<1> HIDE DEF d, b
<1>7. \A v \in Verts \ vs : p[v] = Plus(b, Total(d, Mixed(u.on)))[v]
  BY <1>6
<1>8. /\ e \in Detail /\ \A x \in Channels \ {c} : e[x] = d[x]
      /\ Plus(b, Total(e, Mixed(u.on))) = p
  <2> DEFINE on == u.on
  <2>1. c \in Mixed(on) /\ \A v \in Verts \ vs : p[v] = Plus(b, Total(d, Mixed(on)))[v]
    BY <1>5, <1>7
  <2> HIDE DEF on
  <2>2. LET f == Express(d, on, c, b, p, vs)
        IN  /\ f \in Detail /\ \A x \in Channels \ {c} : f[x] = d[x]
            /\ Plus(b, Total(f, Mixed(on))) = p
    BY <1>5, <2>1, Expression
  <2> QED BY <2>2 DEF on
<1> HIDE DEF e
<1>9. /\ t \in Stack(n) /\ OnlyStore(u, t) /\ t.cache = u.cache
      /\ t.disp[l] = e /\ \A k \in 1 .. n : k # l => t.disp[k] = u.disp[k]
  BY <1>1, <1>2, <1>8, WithDisp
<1> HIDE DEF t
<1>10. Shaped(t, n)
  BY <1>4, <1>9, ShapedLike DEF OnlyStore
<1>11. Under(t, l) = Under(u, l)
  <2>1. l - 1 \in 0 .. n /\ \A k \in 1 .. l - 1 : k \in 1 .. n /\ k # l
    BY <1>1
  <2>2. \A k \in 1 .. l - 1 : t.disp[k] = u.disp[k]
    BY <1>9, <2>1
  <2>3. Surf(t, l - 1) = Surf(u, l - 1)
    <3> DEFINE m == l - 1
    <3>1. m \in 0 .. n /\ \A k \in 1 .. m : t.disp[k] = u.disp[k]
      BY <2>1, <2>2
    <3> HIDE DEF m
    <3>2. Surf(t, m) = Surf(u, m)
      BY <1>4, <1>9, <3>1, SurfSame DEF OnlyStore
    <3> QED BY <3>2 DEF m
  <2> QED BY <2>3 DEF Under
<1>12. Surf(t, l) = p
  <2>1. Surf(t, l) = Plus(Under(t, l), Total(t.disp[l], Mixed(t.on)))
    BY <1>10, ShapedFacts
  <2>2. t.on = u.on /\ t.disp[l] = e /\ Under(t, l) = b
    BY <1>5, <1>9, <1>11 DEF OnlyStore
  <2> QED BY <1>8, <2>1, <2>2
<1>13. OnlyStore(s, t) /\ SameElse(s, t, n, l)
  BY <1>2, <1>9 DEF OnlyStore, OnlyCache, SameElse
<1>14. /\ \A k \in 1 .. n : k # l => t.disp[k] = s.disp[k]
       /\ \A x \in Channels \ {c} : t.disp[l][x] = s.disp[l][x]
  BY <1>2, <1>5, <1>8, <1>9 DEF OnlyCache
<1>15. /\ t.cache[l].valid = s.cache[l].valid /\ t.cache[l].pos = s.cache[l].pos
       /\ t.cache[l].base = Under(s, l) /\ Under(t, l) = Under(s, l)
  BY <1>2, <1>5, <1>9, <1>11
<1>16. Stored(s, t, n, l, p, c)
  BY <1>9, <1>12, <1>13, <1>14, <1>15 DEF Stored
<1> QED BY <1>3, <1>10, <1>16

-----------------------------------------------------------------------------
(* Detail stored, and edits folded.                                        *)

LEMMA DroppingUpTo ==
  ASSUME NEW n, NEW m \in 0 .. n, NEW D, NEW s, UpTo(s, n, m, D), NEW a \in Int
  PROVE  UpTo(DropDomains(s, a), n, m, D)
<1> DEFINE t == DropDomains(s, a)
<1>1. Shaped(s, n) /\ n \in Nat
  BY ShapedFacts DEF UpTo
<1>2. /\ Shaped(t, n) /\ Frame(s, t) /\ t.disp = s.disp /\ t.cache = s.cache
      /\ t.slots = s.slots /\ t.stale = s.stale
      /\ \A l \in 1 .. n : t.domains[l] = IF l > a THEN "none" ELSE s.domains[l]
  BY <1>1, Dropping
<1> HIDE DEF t
<1>3. \A l \in 1 .. m : l \in 1 .. n
  BY <1>1
<1>4. \A l \in 1 .. m : Agrees(s, t, l)
  BY <1>2, <1>3, SlotsSame DEF Agrees
<1>5. UpTo(t, n, m, D)
  BY <1>2, <1>4, Agreeing DEF Frame
<1> QED BY <1>5 DEF t

LEMMA StoredBelow ==
  ASSUME NEW n, NEW s, NEW t, NEW l \in 1 .. n, NEW p, NEW c, NEW D, UpTo(s, n, l - 1, D),
         Shaped(t, n), Stored(s, t, n, l, p, c)
  PROVE  UpTo(t, n, l - 1, D)
<1> DEFINE m == l - 1
<1>1. n \in Nat /\ m \in 0 .. n /\ \A k \in 1 .. m : k \in 1 .. n /\ k # l
  BY ShapedFacts DEF UpTo
<1>2. UpTo(s, n, m, D) /\ t.on = s.on
  BY DEF Stored, OnlyStore
<1>3. \A k \in 1 .. m : Agrees(s, t, k)
  BY <1>1, SlotsSame DEF Agrees, Stored, OnlyStore, SameElse
<1> HIDE DEF m
<1>4. UpTo(t, n, m, D)
  BY <1>1, <1>2, <1>3, Agreeing
<1> QED BY <1>4 DEF m

\* The next level up is in order too.
LEMMA Raise ==
  ASSUME NEW n, NEW s, NEW l \in 1 .. n, NEW D, UpTo(s, n, l - 1, D),
         l > 1 => s.cache[l - 1].valid,
         s.cache[l].valid, s.cache[l].pos = Surf(s, l), s.cache[l].base = Under(s, l),
         Resident(s, l) /\ l \notin Unmirrored =>
           l \notin s.stale /\ (l \notin D => SlotMesh(s, l) = Surf(s, l))
  PROVE  UpTo(s, n, l, D)
<1>1. Shaped(s, n) /\ n \in Nat /\ Under(s, l) # NoBase
  BY ShapedFacts DEF UpTo
<1>2. Orderly(s, l, D)
  BY <1>1 DEF Orderly, Held, Pins, Showing
<1>3. \A k \in 1 .. l : k = l \/ k \in 1 .. l - 1
  BY <1>1
<1> QED BY <1>1, <1>2, <1>3 DEF UpTo

LEMMA Placing ==
  ASSUME NEW n, NEW s, Shaped(s, n), NEW l \in 1 .. n, NEW p \in Pos
  PROVE  LET t == [s EXCEPT !.cache[l].pos = p]
         IN  /\ t \in Stack(n) /\ Shaped(t, n) /\ OnlyCache(s, t) /\ SameElse(s, t, n, l)
             /\ t.cache[l].pos = p /\ t.cache[l].valid = s.cache[l].valid
             /\ t.cache[l].base = s.cache[l].base /\ t.cache[l].posIsBase = s.cache[l].posIsBase
<1> DEFINE c == s.cache[l]
           x == [c EXCEPT !.pos = p]
           t == [s EXCEPT !.cache[l] = x]
<1>1. n \in Nat /\ s \in Stack(n) /\ c \in PosCache
  BY ShapedFacts, StackFields
<1>2. [s EXCEPT !.cache[l].pos = p] = t
  OBVIOUS
<1> HIDE DEF c
<1>3. x \in PosCache /\ x.pos = p /\ x.valid = c.valid /\ x.base = c.base /\ x.posIsBase = c.posIsBase
  BY <1>1 DEF PosCache
<1> HIDE DEF x
<1>4. t \in Stack(n) /\ OnlyCache(s, t) /\ t.cache[l] = x /\ SameElse(s, t, n, l)
  BY <1>1, <1>3, WithCache
<1> HIDE DEF t
<1>5. Shaped(t, n)
  BY <1>4, CacheShape
<1> QED BY <1>2, <1>3, <1>4, <1>5 DEF c

LEMMA PlacingBelow ==
  ASSUME NEW n, NEW s, NEW t, NEW l \in 1 .. n, NEW D, UpTo(s, n, l - 1, D),
         t \in Stack(n), OnlyCache(s, t), SameElse(s, t, n, l)
  PROVE  UpTo(t, n, l - 1, D)
<1> DEFINE m == l - 1
<1>1. Shaped(s, n) /\ n \in Nat /\ m \in 0 .. n /\ \A k \in 1 .. m : k \in 1 .. n /\ k # l
  BY ShapedFacts DEF UpTo
<1>2. Shaped(t, n) /\ t.on = s.on /\ UpTo(s, n, m, D)
  BY <1>1, CacheShape DEF OnlyCache
<1>3. \A k \in 1 .. m : Agrees(s, t, k)
  BY <1>1, SlotsSame DEF Agrees, OnlyCache, SameElse
<1> HIDE DEF m
<1>4. UpTo(t, n, m, D)
  BY <1>1, <1>2, <1>3, Agreeing
<1> QED BY <1>4 DEF m

LEMMA NoDifference ==
  ASSUME NEW n, NEW s, Shaped(s, n), NEW l \in 1 .. n, NEW p \in Pos, Differing(s, l, p) = {}
  PROVE  p = s.cache[l].pos
<1>1. s.cache[l].pos \in Pos
  BY ShapedFacts, StackFields DEF PosCache
<1>2. \A v \in Verts : p[v] = s.cache[l].pos[v]
  BY DEF Differing
<1> QED BY <1>1, <1>2 DEF Pos

LEMMA Hidden ==
  ASSUME NEW n, NEW s, NEW D, Good(s, n, D), NEW l,
         Resident(s, l) /\ l \notin Unmirrored => SlotMesh(s, l) = Surf(s, l)
  PROVE  Good(s, n, D \ {l})
BY DEF Good, UpTo, Orderly, Showing

LEMMA FoldedGood ==
  ASSUME NEW n, NEW s, NEW D, Good(s, n, D), NEW l \in 1 .. n, s.cache[l].valid,
         Resident(s, l), l \notin s.stale
  PROVE  LET t == Folded(s, l, SlotMesh(s, l), Differing(s, l, SlotMesh(s, l)))
         IN  Good(t, n, D \ {l}) /\ Frame(s, t)
<1> DEFINE p == SlotMesh(s, l)
           vs == Differing(s, l, p)
           E == D \ {l}
           c == s.target
           u == StoreDisp(s, l, p, vs, c)
           a == l - 1
           w == DropDomains(u, a)
           x == [w EXCEPT !.cache[l].pos = p]
           y == InvalidateAbove(x, l)
           t == Folded(s, l, p, vs)
<1>1. /\ Shaped(s, n) /\ n \in Nat /\ l \in 0 .. n /\ a \in 0 .. n /\ a \in Int
      /\ Distinct(s.slots) /\ c \in Mixed(s.on) /\ a = l - 1
  BY ShapedFacts DEF Good, UpTo
<1> HIDE DEF a
<1>2. p \in Pos
  BY <1>1, SlotOf
<1>3. RightBase(s, l) /\ s.cache[l].pos = Surf(s, l) /\ (l > 1 => s.cache[a].valid)
  BY <1>1, HeldBase
<1> HIDE DEF p
<1>4. CASE vs = {}
  <2>1. p = Surf(s, l)
    BY <1>1, <1>2, <1>3, <1>4, NoDifference
  <2>2. t = s
    BY <1>4 DEF Folded
  <2>3. Good(s, n, E)
    BY <2>1, Hidden DEF p
  <2> QED BY <2>2, <2>3 DEF Frame, Keeps, p
<1>5. CASE vs # {}
  <2>1. vs \in SUBSET Verts /\ \A v \in Verts \ vs : p[v] = Surf(s, l)[v]
    BY <1>3 DEF Differing
  <2>2. t = Owing(y, l)
    BY <1>5 DEF Folded, a
  <2> HIDE DEF vs, c, t
  <2>3. Shaped(u, n) /\ Stored(s, u, n, l, p, c)
    BY <1>1, <1>2, <1>3, <2>1, Storing
  <2> HIDE DEF u
  <2>4. UpTo(s, n, a, E)
    <3>1. UpTo(s, n, a, D)
      BY <1>1, Lower
    <3>2. \A k \in 1 .. a : k \in D => k \in E
      BY <1>1
    <3> QED BY <3>1, <3>2, MoreHidden
  <2>5. UpTo(u, n, a, E)
    BY <1>1, <2>3, <2>4, StoredBelow
  <2>6. /\ Shaped(w, n) /\ Frame(u, w) /\ w.disp = u.disp /\ w.cache = u.cache
        /\ w.slots = u.slots /\ w.debt = u.debt /\ w.stale = u.stale
        /\ \A k \in 1 .. n : w.domains[k] = IF k > a THEN "none" ELSE u.domains[k]
    <3>1. Shaped(u, n) /\ a \in Int
      BY <1>1, <2>3
    <3> QED BY <3>1, Dropping
  <2>7. UpTo(w, n, a, E)
    BY <1>1, <2>5, DroppingUpTo
  <2> HIDE DEF w
  <2>8. /\ x \in Stack(n) /\ Shaped(x, n) /\ OnlyCache(w, x) /\ SameElse(w, x, n, l)
        /\ x.cache[l].pos = p /\ x.cache[l].valid = w.cache[l].valid
        /\ x.cache[l].base = w.cache[l].base
    BY <1>2, <2>6, Placing
  <2> HIDE DEF x
  <2>9. UpTo(x, n, a, E)
    BY <1>1, <2>7, <2>8, PlacingBelow
  <2>10. Surf(x, l) = p /\ Under(x, l) = Under(s, l) /\ x.cache[l].base = Under(s, l)
    <3>1. Surf(x, l) = Surf(w, l) /\ Under(x, l) = Under(w, l)
      BY <1>1, <2>6, <2>8, CacheShape
    <3>2. \A k \in 0 .. n : Surf(w, k) = Surf(u, k)
      BY <2>3, <2>6, SurfSame DEF Frame
    <3>3. Surf(w, l) = Surf(u, l) /\ Under(w, l) = Under(u, l)
      BY <1>1, <3>2 DEF Under
    <3> QED BY <2>3, <2>6, <2>8, <3>1, <3>3 DEF Stored
  <2>11. l > 1 => x.cache[l - 1].valid
    <3>1. l > 1 => a \in 1 .. n /\ a # l
      BY <1>1
    <3> QED BY <1>1, <1>3, <2>3, <2>6, <2>8, <3>1 DEF SameElse, Stored
  <2>12. (Resident(x, l) <=> Resident(s, l)) /\ SlotMesh(x, l) = p /\ l \notin x.stale
    <3>1. x.slots = s.slots /\ x.stale = s.stale
      BY <2>3, <2>6, <2>8 DEF Stored, OnlyStore, OnlyCache
    <3> QED BY <3>1, SlotsSame DEF p
  <2>13. x.cache[l].valid
    BY <2>3, <2>6, <2>8 DEF Stored
  <2>14. UpTo(x, n, l, E)
    <3>1. UpTo(x, n, l - 1, E)
      BY <1>1, <2>9
    <3> HIDE DEF E
    <3> QED BY <2>8, <2>10, <2>11, <2>12, <2>13, <3>1, Raise
  <2>15. /\ Good(y, n, E) /\ Frame(x, y) /\ y.disp = x.disp
         /\ \A k : Resident(y, k) <=> Resident(x, k) /\ k <= l
    BY <1>1, <2>14, Invalidating
  <2> HIDE DEF y
  <2>16. Good(t, n, E) /\ Frame(y, t) /\ t.disp = y.disp
    BY <2>2, <2>15, OwingGood
  <2>17. Frame(x, t)
    BY <2>15, <2>16, FrameTwice
  <2>18. Frame(s, t)
    <3>1. t.on = s.on /\ t.target = s.target /\ t.active = s.active
      BY <2>3, <2>6, <2>8, <2>17 DEF Frame, Stored, OnlyStore, OnlyCache
    <3>2. ASSUME NEW k, BoundAt(t, k)
          PROVE  BoundAt(s, k) /\ \A j \in 1 .. k : t.disp[j] = s.disp[j]
      <4>1. BoundAt(x, k) /\ k \in DOMAIN x.domains /\ k \in 1 .. n
        <5>1. DOMAIN x.domains = 1 .. n
          BY <1>1, <2>8, StackFields
        <5> QED BY <3>2, <5>1, <2>17 DEF Frame, Keeps, BoundAt
      <4>2. k <= a /\ BoundAt(u, k)
        <5>1. DOMAIN u.domains = 1 .. n
          BY <1>1, <2>3, StackFields DEF Stored
        <5> QED BY <1>1, <2>6, <2>8, <4>1, <5>1 DEF BoundAt, OnlyCache
      <4>3. BoundAt(s, k)
        BY <2>3, <4>2 DEF BoundAt, Stored, OnlyStore
      <4>4. \A j \in 1 .. k : j \in 1 .. n /\ j # l
        BY <1>1, <4>1, <4>2
      <4>5. \A j \in 1 .. k : t.disp[j] = s.disp[j]
        BY <2>3, <2>6, <2>8, <2>15, <2>16, <4>4 DEF Stored, OnlyCache
      <4> QED BY <4>3, <4>5
    <3> QED BY <3>1, <3>2 DEF Frame, Keeps
  <2> QED BY <2>16, <2>18 DEF t, vs, p, E
<1> QED BY <1>4, <1>5 DEF p

-----------------------------------------------------------------------------
(* Slots shown, written back and loaded.                                   *)

\* Only slots, and what is known of them, differ.
LEMMA SlotsGood ==
  ASSUME NEW n, NEW s, NEW D, Good(s, n, D), NEW t, Shaped(t, n), NEW E,
         t.disp = s.disp, t.on = s.on, t.cache = s.cache, t.domains = s.domains,
         t.target = s.target, t.active = s.active,
         \A k \in 1 .. n : Resident(t, k) /\ k \notin t.stale => s.cache[k].valid,
         \A k \in 1 .. n : Resident(t, k) /\ k \notin Unmirrored =>
            k \notin t.stale /\ (k \notin E => SlotMesh(t, k) = Surf(s, k))
  PROVE  Good(t, n, E) /\ Frame(s, t)
<1>1. Shaped(s, n) /\ n \in Nat /\ \A k \in 1 .. n : k \in 0 .. n /\ k - 1 \in 0 .. n
  BY ShapedFacts DEF Good, UpTo
<1>2. \A k \in 0 .. n : Surf(t, k) = Surf(s, k)
  BY <1>1, SurfSame
<1>3. ASSUME NEW k \in 1 .. n PROVE Orderly(t, k, E)
  <2>1. Surf(t, k) = Surf(s, k) /\ Under(t, k) = Under(s, k)
    BY <1>1, <1>2 DEF Under
  <2>2. Orderly(s, k, D)
    BY DEF Good, UpTo
  <2>3. Held(t, k)
    BY <2>1, <2>2 DEF Orderly, Held
  <2>4. Pins(t, k)
    BY <2>2 DEF Orderly, Pins
  <2>5. Showing(t, k, E)
    BY <2>1 DEF Showing
  <2> QED BY <2>3, <2>4, <2>5 DEF Orderly
<1>4. Frame(s, t)
  BY DEF Frame, Keeps, BoundAt
<1> QED BY <1>3, <1>4 DEF Good, UpTo

LEMMA GoodFacts ==
  ASSUME NEW n, NEW s, NEW D, Good(s, n, D), NEW k \in 1 .. n
  PROVE  /\ Resident(s, k) /\ k \notin s.stale => s.cache[k].valid
         /\ Resident(s, k) /\ k \notin Unmirrored =>
              k \notin s.stale /\ (k \notin D => SlotMesh(s, k) = Surf(s, k))
         /\ s.cache[k].valid => s.cache[k].pos = Surf(s, k)
BY DEF Good, UpTo, Orderly, Pins, Showing, Held

LEMMA ShowsGood ==
  ASSUME NEW n, NEW s, NEW D, Good(s, n, D), NEW l \in 1 .. n, s.cache[l].valid
  PROVE  LET t == ShowsDomain(s, l)
         IN  /\ Good(t, n, D \ {l}) /\ Frame(s, t)
             /\ t.disp = s.disp /\ t.cache = s.cache /\ t.domains = s.domains /\ t.debt = s.debt
<1> DEFINE p == s.cache[l].pos
           u == SetMesh(s, l, p)
           y == s.stale \ {l}
           t == [u EXCEPT !.stale = y]
           E == D \ {l}
<1>1. /\ Shaped(s, n) /\ n \in Nat /\ s \in Stack(n) /\ Distinct(s.slots)
      /\ p \in Pos /\ p = Surf(s, l) /\ s.stale \in SUBSET Nat
  <2>1. Shaped(s, n) /\ n \in Nat /\ s \in Stack(n) /\ Distinct(s.slots)
    BY ShapedFacts DEF Good, UpTo
  <2>2. p = Surf(s, l)
    BY GoodFacts
  <2>3. s.stale \in SUBSET Nat /\ s.cache[l] \in PosCache
    BY <2>1, StackFields
  <2> QED BY <2>1, <2>2, <2>3 DEF PosCache
<1> HIDE DEF p
<1>2. /\ u \in Stack(n) /\ OnlySlots(s, u) /\ Distinct(u.slots) /\ Len(u.slots) = Len(s.slots)
      /\ \A k : Resident(u, k) <=> Resident(s, k)
      /\ \A k : Resident(s, k) => SlotMesh(u, k) = IF k = l THEN p ELSE SlotMesh(s, k)
  BY <1>1, SetMeshSlots
<1>3. ShowsDomain(s, l) = t
  <2>1. u.stale = s.stale
    BY <1>2 DEF OnlySlots
  <2> QED BY <2>1 DEF ShowsDomain, p
<1> HIDE DEF u
<1>4. y \in SUBSET Nat /\ \A k : k \in y <=> k \in s.stale /\ k # l
  BY <1>1
<1> HIDE DEF y
<1>5. /\ t \in Stack(n) /\ t.stale = y /\ t.slots = u.slots /\ t.disp = u.disp /\ t.on = u.on
      /\ t.cache = u.cache /\ t.domains = u.domains /\ t.target = u.target
      /\ t.active = u.active /\ t.debt = u.debt
  BY <1>2, <1>4 DEF Stack
<1> HIDE DEF t
<1>6. \A k : /\ Resident(t, k) <=> Resident(s, k)
             /\ Resident(s, k) => SlotMesh(t, k) = IF k = l THEN p ELSE SlotMesh(s, k)
  BY <1>2, <1>5, SlotsSame
<1>7. Shaped(t, n)
  BY <1>1, <1>2, <1>5, <1>6 DEF Shaped, OnlySlots
<1>8. \A k \in 1 .. n : Resident(t, k) /\ k \notin t.stale => s.cache[k].valid
  BY <1>4, <1>5, <1>6, GoodFacts
<1>9. ASSUME NEW k \in 1 .. n, Resident(t, k), k \notin Unmirrored
      PROVE  k \notin t.stale /\ (k \notin E => SlotMesh(t, k) = Surf(s, k))
  <2>1. k \notin s.stale /\ (k \notin D => SlotMesh(s, k) = Surf(s, k)) /\ Resident(s, k)
    BY <1>6, <1>9, GoodFacts
  <2>2. k \notin t.stale
    BY <1>4, <1>5, <2>1
  <2>3. CASE k = l
    BY <1>1, <1>6, <2>1, <2>2, <2>3
  <2>4. CASE k # l
    BY <1>6, <2>1, <2>2, <2>4
  <2> QED BY <2>3, <2>4
<1> HIDE DEF E
<1>10. Good(t, n, E) /\ Frame(s, t)
  BY <1>2, <1>5, <1>7, <1>8, <1>9, SlotsGood DEF OnlySlots
<1> QED BY <1>2, <1>3, <1>5, <1>10 DEF E, OnlySlots

LEMMA SyncGood ==
  ASSUME NEW n, NEW s, NEW D, Good(s, n, D), NEW l \in 1 .. n, Resident(s, l)
  PROVE  LET t == SyncSlot(s, l)
         IN  Good(t, n, D \ {l}) /\ Frame(s, t)
<1> DEFINE u == GridDomain(s, l)
           t == ShowsDomain(u, l)
<1>1. SyncSlot(s, l) = t
  BY DEF SyncSlot
<1>2. Good(u, n, D) /\ Frame(s, u) /\ u.cache[l].valid
  BY DomainGood
<1> HIDE DEF u
<1>3. Good(t, n, D \ {l}) /\ Frame(u, t)
  BY <1>2, ShowsGood
<1> QED BY <1>1, <1>2, <1>3, FrameTwice

\* writeback() leaves no edit in the slot of the level.
LEMMA WritebackGood ==
  ASSUME NEW n, NEW s, NEW D, Good(s, n, D), NEW l \in 1 .. n
  PROVE  LET t == Writeback(s, l)
         IN  Good(t, n, D \ {l}) /\ Frame(s, t)
<1> DEFINE t == Writeback(s, l)
<1>1. CASE ~Resident(s, l)
  <2>1. t = s
    BY <1>1 DEF Writeback
  <2>2. Good(s, n, D \ {l})
    BY <1>1, Hidden
  <2> QED BY <2>1, <2>2 DEF Frame, Keeps
<1>2. CASE Resident(s, l) /\ l \in s.stale
  <2>1. t = SyncSlot(s, l)
    BY <1>2 DEF Writeback
  <2> QED BY <1>2, <2>1, SyncGood
<1>3. CASE Resident(s, l) /\ l \notin s.stale
  <2>1. s.cache[l].valid
    BY <1>3, GoodFacts
  <2>2. t = Folded(s, l, SlotMesh(s, l), Differing(s, l, SlotMesh(s, l)))
    BY <1>3 DEF Writeback
  <2> QED BY <1>3, <2>1, <2>2, FoldedGood
<1> QED BY <1>1, <1>2, <1>3

LEMMA MinIn ==
  ASSUME NEW S \in SUBSET Nat, S # {}
  PROVE  Min(S) \in S
<1>1. PICK x \in S : \A y \in S : ~(<<y, x>> \in OpToRel(<, Nat))
  BY NatLessThanWellFounded, WFMin
<1>2. \A y \in S : ~(y < x) /\ y \in Nat /\ x \in Nat
  BY <1>1 DEF OpToRel
<1>3. \A y \in S : x <= y
  BY <1>2
<1> QED BY <1>1, <1>3 DEF Min

\* One slot more than there is room for is one that can go.
LEMMA EvictingOver ==
  ASSUME NEW n \in Nat, NEW s \in Stack(n), Distinct(s.slots), Len(s.slots) <= Room + 1
  PROVE  LET t == EvictOverBudget(s)
         IN  /\ t \in Stack(n) /\ OnlySlots(s, t) /\ Distinct(t.slots) /\ Len(t.slots) <= Room
             /\ \A k : Resident(t, k) => Resident(s, k) /\ SlotMesh(t, k) = SlotMesh(s, k)
             /\ Resident(s, s.active) => Resident(t, s.active)
<1> DEFINE q == s.slots
           idle == {i \in DOMAIN q : q[i].level # s.active}
           x == q[Min(idle)].level
           t == Evicted(s, {x})
<1>1. EvictOverBudget(s) = IF Len(q) <= Room \/ idle = {} THEN s ELSE t
  BY DEF EvictOverBudget, Room
<1>2. /\ Len(q) \in Nat /\ DOMAIN q = 1 .. Len(q) /\ Room \in Nat \ {0}
      /\ \A i, j \in DOMAIN q : q[i].level = q[j].level => i = j
  BY RoomFor DEF Distinct
<1>3. CASE Len(q) <= Room
  <2>1. EvictOverBudget(s) = s
    BY <1>1, <1>3
  <2> HIDE DEF q
  <2> QED BY <1>3, <2>1 DEF OnlySlots, q
<1>4. CASE ~(Len(q) <= Room)
  <2>1. idle # {}
    <3> SUFFICES ASSUME idle = {} PROVE FALSE
      OBVIOUS
    <3>1. 1 \in DOMAIN q /\ 2 \in DOMAIN q
      BY <1>2, <1>4
    <3>2. q[1].level = s.active /\ q[2].level = s.active
      BY <3>1
    <3> QED BY <1>2, <3>1, <3>2
  <2>2. Min(idle) \in idle
    <3>1. idle \in SUBSET Nat
      BY <1>2
    <3> HIDE DEF idle
    <3> QED BY <2>1, <3>1, MinIn
  <2>3. EvictOverBudget(s) = t
    BY <1>1, <1>4, <2>1
  <2>4. Resident(s, x) /\ x # s.active
    BY <2>2 DEF Resident
  <2> HIDE DEF x, q, idle
  <2> DEFINE gone == {x}
             u == Evicted(s, gone)
  <2>5. gone = {x} /\ u = t
    OBVIOUS
  <2> HIDE DEF gone
  <2>6. /\ u \in Stack(n) /\ OnlySlots(s, u) /\ Distinct(u.slots)
        /\ \A k : Resident(u, k) <=> Resident(s, k) /\ k \notin gone
        /\ \A k : Resident(u, k) => SlotMesh(u, k) = SlotMesh(s, k)
        /\ (\E k \in gone : Resident(s, k)) => Len(u.slots) < Len(s.slots)
    BY EvictedSlots
  <2> HIDE DEF u, t
  <2>7. Len(u.slots) \in Nat /\ Len(u.slots) < Len(q)
    BY <2>4, <2>5, <2>6 DEF Distinct, q
  <2>8. Len(u.slots) <= Room
    BY <1>2, <2>7 DEF q
  <2> QED BY <2>3, <2>4, <2>5, <2>6, <2>8
<1> QED BY <1>3, <1>4

LEMMA AddedGood ==
  ASSUME NEW n, NEW s, NEW D, Good(s, n, D), NEW u \in Stack(n), NEW t \in Stack(n),
         NEW l \in 1 .. n, NEW p, p = Surf(s, l), s.cache[l].valid,
         u.disp = s.disp, u.on = s.on, u.cache = s.cache, u.domains = s.domains,
         u.target = s.target, u.active = s.active, u.stale = s.stale \ {l},
         OnlySlots(u, t), Distinct(t.slots), Len(t.slots) <= Room,
         \A k : Resident(u, k) <=> Resident(s, k) \/ k = l,
         \A k : Resident(s, k) => SlotMesh(u, k) = SlotMesh(s, k),
         SlotMesh(u, l) = p, ~Resident(s, l),
         \A k : Resident(t, k) => Resident(u, k) /\ SlotMesh(t, k) = SlotMesh(u, k)
  PROVE  Good(t, n, D) /\ Frame(s, t)
<1>1. Shaped(s, n) /\ n \in Nat /\ n \in 1 .. MaxLevels /\ (\A k : Resident(s, k) => k \in 1 .. n)
      /\ s.target \in Mixed(s.on)
  BY ShapedFacts DEF Good, UpTo
<1>2. Shaped(t, n)
  BY <1>1 DEF Shaped, OnlySlots
<1>3. \A k \in 1 .. n : Resident(t, k) /\ k \notin t.stale => s.cache[k].valid
  BY GoodFacts DEF OnlySlots
<1>4. ASSUME NEW k \in 1 .. n, Resident(t, k), k \notin Unmirrored
      PROVE  k \notin t.stale /\ (k \notin D => SlotMesh(t, k) = Surf(s, k))
  <2>1. CASE k = l
    BY <1>4, <2>1 DEF OnlySlots
  <2>2. CASE k # l
    <3>1. Resident(s, k) /\ SlotMesh(t, k) = SlotMesh(s, k)
      BY <1>4, <2>2
    <3>2. k \notin s.stale /\ (k \notin D => SlotMesh(s, k) = Surf(s, k))
      BY <1>4, <3>1, GoodFacts
    <3> QED BY <3>1, <3>2 DEF OnlySlots
  <2> QED BY <2>1, <2>2
<1> QED BY <1>2, <1>3, <1>4, SlotsGood DEF OnlySlots

LEMMA LoadedGood ==
  ASSUME NEW n, NEW s, NEW D, Good(s, n, D), NEW l \in 1 .. n, s.cache[l].valid, ~Resident(s, l)
  PROVE  LET t == Loaded(s, l)
         IN  Good(t, n, D) /\ Frame(s, t)
<1> DEFINE p == s.cache[l].pos
           u == Added(s, l, p)
           y == s.stale \ {l}
           w == [u EXCEPT !.stale = y]
           t == EvictOverBudget(w)
<1>1. /\ Shaped(s, n) /\ n \in Nat /\ l \in Nat /\ s \in Stack(n) /\ Distinct(s.slots)
      /\ Len(s.slots) <= Room
  BY ShapedFacts DEF Good, UpTo
<1>2. p = Surf(s, l) /\ p \in Pos /\ s.stale \in SUBSET Nat
  <2>1. s.stale \in SUBSET Nat /\ s.cache[l] \in PosCache
    BY <1>1, StackFields
  <2> QED BY <2>1, GoodFacts DEF PosCache
<1>3. /\ u \in Stack(n) /\ OnlySlots(s, u) /\ Distinct(u.slots) /\ Len(u.slots) = Len(s.slots) + 1
      /\ \A k : Resident(u, k) <=> Resident(s, k) \/ k = l
      /\ \A k : Resident(s, k) => SlotMesh(u, k) = SlotMesh(s, k)
      /\ SlotMesh(u, l) = p
  <2> HIDE DEF p
  <2> QED BY <1>1, <1>2, AppendSlots
<1>4. Loaded(s, l) = t
  <2>1. w = [s EXCEPT !.slots = Append(@, [level |-> l, mesh |-> s.cache[l].pos]), !.stale = @ \ {l}]
    BY DEF Added
  <2> QED BY <2>1 DEF Loaded
<1> HIDE DEF p, u
<1>5. y \in SUBSET Nat
  BY <1>2
<1>6. /\ w \in Stack(n) /\ w.stale = y /\ w.slots = u.slots /\ w.disp = u.disp /\ w.on = u.on
      /\ w.cache = u.cache /\ w.domains = u.domains /\ w.target = u.target /\ w.active = u.active
  <2> HIDE DEF y
  <2> QED BY <1>3, <1>5 DEF Stack
<1> HIDE DEF w
<1>7. \A k : (Resident(w, k) <=> Resident(u, k)) /\ SlotMesh(w, k) = SlotMesh(u, k)
  BY <1>6, SlotsSame
<1>8. Len(w.slots) <= Room + 1 /\ Distinct(w.slots)
  BY <1>1, <1>3, <1>6, RoomFor DEF Distinct
<1>9. /\ t \in Stack(n) /\ OnlySlots(w, t) /\ Distinct(t.slots) /\ Len(t.slots) <= Room
      /\ \A k : Resident(t, k) => Resident(w, k) /\ SlotMesh(t, k) = SlotMesh(w, k)
  BY <1>1, <1>6, <1>8, EvictingOver
<1> HIDE DEF t
<1>10. /\ w.disp = s.disp /\ w.on = s.on /\ w.cache = s.cache /\ w.domains = s.domains
       /\ w.target = s.target /\ w.active = s.active /\ w.stale = s.stale \ {l}
  BY <1>3, <1>6 DEF OnlySlots
<1>11. /\ \A k : Resident(w, k) <=> Resident(s, k) \/ k = l
       /\ \A k : Resident(s, k) => SlotMesh(w, k) = SlotMesh(s, k)
       /\ SlotMesh(w, l) = p
  BY <1>3, <1>7
<1>12. Good(t, n, D) /\ Frame(s, t)
  BY <1>2, <1>6, <1>9, <1>10, <1>11, AddedGood
<1> QED BY <1>4, <1>12

LEMMA MaterializeGood ==
  ASSUME NEW n, NEW s, NEW D, Good(s, n, D), NEW l \in 1 .. n
  PROVE  LET t == Materialize(s, l)
         IN  Good(t, n, D) /\ Frame(s, t)
<1> DEFINE t == Materialize(s, l)
<1>1. Shaped(s, n) /\ n \in Nat /\ s \in Stack(n) /\ Distinct(s.slots) /\ l \in Nat
      /\ Len(s.slots) <= Room
  BY ShapedFacts DEF Good, UpTo
<1>2. CASE Resident(s, l)
  <2> DEFINE p == SlotMesh(s, l)
             gone == {l}
             u == Evicted(s, gone)
             w == Added(u, l, p)
  <2>1. t = w
    BY <1>2 DEF Materialize, Added
  <2>2. p \in Pos
    BY <1>1, <1>2, SlotOf
  <2>3. l \in gone /\ \A k : k \in gone => k = l
    OBVIOUS
  <2> HIDE DEF p, t, gone
  <2>4. /\ u \in Stack(n) /\ OnlySlots(s, u) /\ Distinct(u.slots)
        /\ \A k : Resident(u, k) <=> Resident(s, k) /\ k \notin gone
        /\ \A k : Resident(u, k) => SlotMesh(u, k) = SlotMesh(s, k)
        /\ (\E k \in gone : Resident(s, k)) => Len(u.slots) < Len(s.slots)
    BY <1>1, EvictedSlots
  <2> HIDE DEF u
  <2>5. ~Resident(u, l) /\ Len(u.slots) < Len(s.slots)
    BY <1>2, <2>3, <2>4
  <2>6. /\ w \in Stack(n) /\ OnlySlots(u, w) /\ Distinct(w.slots)
        /\ Len(w.slots) = Len(u.slots) + 1
        /\ \A k : Resident(w, k) <=> Resident(u, k) \/ k = l
        /\ \A k : Resident(u, k) => SlotMesh(w, k) = SlotMesh(u, k)
        /\ SlotMesh(w, l) = p
    BY <1>1, <2>2, <2>4, <2>5, AppendSlots
  <2> HIDE DEF w
  <2>7. \A k : /\ Resident(w, k) <=> Resident(s, k)
               /\ Resident(w, k) => SlotMesh(w, k) = SlotMesh(s, k)
    <3> TAKE k
    <3>1. CASE k = l
      BY <1>2, <2>6, <3>1 DEF p
    <3>2. CASE k # l
      BY <2>3, <2>4, <2>6, <3>2
    <3> QED BY <3>1, <3>2
  <2>8. Len(w.slots) <= Room
    BY <1>1, <2>4, <2>5, <2>6, RoomFor DEF Distinct
  <2>9. OnlySlots(s, w)
    BY <2>4, <2>6 DEF OnlySlots
  <2>10. Shaped(w, n)
    BY <1>1, <2>6, <2>7, <2>8, <2>9 DEF Shaped, OnlySlots
  <2>11. \A k \in 1 .. n : Resident(w, k) /\ k \notin w.stale => s.cache[k].valid
    BY <2>7, <2>9, GoodFacts DEF OnlySlots
  <2>12. \A k \in 1 .. n : Resident(w, k) /\ k \notin Unmirrored =>
            k \notin w.stale /\ (k \notin D => SlotMesh(w, k) = Surf(s, k))
    BY <2>7, <2>9, GoodFacts DEF OnlySlots
  <2>13. Good(w, n, D) /\ Frame(s, w)
    BY <2>9, <2>10, <2>11, <2>12, SlotsGood DEF OnlySlots
  <2> QED BY <2>1, <2>13 DEF t
<1>3. CASE ~Resident(s, l)
  <2> DEFINE u == EnsureChain(s, l)
             w == Pinned(u, l)
             x == Loaded(w, l)
  <2>1. t = x
    BY <1>3 DEF Materialize
  <2>2. Good(u, n, D) /\ Frame(s, u) /\ Chained(s, u, n, l)
    BY ChainGood
  <2> HIDE DEF t, u
  <2>3. u.cache[l].valid /\ ~Resident(u, l)
    BY <1>1, <1>3, <2>2, SlotsSame DEF Chained, OnlyCache
  <2>4. Good(w, n, D) /\ Frame(u, w) /\ w.cache[l].valid /\ ~Resident(w, l)
    <3>1. CASE u.cache[l].posIsBase
      <4> DEFINE y == EnsureBase(u, l)
      <4>1. w = y
        BY <3>1 DEF Pinned
      <4>2. Good(y, n, D) /\ Frame(u, y) /\ OnlyCache(u, y) /\ y.cache[l].valid
        BY <2>2, <2>3, BaseGood
      <4> HIDE DEF y, w
      <4>3. ~Resident(y, l)
        BY <2>3, <4>2, SlotsSame DEF OnlyCache
      <4> QED BY <4>1, <4>2, <4>3
    <3>2. CASE ~u.cache[l].posIsBase
      <4>1. w = u
        BY <3>2 DEF Pinned
      <4> QED BY <2>2, <2>3, <4>1 DEF Frame, Keeps
    <3> QED BY <3>1, <3>2
  <2> HIDE DEF w
  <2>5. Good(x, n, D) /\ Frame(w, x)
    BY <2>4, LoadedGood
  <2> HIDE DEF x
  <2>6. Frame(s, x)
    BY <2>2, <2>4, <2>5, FrameTwice
  <2> QED BY <2>1, <2>5, <2>6 DEF t
<1> QED BY <1>2, <1>3

-----------------------------------------------------------------------------
(* Levels refitted.                                                        *)

\* Domains are still bound to level a at most, and there nothing changed.
LowFrame(s, t, n, a) ==
  /\ a \in Int
  /\ \A k \in 1 .. n : t.domains[k] = "bound" => k <= a /\ s.domains[k] = "bound"
  /\ \A k \in 1 .. n : k <= a => t.disp[k] = s.disp[k]

LEMMA FrameUpTo ==
  ASSUME NEW n, NEW s, Shaped(s, n), NEW t, Shaped(t, n), NEW a,
         t.on = s.on, t.target = s.target, t.active = s.active, LowFrame(s, t, n, a)
  PROVE  Frame(s, t)
<1>1. n \in Nat /\ DOMAIN s.domains = 1 .. n /\ DOMAIN t.domains = 1 .. n
  BY ShapedFacts, StackFields
<1>2. ASSUME NEW k, BoundAt(t, k)
      PROVE  BoundAt(s, k) /\ \A j \in 1 .. k : t.disp[j] = s.disp[j]
  <2>1. k \in 1 .. n /\ k <= a /\ s.domains[k] = "bound"
    BY <1>1, <1>2 DEF BoundAt, LowFrame
  <2>2. \A j \in 1 .. k : j \in 1 .. n /\ j <= a
    BY <1>1, <2>1 DEF LowFrame
  <2> QED BY <1>1, <2>1, <2>2 DEF BoundAt, LowFrame
<1> QED BY <1>2 DEF Frame, Keeps

LEMMA Rebasing ==
  ASSUME NEW n, NEW s, Shaped(s, n), NEW l \in 1 .. n
  PROVE  LET t == [s EXCEPT !.cache[l].base = NoBase, !.cache[l].posIsBase = FALSE]
         IN  /\ t \in Stack(n) /\ Shaped(t, n) /\ OnlyCache(s, t) /\ SameElse(s, t, n, l)
             /\ t.cache[l].pos = s.cache[l].pos /\ t.cache[l].valid = s.cache[l].valid
             /\ t.cache[l].base = NoBase /\ ~t.cache[l].posIsBase
<1> DEFINE c == s.cache[l]
           x == [c EXCEPT !.base = NoBase, !.posIsBase = FALSE]
           t == [s EXCEPT !.cache[l] = x]
<1>1. n \in Nat /\ s \in Stack(n) /\ c \in PosCache /\ s.cache \in [1 .. n -> PosCache]
  BY ShapedFacts, StackFields
<1>2. [s EXCEPT !.cache[l].base = NoBase, !.cache[l].posIsBase = FALSE] = t
  <2> DEFINE y == [c EXCEPT !.base = NoBase]
             d == [s.cache EXCEPT ![l] = y]
             u == [s EXCEPT !.cache = d]
  <2>1. s \in Stack(n)
    BY <1>1
  <2>2. d[l] = y /\ [d EXCEPT ![l] = x] = [s.cache EXCEPT ![l] = x]
    BY <1>1
  <2>3. x = [y EXCEPT !.posIsBase = FALSE]
    BY <1>1 DEF PosCache
  <2>4. [s EXCEPT !.cache[l].base = NoBase] = u
    OBVIOUS
  <2>5. u.cache = d /\ \A z : [u EXCEPT !.cache = z] = [s EXCEPT !.cache = z]
    BY <1>1 DEF Stack
  <2>6. [s EXCEPT !.cache[l].base = NoBase, !.cache[l].posIsBase = FALSE]
          = [u EXCEPT !.cache[l].posIsBase = FALSE]
    OBVIOUS
  <2> HIDE DEF u
  <2>7. [u EXCEPT !.cache[l].posIsBase = FALSE] = [u EXCEPT !.cache = [d EXCEPT ![l] = [y EXCEPT !.posIsBase = FALSE]]]
    BY <2>2, <2>5
  <2> QED BY <2>2, <2>3, <2>5, <2>6, <2>7
<1> HIDE DEF c
<1>3. x \in PosCache /\ x.pos = c.pos /\ x.valid = c.valid /\ x.base = NoBase /\ ~x.posIsBase
  BY <1>1 DEF PosCache
<1> HIDE DEF x
<1>4. t \in Stack(n) /\ OnlyCache(s, t) /\ t.cache[l] = x /\ SameElse(s, t, n, l)
  BY <1>1, <1>3, WithCache
<1> HIDE DEF t
<1>5. Shaped(t, n)
  BY <1>4, CacheShape
<1> QED BY <1>2, <1>3, <1>4, <1>5 DEF c

\* What neither the store, the cache nor the domains are.
Rest(s, t) ==
  /\ t.on = s.on /\ t.target = s.target /\ t.slots = s.slots /\ t.debt = s.debt
  /\ t.stale = s.stale /\ t.active = s.active
\* Only domains to a level are left, and below it nothing changed.
Untouched(s, t, n, a) ==
  /\ \A k \in 1 .. n : t.domains[k] = IF k > a THEN "none" ELSE s.domains[k]
  /\ \A k \in 1 .. n : k <= a => t.disp[k] = s.disp[k]

\* A level takes new positions: the levels to it are in order again, but for
\* its slot.
Moved(s, l, p, vs, c) ==
  [StoreDisp(DropDomains(s, l - 1), l, p, vs, c) EXCEPT !.cache[l].pos = p]

Elsewhere(s, l, p, vs) == vs \in SUBSET Verts /\ \A v \in Verts \ vs : p[v] = Surf(s, l)[v]

Lifted(s, t, n, D, l, p) ==
  /\ Shaped(t, n) /\ UpTo(t, n, l, D \union {l}) /\ Rest(s, t) /\ Untouched(s, t, n, l - 1)
  /\ Surf(t, l) = p /\ t.cache[l].pos = p /\ t.cache[l].valid /\ t.cache[l].base = Under(t, l)
  /\ \A k \in 1 .. n : k # l => t.cache[k] = s.cache[k] /\ t.disp[k] = s.disp[k]

LEMMA MovedUpTo ==
  ASSUME NEW n, NEW s, NEW D, Good(s, n, D), NEW l \in 1 .. n, s.cache[l].valid,
         NEW p \in Pos, NEW vs, NEW c \in Mixed(s.on), Elsewhere(s, l, p, vs)
  PROVE  Lifted(s, Moved(s, l, p, vs, c), n, D, l, p)
<1> DEFINE a == l - 1
           E == D \union {l}
           w == DropDomains(s, a)
           u == StoreDisp(w, l, p, vs, c)
           t == [u EXCEPT !.cache[l].pos = p]
<1>1. /\ Shaped(s, n) /\ n \in Nat /\ l \in 0 .. n /\ a \in 0 .. n /\ a \in Int /\ a = l - 1
  BY ShapedFacts DEF Good, UpTo
<1>2. Moved(s, l, p, vs, c) = t
  BY DEF Moved
<1> HIDE DEF a
<1>3. /\ Shaped(w, n) /\ Frame(s, w) /\ w.disp = s.disp /\ w.cache = s.cache
      /\ w.slots = s.slots /\ w.debt = s.debt /\ w.stale = s.stale
      /\ \A k \in 1 .. n : w.domains[k] = IF k > a THEN "none" ELSE s.domains[k]
  BY <1>1, Dropping
<1>4. UpTo(w, n, a, E)
  <2>1. UpTo(s, n, a, D)
    BY <1>1, Lower
  <2>2. UpTo(w, n, a, D)
    BY <1>1, <2>1, DroppingUpTo
  <2>3. \A k \in 1 .. a : k \in D => k \in E
    OBVIOUS
  <2> HIDE DEF w, E
  <2> QED BY <2>2, <2>3, MoreHidden
<1> HIDE DEF w
<1>5. /\ \A k \in 0 .. n : Surf(w, k) = Surf(s, k)
      /\ c \in Mixed(w.on)
  BY <1>1, <1>3, SurfSame DEF Frame
<1>6. Surf(w, l) = Surf(s, l) /\ Under(w, l) = Under(s, l) /\ Surf(w, a) = Surf(s, a)
  BY <1>1, <1>5 DEF Under
<1>7. RightBase(w, l) /\ (l > 1 => w.cache[a].valid)
  <2>1. /\ RightBase(s, l)
        /\ l > 1 => s.cache[a].valid /\ s.cache[a].pos = Surf(s, a)
    BY <1>1, HeldBase
  <2> QED BY <1>1, <1>3, <1>6, <2>1 DEF RightBase
<1>8. Shaped(u, n) /\ Stored(w, u, n, l, p, c)
  <2>1. vs \in SUBSET Verts /\ \A v \in Verts \ vs : p[v] = Surf(w, l)[v]
    BY <1>6 DEF Elsewhere
  <2> QED BY <1>3, <1>5, <1>7, <2>1, Storing
<1> HIDE DEF u
<1>9. UpTo(u, n, a, E)
  BY <1>1, <1>4, <1>8, StoredBelow
<1>10. /\ t \in Stack(n) /\ Shaped(t, n) /\ OnlyCache(u, t) /\ SameElse(u, t, n, l)
       /\ t.cache[l].pos = p /\ t.cache[l].valid = u.cache[l].valid
       /\ t.cache[l].base = u.cache[l].base
  BY <1>8, Placing
<1> HIDE DEF t
<1>11. UpTo(t, n, a, E)
  BY <1>1, <1>9, <1>10, PlacingBelow
<1>12. Surf(t, l) = p /\ t.cache[l].base = Under(t, l)
  <2>1. Surf(t, l) = Surf(u, l) /\ Under(t, l) = Under(u, l)
    BY <1>1, <1>8, <1>10, CacheShape
  <2> QED BY <1>8, <1>10, <2>1 DEF Stored
<1>13. t.cache[l].valid
  BY <1>3, <1>8, <1>10 DEF Stored
<1>14. \A k \in 1 .. n : k # l => t.cache[k] = s.cache[k] /\ t.disp[k] = s.disp[k]
  BY <1>3, <1>8, <1>10 DEF Stored, SameElse, OnlyCache
<1>15. Rest(s, t)
  BY <1>3, <1>8, <1>10 DEF Stored, OnlyStore, OnlyCache, Frame, Rest
<1>16. Untouched(s, t, n, a)
  <2>1. \A k \in 1 .. n : k <= a => k # l
    BY <1>1
  <2> QED BY <1>3, <1>8, <1>10, <1>14, <2>1 DEF Untouched, Stored, OnlyStore, OnlyCache
<1>17. l > 1 => t.cache[l - 1].valid
  <2>1. l > 1 => a \in 1 .. n /\ a # l
    BY <1>1
  <2> QED BY <1>1, <1>3, <1>7, <1>14, <2>1
<1>18. Resident(t, l) /\ l \notin Unmirrored =>
         l \notin t.stale /\ (l \notin E => SlotMesh(t, l) = Surf(t, l))
  <2>1. Resident(t, l) <=> Resident(s, l)
    BY <1>15, SlotsSame DEF Rest
  <2> QED BY <1>15, <2>1, GoodFacts DEF Rest
<1>19. UpTo(t, n, l, E)
  <2>1. UpTo(t, n, l - 1, E)
    BY <1>1, <1>11
  <2> HIDE DEF E
  <2> QED BY <1>10, <1>12, <1>13, <1>17, <1>18, <2>1, Raise
<1> QED BY <1>1, <1>2, <1>10, <1>12, <1>13, <1>14, <1>15, <1>16, <1>19 DEF Lifted

LEMMA LoweredUpTo ==
  ASSUME NEW n, NEW s, NEW D, Good(s, n, D), NEW l \in 2 .. n, s.cache[l].valid, NEW p \in Pos
  PROVE  LET t == Lowered(s, l, p)
         IN  /\ Shaped(t, n) /\ UpTo(t, n, l - 1, D \union {l - 1}) /\ Rest(s, t)
             /\ Untouched(s, t, n, l - 2)
             /\ Surf(t, l - 1) = p /\ t.cache[l - 1].pos = p /\ t.cache[l - 1].valid
             /\ t.cache[l].pos = s.cache[l].pos /\ t.cache[l].valid
             /\ t.cache[l].base = NoBase /\ ~t.cache[l].posIsBase /\ t.disp[l] = s.disp[l]
<1> DEFINE m == l - 1
           vs == Differing(s, m, p)
           E == D \union {m}
           c == Base
           u == Moved(s, m, p, vs, c)
           t == [u EXCEPT !.cache[l].base = NoBase, !.cache[l].posIsBase = FALSE]
<1>1. /\ Shaped(s, n) /\ n \in Nat /\ l \in 1 .. n /\ l > 1 /\ m \in 1 .. n /\ m = l - 1 /\ m # l
      /\ m \in 0 .. n /\ l \in 0 .. n
  BY ShapedFacts DEF Good, UpTo
<1>2. s.cache[m].valid /\ s.cache[m].pos = Surf(s, m)
  BY <1>1, HeldBase
<1>3. Lowered(s, l, p) = t
  <2>1. l - 2 = m - 1
    BY <1>1
  <2> QED BY <2>1 DEF Lowered, Moved
<1>4. c \in Mixed(s.on) /\ Elsewhere(s, m, p, vs)
  BY <1>2, ConstantFacts DEF Differing, Elsewhere
<1> HIDE DEF m, vs, c
<1>5. /\ Shaped(u, n) /\ UpTo(u, n, m, E) /\ Rest(s, u)
      /\ Untouched(s, u, n, m - 1)
      /\ Surf(u, m) = p /\ u.cache[m].pos = p /\ u.cache[m].valid
      /\ \A k \in 1 .. n : k # m => u.cache[k] = s.cache[k] /\ u.disp[k] = s.disp[k]
  <2>1. m \in 1 .. n /\ s.cache[m].valid /\ c \in Mixed(s.on) /\ Elsewhere(s, m, p, vs)
    BY <1>1, <1>2, <1>4
  <2>2. Lifted(s, u, n, D, m, p)
    BY <2>1, MovedUpTo
  <2> HIDE DEF u
  <2> QED BY <2>2 DEF Lifted
<1> HIDE DEF u, E
<1>6. /\ t \in Stack(n) /\ Shaped(t, n) /\ OnlyCache(u, t) /\ SameElse(u, t, n, l)
      /\ t.cache[l].pos = u.cache[l].pos /\ t.cache[l].valid = u.cache[l].valid
      /\ t.cache[l].base = NoBase /\ ~t.cache[l].posIsBase
  BY <1>1, <1>5, Rebasing
<1> HIDE DEF t
<1>7. UpTo(t, n, m, E)
  BY <1>1, <1>5, <1>6, PlacingBelow
<1>8. Surf(t, m) = p
  BY <1>1, <1>5, <1>6, CacheShape
<1>9. t.cache[m] = u.cache[m] /\ t.disp[l] = s.disp[l]
  BY <1>1, <1>5, <1>6 DEF SameElse, OnlyCache
<1>10. u.cache[l] = s.cache[l]
  BY <1>1, <1>5
<1>11. Rest(s, t)
  BY <1>5, <1>6 DEF OnlyCache, Rest
<1>12. Untouched(s, t, n, m - 1) /\ m - 1 = l - 2
  BY <1>1, <1>5, <1>6 DEF Untouched, OnlyCache
<1>13. Untouched(s, t, n, l - 2)
  BY <1>12
<1>14. t.cache[l].pos = s.cache[l].pos /\ t.cache[l].valid
  BY <1>6, <1>10
<1> QED BY <1>3, <1>5, <1>6, <1>7, <1>8, <1>9, <1>11, <1>13, <1>14 DEF m, E

LEMMA EvictingOne ==
  ASSUME NEW n, NEW D, NEW s, NEW m, Good(s, n, D \union {m})
  PROVE  Good(Evicted(s, {m}), n, D) /\ Frame(s, Evicted(s, {m}))
<1> DEFINE gone == {m}
           E == D \union {m}
           F == E \ gone
           t == Evicted(s, gone)
<1>1. Shaped(s, n) /\ n \in 0 .. n /\ UpTo(s, n, n, E)
  <2>1. UpTo(s, n, n, E)
    BY DEF Good
  <2> HIDE DEF E
  <2>2. Shaped(s, n)
    BY <2>1 DEF UpTo
  <2>3. n \in Nat
    BY <2>2, ShapedFacts
  <2> QED BY <2>1, <2>2, <2>3
<1>2. \A l \in 1 .. n : l \in F => l \in D
  OBVIOUS
<1> HIDE DEF gone, E
<1>3. Frame(s, t)
  BY <1>1, Evicting
<1>4. UpTo(t, n, n, F)
  BY <1>1, EvictingUpTo
<1> HIDE DEF t, F
<1>5. UpTo(t, n, n, D)
  BY <1>2, <1>4, MoreHidden
<1> QED BY <1>3, <1>5 DEF Good, t, gone

\* The fine level keeps its positions on top of the new coarse one.
LEMMA RestoredUpTo ==
  ASSUME NEW n, NEW s, NEW D, Good(s, n, D), NEW l \in 2 .. n, s.cache[l].valid, l \notin D,
         NEW p \in Pos
  PROVE  LET t == Restored(Lowered(s, l, p), l, s.cache[l].pos)
         IN  /\ UpTo(t, n, l, D \union {l - 1}) /\ Rest(s, t) /\ Untouched(s, t, n, l - 2)
<1> DEFINE m == l - 1
           E == D \union {m}
           fine == s.cache[l].pos
           c == Base
           vs == Verts
           x == Lowered(s, l, p)
           y == StoreDisp(x, l, fine, vs, c)
           z == [y EXCEPT !.cache[l].pos = fine]
<1>1. /\ Shaped(s, n) /\ n \in Nat /\ l \in 1 .. n /\ l \in 0 .. n /\ m \in 1 .. n /\ m = l - 1
      /\ m \in 0 .. n /\ m # l /\ l > 1 /\ s.cache[l] \in PosCache
  <2>1. Shaped(s, n) /\ n \in Nat /\ s \in Stack(n)
    BY ShapedFacts DEF Good, UpTo
  <2>2. s.cache \in [1 .. n -> PosCache]
    BY <2>1, StackFields
  <2> QED BY <2>1, <2>2
<1>2. fine = Surf(s, l) /\ fine \in Pos
  BY <1>1, GoodFacts DEF PosCache
<1> HIDE DEF fine
<1>3. Restored(x, l, fine) = z
  BY DEF Restored
<1>4. /\ Shaped(x, n) /\ UpTo(x, n, m, E) /\ Rest(s, x)
      /\ Untouched(s, x, n, l - 2)
      /\ Surf(x, m) = p /\ x.cache[m].pos = p /\ x.cache[m].valid
      /\ x.cache[l].pos = fine /\ x.cache[l].valid
      /\ x.cache[l].base = NoBase /\ ~x.cache[l].posIsBase /\ x.disp[l] = s.disp[l]
  BY LoweredUpTo DEF fine
<1> HIDE DEF x
<1>5. RightBase(x, l)
  BY <1>1, <1>4 DEF RightBase
<1>6. c \in Mixed(x.on) /\ vs \in SUBSET Verts /\ \A v \in Verts \ vs : fine[v] = Surf(x, l)[v]
  BY ConstantFacts
<1> HIDE DEF c, vs, E
<1>7. Shaped(y, n) /\ Stored(x, y, n, l, fine, c)
  BY <1>1, <1>2, <1>4, <1>5, <1>6, Storing
<1> HIDE DEF y
<1>8. UpTo(y, n, m, E)
  BY <1>1, <1>4, <1>7, StoredBelow
<1>9. /\ z \in Stack(n) /\ Shaped(z, n) /\ OnlyCache(y, z) /\ SameElse(y, z, n, l)
      /\ z.cache[l].pos = fine /\ z.cache[l].valid = y.cache[l].valid
      /\ z.cache[l].base = y.cache[l].base
  BY <1>1, <1>2, <1>7, Placing
<1> HIDE DEF z
<1>10. UpTo(z, n, m, E)
  BY <1>1, <1>8, <1>9, PlacingBelow
<1>11. Surf(z, l) = fine /\ z.cache[l].base = Under(z, l)
  <2>1. Surf(z, l) = Surf(y, l) /\ Under(z, l) = Under(y, l)
    BY <1>1, <1>7, <1>9, CacheShape
  <2> QED BY <1>7, <1>9, <2>1 DEF Stored
<1>12. z.cache[l].valid /\ z.cache[l - 1].valid
  BY <1>1, <1>4, <1>7, <1>9 DEF Stored, SameElse
<1>13. Rest(s, z)
  BY <1>4, <1>7, <1>9 DEF Rest, Stored, OnlyStore, OnlyCache
<1>14. Untouched(s, z, n, l - 2)
  <2>1. \A k \in 1 .. n : k <= l - 2 => k # l
    BY <1>1
  <2> QED BY <1>4, <1>7, <1>9, <2>1 DEF Untouched, Stored, OnlyStore, OnlyCache
<1>15. Resident(z, l) /\ l \notin Unmirrored => l \notin z.stale /\ SlotMesh(z, l) = Surf(z, l)
  <2>1. (Resident(z, l) <=> Resident(s, l)) /\ SlotMesh(z, l) = SlotMesh(s, l)
    BY <1>13, SlotsSame DEF Rest
  <2>2. Resident(s, l) /\ l \notin Unmirrored => l \notin s.stale /\ SlotMesh(s, l) = Surf(s, l)
    BY <1>1, GoodFacts
  <2> QED BY <1>2, <1>11, <1>13, <2>1, <2>2 DEF Rest
<1>16. UpTo(z, n, l, E)
  <2>1. UpTo(z, n, l - 1, E)
    BY <1>1, <1>10
  <2>2. z.cache[l].pos = Surf(z, l)
    BY <1>9, <1>11
  <2>3. Resident(z, l) /\ l \notin Unmirrored =>
           l \notin z.stale /\ (l \notin E => SlotMesh(z, l) = Surf(z, l))
    BY <1>15
  <2> QED BY <1>1, <1>11, <1>12, <2>1, <2>2, <2>3, Raise
<1> QED BY <1>3, <1>13, <1>14, <1>16 DEF x, fine, E, m

LEMMA CommitGood ==
  ASSUME NEW n, NEW s, NEW D, Good(s, n, D), NEW l \in 2 .. n, s.cache[l].valid, l \notin D,
         NEW p \in Pos
  PROVE  LET t == CommitFit(s, l, s.cache[l].pos, p)
         IN  Good(t, n, D) /\ Frame(s, t)
<1> DEFINE m == l - 1
           E == D \union {m}
           z == Restored(Lowered(s, l, p), l, s.cache[l].pos)
           i == InvalidateAbove(z, l)
           e == Evicted(i, {m})
           t == Shown(e, m)
<1>1. /\ Shaped(s, n) /\ n \in Nat /\ l \in 1 .. n /\ l \in 0 .. n /\ m \in 1 .. n /\ m = l - 1
  BY ShapedFacts DEF Good, UpTo
<1>2. CommitFit(s, l, s.cache[l].pos, p) = t
  BY DEF CommitFit
<1>3. UpTo(z, n, l, E) /\ Rest(s, z) /\ Untouched(s, z, n, l - 2)
  BY RestoredUpTo
<1> HIDE DEF z, E, m
<1>4. /\ Good(i, n, E) /\ Frame(z, i) /\ i.disp = z.disp
  BY <1>1, <1>3, Invalidating
<1> HIDE DEF i
<1>5. Good(e, n, D) /\ Frame(i, e)
  BY <1>4, EvictingOne DEF E
<1> HIDE DEF e
<1>6. Good(t, n, D) /\ Frame(e, t)
  <2>1. CASE e.active = m
    <3> DEFINE x == Materialize(e, m)
    <3>1. t = x
      BY <2>1 DEF Shown
    <3>2. Good(x, n, D) /\ Frame(e, x)
      BY <1>1, <1>5, MaterializeGood
    <3> QED BY <3>1, <3>2
  <2>2. CASE e.active # m
    <3>1. t = e
      BY <2>2 DEF Shown
    <3> QED BY <1>5, <3>1 DEF Frame, Keeps
  <2> QED BY <2>1, <2>2
<1> HIDE DEF t
<1>7. Frame(s, z)
  <2> DEFINE a == l - 2
  <2>1. a \in Int /\ Untouched(s, z, n, a) /\ Shaped(z, n)
    BY <1>1, <1>3 DEF UpTo
  <2> HIDE DEF a
  <2>2. z.on = s.on /\ z.target = s.target /\ z.active = s.active
    BY <1>3 DEF Rest
  <2>3. \A k \in 1 .. n : z.domains[k] = "bound" => k <= a /\ s.domains[k] = "bound"
    <3>1. ASSUME NEW k \in 1 .. n, z.domains[k] = "bound" PROVE k <= a /\ s.domains[k] = "bound"
      <4>1. z.domains[k] = IF k > a THEN "none" ELSE s.domains[k]
        BY <2>1 DEF Untouched
      <4>2. ~(k > a)
        BY <3>1, <4>1
      <4> QED BY <1>1, <2>1, <3>1, <4>1, <4>2
    <3> QED BY <3>1
  <2>4. \A k \in 1 .. n : k <= a => z.disp[k] = s.disp[k]
    BY <2>1 DEF Untouched
  <2>5. LowFrame(s, z, n, a)
    BY <2>1, <2>3, <2>4 DEF LowFrame
  <2> QED BY <1>1, <2>1, <2>2, <2>5, FrameUpTo
<1>8. Frame(s, t)
  BY <1>4, <1>5, <1>6, <1>7, FrameTwice
<1> QED BY <1>2, <1>6, <1>8

LEMMA FittedGood ==
  ASSUME NEW n, NEW s, NEW D, Good(s, n, D), NEW l \in 2 .. n, s.cache[l].valid, l \notin D,
         NEW p \in Pos
  PROVE  Good(Fitted(s, l, p), n, D) /\ Frame(s, Fitted(s, l, p))
<1> DEFINE u == CommitFit(s, l, s.cache[l].pos, p)
           w == Paid(u, l)
           m == l - 1
           t == Owing(w, m)
<1>1. m \in 1 .. n
  <2>1. n \in Nat
    BY ShapedFacts DEF Good, UpTo
  <2> QED BY <2>1
<1>2. Fitted(s, l, p) = t
  BY DEF Fitted
<1>3. Good(u, n, D) /\ Frame(s, u)
  BY CommitGood
<1> HIDE DEF u, m
<1>4. Good(w, n, D) /\ Frame(u, w)
  BY <1>3, PaidGood
<1> HIDE DEF w
<1>5. Good(t, n, D) /\ Frame(w, t)
  BY <1>1, <1>4, OwingGood
<1> QED BY <1>2, <1>3, <1>4, <1>5, FrameTwice

LEMMA CurrentGood ==
  ASSUME NEW n, NEW s, NEW D, Good(s, n, D), NEW l \in 1 .. n
  PROVE  LET t == Current(s, l)
         IN  Good(t, n, D \ {l}) /\ Frame(s, t) /\ t.cache[l].valid /\ t.cache[l].pos \in Pos
<1> DEFINE u == Writeback(s, l)
           t == EnsureChain(u, l)
           E == D \ {l}
<1>1. Current(s, l) = t
  BY DEF Current
<1>2. Good(u, n, E) /\ Frame(s, u)
  BY WritebackGood
<1> HIDE DEF u, E
<1>3. Good(t, n, E) /\ Frame(u, t) /\ Chained(u, t, n, l)
  BY <1>2, ChainGood
<1> HIDE DEF t
<1>4. t.cache[l].valid /\ t.cache[l].pos \in Pos
  <2>1. n \in Nat /\ t \in Stack(n)
    BY <1>3, ShapedFacts DEF Good, UpTo
  <2>2. l \in 1 .. l /\ t.cache[l] \in PosCache
    BY <2>1, StackFields
  <2> QED BY <1>3, <2>2 DEF Chained, PosCache
<1> QED BY <1>1, <1>2, <1>3, <1>4, FrameTwice DEF E

LEMMA PropagateGood ==
  ASSUME NEW n, NEW s, NEW D, Good(s, n, D), NEW l \in 2 .. n
  PROVE  LET t == PropagateDown(s, l)
         IN  Good(t, n, D \ {l}) /\ Frame(s, t)
<1> DEFINE u == Current(s, l)
           p == FullWeight[u.cache[l].pos]
           E == D \ {l}
           t == PushedDown(u, l, p)
<1>1. PropagateDown(s, l) = t
  BY DEF PropagateDown, Weighted
<1>2. l \in 1 .. n /\ l \notin E
  OBVIOUS
<1>3. Good(u, n, E) /\ Frame(s, u) /\ u.cache[l].valid /\ u.cache[l].pos \in Pos
  BY <1>2, CurrentGood
<1> HIDE DEF u
<1>4. p \in Pos
  BY <1>3, ConstantFacts
<1> HIDE DEF p, E
<1>5. CASE p = u.cache[l - 1].pos
  <2> DEFINE w == Paid(u, l)
  <2>1. t = w
    BY <1>5 DEF PushedDown
  <2>2. Good(w, n, E) /\ Frame(u, w)
    BY <1>3, PaidGood
  <2> HIDE DEF t, w
  <2> QED BY <1>1, <1>3, <2>1, <2>2, FrameTwice DEF E
<1>6. CASE p # u.cache[l - 1].pos
  <2> DEFINE w == Fitted(u, l, p)
  <2>1. t = w
    BY <1>6 DEF PushedDown
  <2>2. Good(w, n, E) /\ Frame(u, w)
    BY <1>2, <1>3, <1>4, FittedGood
  <2> HIDE DEF t, w
  <2> QED BY <1>1, <1>3, <2>1, <2>2, FrameTwice DEF E
<1> QED BY <1>5, <1>6

LEMMA RefittedGood ==
  ASSUME NEW n, NEW s, NEW D, Good(s, n, D), NEW l \in 2 .. n
  PROVE  LET t == Refitted(s, l)
         IN  Good(t, n, D \ {l}) /\ Frame(s, t)
<1> DEFINE u == Current(s, l)
           p == LeastSquares[u.cache[l].pos]
           E == D \ {l}
           t == LeastSquared(u, l, p)
<1>1. Refitted(s, l) = t
  BY DEF Refitted, Solved
<1>2. l \in 1 .. n /\ l \notin E
  OBVIOUS
<1>3. Good(u, n, E) /\ Frame(s, u) /\ u.cache[l].valid /\ u.cache[l].pos \in Pos
  BY <1>2, CurrentGood
<1> HIDE DEF u
<1>4. p \in Pos
  BY <1>3, ConstantFacts
<1> HIDE DEF p, E
<1>5. CASE p = u.cache[l - 1].pos
  <2>1. t = u
    BY <1>5 DEF LeastSquared
  <2> HIDE DEF t
  <2> QED BY <1>1, <1>3, <2>1 DEF E
<1>6. CASE p # u.cache[l - 1].pos
  <2> DEFINE w == Fitted(u, l, p)
  <2>1. t = w
    BY <1>6 DEF LeastSquared
  <2>2. Good(w, n, E) /\ Frame(u, w)
    BY <1>2, <1>3, <1>4, FittedGood
  <2> HIDE DEF t, w
  <2> QED BY <1>1, <1>3, <2>1, <2>2, FrameTwice DEF E
<1> QED BY <1>5, <1>6

-----------------------------------------------------------------------------
(* Levels switched.                                                        *)

LEMMA MaxOfTwo ==
  ASSUME NEW a \in Int, NEW b \in Int
  PROVE  Max({a, b}) = IF a >= b THEN a ELSE b
<1>1. \E x \in {a, b} : \A y \in {a, b} : x >= y
  <2>1. CASE a >= b
    BY <2>1
  <2>2. CASE ~(a >= b)
    BY <2>2
  <2> QED BY <2>1, <2>2
<1>2. Max({a, b}) \in {a, b} /\ \A y \in {a, b} : Max({a, b}) >= y
  BY <1>1 DEF Max
<1> QED BY <1>2

LEMMA CascadeGood ==
  ASSUME NEW n, NEW s, NEW D, Good(s, n, D), NEW from \in 1 .. n, NEW to \in 1 .. n,
         NEW lazily \in BOOLEAN
  PROVE  LET t == Cascade(s, from, to, lazily)
         IN  Good(t, n, D) /\ Frame(s, t)
<1> DEFINE step(t, l) == IF lazily /\ l \notin t.debt THEN t ELSE PropagateDown(t, l)
           r == Max({from - Max({to, 1}), 0})
           S == {u \in Stack(n) : Good(u, n, D) /\ Frame(s, u)}
           at(k) == from + 1 - k
           g == [k \in 1 .. r |-> [u \in S |-> step(u, at(k))]]
           F(h) == [k \in 0 .. r |-> IF k = 0 THEN s ELSE step(h[k - 1], at(k))]
           f == CHOOSE h : h = F(h)
<1>1. n \in Nat /\ s \in Stack(n) /\ from \in Int /\ to \in Int
  BY ShapedFacts DEF Good, UpTo
<1>2. r \in Nat /\ \A k \in 1 .. r : at(k) \in 2 .. n /\ k - 1 \in 0 .. r
  <2>1. Max({to, 1}) = to
    BY <1>1, MaxOfTwo
  <2>2. r = IF from - to >= 0 THEN from - to ELSE 0
    <3> DEFINE a == from - to
    <3>1. a \in Int
      BY <1>1
    <3> HIDE DEF a
    <3>2. Max({a, 0}) = IF a >= 0 THEN a ELSE 0
      BY <3>1, MaxOfTwo
    <3> QED BY <2>1, <3>2 DEF a
  <2> HIDE DEF r
  <2> QED BY <1>1, <2>2
<1>3. Cascade(s, from, to, lazily) = f[r]
  BY DEF Cascade
<1> HIDE DEF r, at
<1>4. \A k \in 1 .. r, u \in S : step(u, at(k)) \in S
  <2> TAKE k \in 1 .. r, u \in S
  <2> DEFINE l == at(k)
  <2>1. l \in 2 .. n
    BY <1>2
  <2> HIDE DEF l
  <2>2. CASE lazily /\ l \notin u.debt
    BY <2>2 DEF l
  <2>3. CASE ~(lazily /\ l \notin u.debt)
    <3> DEFINE t == PropagateDown(u, l)
               E == D \ {l}
    <3>1. step(u, l) = t
      BY <2>3
    <3>2. Good(u, n, D) /\ Frame(s, u)
      OBVIOUS
    <3>3. Good(t, n, E) /\ Frame(u, t)
      BY <2>1, <3>2, PropagateGood
    <3> HIDE DEF t, step
    <3>4. \A j \in 1 .. n : j \in E => j \in D
      OBVIOUS
    <3> HIDE DEF E
    <3>5. UpTo(t, n, n, D)
      BY <3>3, <3>4, MoreHidden DEF Good
    <3>6. Good(t, n, D) /\ t \in Stack(n)
      <4>1. Good(t, n, D)
        BY <3>5 DEF Good
      <4> QED BY <4>1, ShapedFacts DEF Good, UpTo
    <3>7. Frame(s, t)
      BY <3>2, <3>3, FrameTwice
    <3> QED BY <3>1, <3>6, <3>7 DEF l
  <2> QED BY <2>2, <2>3
<1>5. s \in S
  BY <1>1 DEF Frame, Keeps
<1> HIDE DEF S, step
<1>6. Rounds(r, S, g)
  BY <1>4 DEF Rounds
<1>7. \A k \in 1 .. r, u \in S : g[k][u] = step(u, at(k))
  OBVIOUS
<1> HIDE DEF g
<1>8. PICK h : IsRun(h, r, S, s, g)
  BY <1>2, <1>5, <1>6, RunExists
<1>9. h \in [0 .. r -> S] /\ h[0] = s /\ \A k \in 1 .. r : h[k] = step(h[k - 1], at(k))
  <2>1. h \in [0 .. r -> S] /\ h[0] = s /\ \A k \in 1 .. r : h[k] = g[k][h[k - 1]]
    BY <1>8 DEF IsRun
  <2> QED BY <1>2, <1>7, <2>1
<1>10. f = F(f)
  <2>1. h = F(h)
    <3>1. h = [k \in 0 .. r |-> h[k]]
      BY <1>9
    <3>2. ASSUME NEW k \in 0 .. r
          PROVE  h[k] = IF k = 0 THEN s ELSE step(h[k - 1], at(k))
      <4>1. k = 0 \/ k \in 1 .. r
        BY <1>2
      <4> QED BY <1>9, <4>1
    <3> QED BY <3>1, <3>2
  <2>2. \E x : x = F(x)
    BY <2>1
  <2> QED BY <2>2
<1> HIDE DEF f
<1>11. f[0] = s /\ \A k \in 1 .. r : f[k] = step(f[k - 1], at(k))
  <2>1. 0 \in 0 .. r /\ \A k \in 1 .. r : k \in 0 .. r /\ k # 0
    BY <1>2
  <2> QED BY <1>10, <2>1
<1>12. \A k \in 1 .. r : f[k - 1] \in S => f[k] = g[k][f[k - 1]]
  BY <1>7, <1>11
<1>13. f[r] \in S
  BY <1>2, <1>5, <1>6, <1>11, <1>12, RunEnds
<1> QED BY <1>3, <1>13 DEF S

\* Another level becomes the active one.
FrameTo(s, t, to) ==
  Keeps(s, t) /\ t.on = s.on /\ t.target = s.target /\ t.active = to

LEMMA EnteredGood ==
  ASSUME NEW n, NEW s, NEW D, Good(s, n, D), NEW to \in 1 .. n, NEW materialize \in BOOLEAN
  PROVE  LET t == Entered(s, to, materialize)
         IN  Good(t, n, D) /\ FrameTo(s, t, to)
<1> DEFINE u == [s EXCEPT !.active = to]
           w == Materialize(u, to)
           t == Entered(s, to, materialize)
<1>1. Shaped(s, n) /\ n \in Nat /\ s \in Stack(n) /\ to \in 0 .. n
  BY ShapedFacts DEF Good, UpTo
<1>2. t = IF materialize THEN w ELSE u
  BY DEF Entered
<1>3. /\ u \in Stack(n) /\ u.disp = s.disp /\ u.cache = s.cache /\ u.slots = s.slots
      /\ u.domains = s.domains /\ u.stale = s.stale /\ u.on = s.on /\ u.target = s.target
      /\ u.active = to
  BY <1>1 DEF Stack
<1> HIDE DEF t, u
<1>4. Shaped(u, n)
  BY <1>1, <1>3, ShapedLike
<1>5. Good(u, n, D)
  <2>1. \A l \in 1 .. n : Agrees(s, u, l)
    BY <1>3, SlotsSame DEF Agrees
  <2>2. n \in 0 .. n /\ UpTo(s, n, n, D)
    BY <1>1 DEF Good
  <2>3. UpTo(u, n, n, D)
    BY <1>3, <1>4, <2>1, <2>2, Agreeing
  <2> QED BY <2>3 DEF Good
<1>6. FrameTo(s, u, to)
  BY <1>3 DEF FrameTo, Keeps, BoundAt
<1>7. Good(w, n, D) /\ Frame(u, w)
  BY <1>5, MaterializeGood
<1> HIDE DEF w
<1>8. FrameTo(s, w, to)
  BY <1>3, <1>6, <1>7 DEF Frame, FrameTo, Keeps
<1> QED BY <1>2, <1>5, <1>6, <1>7, <1>8 DEF t

\* The level left behind keeps no edit.
LEMMA SetActiveGood ==
  ASSUME NEW n, NEW s, NEW D, Good(s, n, D), NEW to \in 1 .. n,
         NEW propagate \in BOOLEAN, NEW materialize \in BOOLEAN
  PROVE  LET t == SetActive(s, to, propagate, materialize)
         IN  /\ Good(t, n, IF s.active = to THEN D ELSE D \ {s.active})
             /\ FrameTo(s, t, to)
<1> DEFINE a == s.active
           E == IF a = to THEN D ELSE D \ {a}
           u == Writeback(s, a)
           c == Cascade(u, a, to, TRUE)
           w == IF a \in {0, to} THEN s ELSE IF propagate THEN c ELSE u
           t == Entered(w, to, materialize)
<1>1. Shaped(s, n) /\ n \in Nat /\ a \in 0 .. n /\ UpTo(s, n, n, D)
  <2>1. Shaped(s, n) /\ n \in Nat /\ s \in Stack(n) /\ UpTo(s, n, n, D)
    BY ShapedFacts DEF Good, UpTo
  <2> QED BY <2>1, StackFields
<1>2. SetActive(s, to, propagate, materialize) = t
  BY DEF SetActive
<1> HIDE DEF a
<1>3. Good(w, n, E) /\ Frame(s, w)
  <2>1. CASE a \in {0, to}
    <3>1. w = s /\ \A k \in 1 .. n : k \in D => k \in E
      BY <1>1, <2>1
    <3>2. UpTo(s, n, n, E)
      BY <1>1, <3>1, MoreHidden
    <3> QED BY <3>1, <3>2 DEF Good, Frame, Keeps
  <2>2. CASE a \notin {0, to}
    <3>1. a \in 1 .. n /\ E = D \ {a}
      BY <1>1, <2>2
    <3>2. Good(u, n, E) /\ Frame(s, u)
      <4>1. Good(u, n, D \ {a}) /\ Frame(s, u)
        BY <3>1, WritebackGood
      <4> QED BY <3>1, <4>1
    <3> HIDE DEF u, E
    <3>3. Good(c, n, E) /\ Frame(u, c)
      BY <3>1, <3>2, CascadeGood
    <3> HIDE DEF c
    <3>4. Frame(s, c)
      BY <3>2, <3>3, FrameTwice
    <3>5. w = IF propagate THEN c ELSE u
      BY <2>2
    <3> QED BY <3>2, <3>3, <3>4, <3>5
  <2> QED BY <2>1, <2>2
<1> HIDE DEF w, E
<1>4. Good(t, n, E) /\ FrameTo(w, t, to)
  BY <1>3, EnteredGood
<1> HIDE DEF t
<1>5. FrameTo(s, t, to)
  BY <1>3, <1>4 DEF Frame, FrameTo, Keeps
<1> QED BY <1>2, <1>4, <1>5 DEF E, a

-----------------------------------------------------------------------------
(* Channels and layers.                                                    *)

Unbound(t) == \A k : ~BoundAt(t, k)

LEMMA UnboundKeeps ==
  ASSUME NEW s, NEW t, NEW u, Unbound(t), Frame(t, u)
  PROVE  Unbound(u) /\ Keeps(s, u)
BY DEF Unbound, Frame, Keeps

\* Everything derived is dropped.
LEMMA RefreshGood ==
  ASSUME NEW n, NEW s, Shaped(s, n)
  PROVE  LET t == RefreshAfterLayerChange(s)
         IN  /\ Good(t, n, {}) /\ Unbound(t)
             /\ t.on = s.on /\ t.target = s.target /\ t.active = s.active
<1> DEFINE D == {}
           a == 0
           u == InvalidateAbove(s, a)
           w == Materialize(u, s.active)
           t == RefreshAfterLayerChange(s)
<1>1. n \in Nat /\ a \in 0 .. n /\ s.active \in 0 .. n /\ UpTo(s, n, a, D) /\ a = 0
  <2>1. n \in Nat /\ s \in Stack(n)
    BY ShapedFacts
  <2> QED BY <2>1, StackFields DEF UpTo
<1>2. t = IF s.active >= 1 THEN w ELSE u
  BY DEF RefreshAfterLayerChange
<1> HIDE DEF D, a, t
<1>3. /\ Good(u, n, D) /\ Frame(s, u)
      /\ \A l \in 1 .. n : l > a => u.domains[l] = "none"
  BY <1>1, Invalidating
<1> HIDE DEF u
<1>4. Unbound(u)
  <2>1. DOMAIN u.domains = 1 .. n
    BY <1>1, <1>3, ShapedFacts, StackFields DEF Good, UpTo
  <2> QED BY <1>1, <1>3, <2>1 DEF Unbound, BoundAt
<1>5. CASE s.active >= 1
  <2>1. s.active \in 1 .. n
    BY <1>1, <1>5
  <2>2. Good(w, n, D) /\ Frame(u, w)
    <3> DEFINE l == s.active
    <3>1. l \in 1 .. n
      BY <2>1
    <3> HIDE DEF l
    <3>2. LET x == Materialize(u, l) IN Good(x, n, D) /\ Frame(u, x)
      BY <1>3, <3>1, MaterializeGood
    <3> QED BY <3>2 DEF l
  <2> HIDE DEF w
  <2>3. Unbound(w)
    BY <1>4, <2>2, UnboundKeeps
  <2> QED BY <1>2, <1>3, <1>5, <2>2, <2>3 DEF Frame, t, D
<1>6. CASE ~(s.active >= 1)
  BY <1>2, <1>3, <1>4, <1>6 DEF Frame, t, D
<1> QED BY <1>5, <1>6

LEMMA WritebackActive ==
  ASSUME NEW n, NEW s, NEW D, Good(s, n, D)
  PROVE  LET t == Writeback(s, s.active)
         IN  Good(t, n, D) /\ Good(t, n, D \ {s.active}) /\ Frame(s, t)
<1> DEFINE a == s.active
           t == Writeback(s, a)
           E == D \ {a}
<1>1. Shaped(s, n) /\ n \in Nat /\ a \in 0 .. n /\ \A k : Resident(s, k) => k \in 1 .. n
  <2>1. n \in Nat /\ Shaped(s, n) /\ s \in Stack(n) /\ \A k : Resident(s, k) => k \in 1 .. n
    BY ShapedFacts DEF Good, UpTo
  <2> QED BY <2>1, StackFields
<1> HIDE DEF a
<1>2. Good(t, n, E) /\ Frame(s, t)
  <2>1. CASE a = 0
    <3>1. ~Resident(s, a)
      BY <1>1, <2>1
    <3>2. t = s
      BY <3>1 DEF Writeback
    <3>3. Good(s, n, E)
      BY <3>1, Hidden
    <3> HIDE DEF t, E
    <3> QED BY <3>2, <3>3 DEF Frame, Keeps
  <2>2. CASE a # 0
    <3>1. a \in 1 .. n
      BY <1>1, <2>2
    <3> QED BY <3>1, WritebackGood
  <2> QED BY <2>1, <2>2
<1>3. \A k \in 1 .. n : k \in E => k \in D
  OBVIOUS
<1> HIDE DEF t, E
<1>4. UpTo(t, n, n, D)
  BY <1>2, <1>3, MoreHidden DEF Good
<1>5. Good(t, n, D)
  BY <1>4 DEF Good
<1> QED BY <1>2, <1>5 DEF t, E, a

LEMMA EmptyHidden ==
  ASSUME NEW n, NEW s, NEW D, Good(s, n, {})
  PROVE  Good(s, n, D)
<1> DEFINE E == {}
<1>1. UpTo(s, n, n, E) /\ \A k \in 1 .. n : k \in E => k \in D
  BY DEF Good
<1> HIDE DEF E
<1> QED BY <1>1, MoreHidden DEF Good

\* Another channel is the one edited.
LEMMA TargetingGood ==
  ASSUME NEW n, NEW s, NEW D, Good(s, n, D), NEW c \in Channels
  PROVE  LET t == Targeting(s, c)
         IN  Good(t, n, D) /\ Keeps(s, t) /\ t.active = s.active /\ t.target = c
<1> DEFINE t == Targeting(s, c)
<1>1. Shaped(s, n) /\ n \in Nat /\ s \in Stack(n) /\ n \in 0 .. n
  BY ShapedFacts DEF Good, UpTo
<1>2. s.on \in [Layers -> BOOLEAN]
  BY <1>1, StackFields
<1>3. CASE c # Base /\ ~s.on[c]
  <2> DEFINE o == [s.on EXCEPT ![c] = TRUE]
             u == [s EXCEPT !.target = c, !.on = o]
             w == RefreshAfterLayerChange(u)
  <2>1. t = w
    <3>1. [s EXCEPT !.target = c, !.on[c] = TRUE] = u
      <4> DEFINE y == [s EXCEPT !.target = c]
      <4>1. y.on = s.on
        BY <1>1 DEF Stack
      <4>2. [s EXCEPT !.target = c, !.on[c] = TRUE] = [y EXCEPT !.on[c] = TRUE]
        OBVIOUS
      <4>3. [s EXCEPT !.target = c, !.on = o] = [y EXCEPT !.on = o]
        OBVIOUS
      <4> HIDE DEF y
      <4>4. [y EXCEPT !.on[c] = TRUE] = [y EXCEPT !.on = [s.on EXCEPT ![c] = TRUE]]
        BY <4>1
      <4> QED BY <4>2, <4>3, <4>4
    <3> QED BY <1>3, <3>1 DEF Targeting
  <2>2. c \in Layers
    BY <1>3 DEF Channels
  <2>3. o \in [Layers -> BOOLEAN] /\ o[c]
    BY <1>2, <2>2
  <2> HIDE DEF o, t
  <2>4. u \in Stack(n) /\ u.slots = s.slots /\ u.on = o /\ u.target = c /\ u.active = s.active
    BY <1>1, <2>3 DEF Stack
  <2> HIDE DEF u
  <2>5. Shaped(u, n)
    <3>1. \A k : Resident(u, k) <=> Resident(s, k)
      BY <2>4, SlotsSame
    <3>2. u.target \in Mixed(u.on)
      BY <2>2, <2>3, <2>4 DEF Mixed
    <3> QED BY <1>1, <2>4, <3>1, <3>2 DEF Shaped
  <2>6. /\ Good(w, n, {}) /\ Unbound(w)
        /\ w.on = u.on /\ w.target = u.target /\ w.active = u.active
    BY <2>5, RefreshGood
  <2> HIDE DEF w
  <2>7. Good(w, n, D)
    BY <2>6, EmptyHidden
  <2>8. Keeps(s, w)
    BY <2>6 DEF Unbound, Keeps
  <2> QED BY <2>1, <2>4, <2>6, <2>7, <2>8 DEF t
<1>4. CASE ~(c # Base /\ ~s.on[c])
  <2> DEFINE u == [s EXCEPT !.target = c]
  <2>1. t = u
    BY <1>4 DEF Targeting
  <2>2. /\ u \in Stack(n) /\ u.slots = s.slots /\ u.on = s.on /\ u.target = c
        /\ u.active = s.active /\ u.disp = s.disp /\ u.cache = s.cache
        /\ u.domains = s.domains /\ u.stale = s.stale
    BY <1>1 DEF Stack
  <2> HIDE DEF t, u
  <2>3. Shaped(u, n)
    <3>1. \A k : Resident(u, k) <=> Resident(s, k)
      BY <2>2, SlotsSame
    <3>2. c \in Mixed(s.on)
      BY <1>4 DEF Mixed, Channels
    <3> QED BY <1>1, <2>2, <3>1, <3>2 DEF Shaped
  <2>4. \A k \in 1 .. n : Agrees(s, u, k)
    BY <2>2, SlotsSame DEF Agrees
  <2>5. UpTo(u, n, n, D)
    BY <1>1, <2>2, <2>3, <2>4, Agreeing DEF Good
  <2>6. Keeps(s, u)
    BY <2>2 DEF Keeps, BoundAt
  <2> QED BY <2>1, <2>2, <2>5, <2>6 DEF Good, t
<1> QED BY <1>3, <1>4

LEMMA SetTargetGood ==
  ASSUME NEW n, NEW s, NEW D, Good(s, n, D), NEW c \in Channels
  PROVE  LET t == SetEditTarget(s, c)
         IN  Good(t, n, D) /\ Keeps(s, t) /\ t.active = s.active /\ t.target = c
<1> DEFINE u == Writeback(s, s.active)
           w == Targeting(u, c)
           t == SetEditTarget(s, c)
<1>1. CASE c = s.target
  <2>1. t = s
    BY <1>1 DEF SetEditTarget
  <2> HIDE DEF t
  <2> QED BY <1>1, <2>1 DEF Keeps, t
<1>2. CASE c # s.target
  <2>1. t = w
    BY <1>2 DEF SetEditTarget
  <2>2. Good(u, n, D) /\ Frame(s, u)
    BY WritebackActive
  <2> HIDE DEF t, u
  <2>3. Good(w, n, D) /\ Keeps(u, w) /\ w.active = u.active /\ w.target = c
    BY <2>2, TargetingGood
  <2> HIDE DEF w
  <2>4. Keeps(s, w)
    BY <2>2, <2>3 DEF Frame, Keeps
  <2> QED BY <2>1, <2>2, <2>3, <2>4 DEF Frame, t
<1> QED BY <1>1, <1>2

\* A layer that is not the one edited is composited, or no more.
LEMMA ToggledGood ==
  ASSUME NEW n, NEW s, NEW D, Good(s, n, D), NEW c \in Layers, s.on[c] => c # s.target
  PROVE  LET t == Toggled(s, c)
         IN  Good(t, n, {}) /\ Unbound(t) /\ t.active = s.active
<1> DEFINE o == [s.on EXCEPT ![c] = ~@]
           u == [s EXCEPT !.on = o]
           t == RefreshAfterLayerChange(u)
<1>1. Shaped(s, n) /\ n \in Nat /\ s \in Stack(n) /\ s.target \in Mixed(s.on)
  BY ShapedFacts DEF Good, UpTo
<1>2. s.on \in [Layers -> BOOLEAN]
  BY <1>1, StackFields
<1>3. Toggled(s, c) = t
  BY DEF Toggled
<1>4. o \in [Layers -> BOOLEAN] /\ \A k \in Layers : k # c => o[k] = s.on[k]
  BY <1>2
<1>5. o[c] <=> ~s.on[c]
  BY <1>2
<1> HIDE DEF o
<1>6. u \in Stack(n) /\ u.slots = s.slots /\ u.on = o /\ u.target = s.target /\ u.active = s.active
  BY <1>1, <1>4 DEF Stack
<1> HIDE DEF u
<1>7. Shaped(u, n)
  <2>1. \A k : Resident(u, k) <=> Resident(s, k)
    BY <1>6, SlotsSame
  <2>2. s.target \in Mixed(o)
    <3>1. s.target = Base \/ (s.target \in Layers /\ s.on[s.target])
      BY <1>1 DEF Mixed
    <3>2. s.target \in Layers /\ s.on[s.target] => s.target # c
      OBVIOUS
    <3> QED BY <1>4, <3>1, <3>2 DEF Mixed
  <2> QED BY <1>1, <1>6, <2>1, <2>2 DEF Shaped
<1>8. Good(t, n, {}) /\ Unbound(t) /\ t.active = u.active
  BY <1>7, RefreshGood
<1> QED BY <1>3, <1>6, <1>8

-----------------------------------------------------------------------------
(* Levels seeded and imported.                                             *)

LEMMA OwingUpTo ==
  ASSUME NEW n, NEW m \in 0 .. n, NEW s, NEW D, UpTo(s, n, m, D), NEW l \in 1 .. n
  PROVE  LET t == Owing(s, l)
         IN  /\ UpTo(t, n, m, D) /\ Frame(s, t) /\ t.disp = s.disp /\ t.cache = s.cache
             /\ t.domains = s.domains /\ t.stale = s.stale /\ t.slots = s.slots
<1> DEFINE t == Owing(s, l)
           b == s.debt \union {l}
           u == [s EXCEPT !.debt = b]
<1>1. Shaped(s, n) /\ s \in Stack(n) /\ n \in Nat /\ s.debt \in SUBSET (2 .. n)
  BY ShapedFacts, StackFields DEF UpTo
<1>2. CASE l >= 2
  <2>1. t = u
    BY <1>2 DEF Owing
  <2>2. b \in SUBSET (2 .. n)
    BY <1>1, <1>2
  <2> HIDE DEF b, t
  <2>3. /\ u \in Stack(n) /\ u.disp = s.disp /\ u.cache = s.cache /\ u.slots = s.slots
        /\ u.domains = s.domains /\ u.stale = s.stale
        /\ u.on = s.on /\ u.target = s.target /\ u.active = s.active
    BY <1>1, <2>2 DEF Stack
  <2> HIDE DEF u
  <2>4. Shaped(u, n) /\ Frame(s, u)
    BY <1>1, <2>3, ShapedLike DEF Frame, Keeps, BoundAt
  <2>5. \A k \in 1 .. m : Agrees(s, u, k)
    BY <2>3, SlotsSame DEF Agrees
  <2>6. UpTo(u, n, m, D)
    BY <2>3, <2>4, <2>5, Agreeing
  <2> QED BY <2>1, <2>3, <2>4, <2>6 DEF t
<1>3. CASE ~(l >= 2)
  <2>1. t = s
    BY <1>3 DEF Owing
  <2> HIDE DEF t
  <2> QED BY <2>1 DEF Frame, Keeps, t
<1> QED BY <1>2, <1>3

\* The levels to l are in order but for its slot, which goes.
LEMMA Finishing ==
  ASSUME NEW n, NEW s, NEW l \in 1 .. n, NEW D, UpTo(s, n, l, D \union {l})
  PROVE  LET t == Evicted(InvalidateAbove(Owing(s, l), l), {l})
         IN  Good(t, n, D) /\ Frame(s, t)
<1> DEFINE E == D \union {l}
           u == Owing(s, l)
           w == InvalidateAbove(u, l)
           t == Evicted(w, {l})
<1>1. n \in Nat /\ l \in 0 .. n /\ UpTo(s, n, l, E)
  <2>1. UpTo(s, n, l, E)
    OBVIOUS
  <2> HIDE DEF E
  <2>2. Shaped(s, n)
    BY <2>1 DEF UpTo
  <2> QED BY <2>1, <2>2, ShapedFacts
<1> HIDE DEF E
<1>2. UpTo(u, n, l, E) /\ Frame(s, u)
  BY <1>1, OwingUpTo
<1> HIDE DEF u
<1>3. Good(w, n, E) /\ Frame(u, w)
  BY <1>1, <1>2, Invalidating
<1> HIDE DEF w
<1>4. Good(t, n, D) /\ Frame(w, t)
  BY <1>3, EvictingOne DEF E
<1> HIDE DEF t
<1> QED BY <1>2, <1>3, <1>4, FrameTwice DEF t, w, u

LEMMA SeededGood ==
  ASSUME NEW n, NEW s, NEW D, Good(s, n, D), NEW l \in 1 .. n, s.cache[l].valid,
         s.cache[l].base # NoBase, NEW p \in Pos
  PROVE  LET t == Seeded(s, l, p)
         IN  Good(t, n, D) /\ Frame(s, t)
<1> DEFINE a == l - 1
           E == D \union {l}
           c == Base
           vs == Verts
           w == DropDomains(s, a)
           x == [w EXCEPT !.cache[l].pos = p]
           u == StoreDisp(x, l, p, vs, c)
           t == Evicted(InvalidateAbove(Owing(u, l), l), {l})
<1>1. /\ Shaped(s, n) /\ n \in Nat /\ l \in 0 .. n /\ a \in 0 .. n /\ a \in Int /\ a = l - 1
  BY ShapedFacts DEF Good, UpTo
<1>2. Seeded(s, l, p) = t
  BY DEF Seeded
<1> HIDE DEF a, t
<1>3. /\ Shaped(w, n) /\ Frame(s, w) /\ w.disp = s.disp /\ w.cache = s.cache
      /\ w.slots = s.slots /\ w.debt = s.debt /\ w.stale = s.stale
      /\ \A k \in 1 .. n : w.domains[k] = IF k > a THEN "none" ELSE s.domains[k]
  BY <1>1, Dropping
<1>4. UpTo(w, n, a, E)
  <2>1. UpTo(s, n, a, D)
    BY <1>1, Lower
  <2>2. UpTo(w, n, a, D)
    BY <1>1, <2>1, DroppingUpTo
  <2>3. \A k \in 1 .. a : k \in D => k \in E
    OBVIOUS
  <2> HIDE DEF w, E
  <2> QED BY <2>2, <2>3, MoreHidden
<1> HIDE DEF w
<1>5. /\ x \in Stack(n) /\ Shaped(x, n) /\ OnlyCache(w, x) /\ SameElse(w, x, n, l)
      /\ x.cache[l].pos = p /\ x.cache[l].valid = w.cache[l].valid
      /\ x.cache[l].base = w.cache[l].base
  BY <1>3, Placing
<1> HIDE DEF x
<1>6. UpTo(x, n, a, E)
  BY <1>1, <1>4, <1>5, PlacingBelow
<1>7. Surf(x, l) = Surf(w, l) /\ Under(x, l) = Under(s, l)
  <2>1. Surf(x, l) = Surf(w, l) /\ Under(x, l) = Under(w, l)
    BY <1>1, <1>3, <1>5, CacheShape
  <2>2. \A k \in 0 .. n : Surf(w, k) = Surf(s, k)
    BY <1>1, <1>3, SurfSame DEF Frame
  <2>3. Under(w, l) = Under(s, l)
    <3>1. l - 1 \in 0 .. n
      BY <1>1
    <3> QED BY <2>2, <3>1 DEF Under
  <2> QED BY <2>1, <2>3
<1>8. RightBase(x, l) /\ (l > 1 => x.cache[a].valid)
  <2>1. RightBase(s, l) /\ (l > 1 => s.cache[a].valid /\ a \in 1 .. n /\ a # l)
    BY <1>1, HeldBase
  <2>2. x.cache[l].base # NoBase /\ x.cache[l].base = Under(x, l)
    BY <1>3, <1>5, <1>7, <2>1 DEF RightBase
  <2>3. l > 1 => x.cache[a].valid
    BY <1>3, <1>5, <2>1 DEF SameElse
  <2> QED BY <2>2, <2>3 DEF RightBase
<1>9. /\ c \in Mixed(x.on) /\ vs \in SUBSET Verts
      /\ \A v \in Verts \ vs : p[v] = Surf(x, l)[v]
  BY ConstantFacts
<1> HIDE DEF c, vs
<1>10. Shaped(u, n) /\ Stored(x, u, n, l, p, c)
  BY <1>5, <1>8, <1>9, Storing
<1> HIDE DEF u
<1>11. UpTo(u, n, a, E)
  BY <1>1, <1>6, <1>10, StoredBelow
<1>12. UpTo(u, n, l, E)
  <2>1. UpTo(u, n, l - 1, E)
    BY <1>1, <1>11
  <2>2. u.cache[l].pos = Surf(u, l) /\ u.cache[l].base = Under(u, l)
    BY <1>5, <1>10 DEF Stored
  <2>3. u.cache[l].valid
    BY <1>3, <1>5, <1>10 DEF Stored
  <2>4. l > 1 => u.cache[l - 1].valid
    <3>1. l > 1 => a \in 1 .. n /\ a # l
      BY <1>1
    <3> QED BY <1>1, <1>8, <1>10, <3>1 DEF Stored, SameElse
  <2>5. Resident(u, l) /\ l \notin Unmirrored =>
           l \notin u.stale /\ (l \notin E => SlotMesh(u, l) = Surf(u, l))
    <3>1. u.slots = s.slots /\ u.stale = s.stale
      BY <1>3, <1>5, <1>10 DEF Stored, OnlyStore, OnlyCache
    <3>2. Resident(u, l) <=> Resident(s, l)
      BY <3>1, SlotsSame
    <3> QED BY <3>1, <3>2, GoodFacts
  <2> HIDE DEF E
  <2> QED BY <2>1, <2>2, <2>3, <2>4, <2>5, Raise
<1>13. Good(t, n, D) /\ Frame(u, t)
  BY <1>12, Finishing DEF E, t
<1>14. Frame(s, u)
  <2>1. u.on = s.on /\ u.target = s.target /\ u.active = s.active
    BY <1>3, <1>5, <1>10 DEF Stored, OnlyStore, OnlyCache, Frame
  <2>2. \A k \in 1 .. n : u.domains[k] = "bound" => k <= a /\ s.domains[k] = "bound"
    <3>1. u.domains = w.domains
      BY <1>5, <1>10 DEF Stored, OnlyStore, OnlyCache
    <3>2. ASSUME NEW k \in 1 .. n, u.domains[k] = "bound" PROVE k <= a /\ s.domains[k] = "bound"
      <4>1. u.domains[k] = IF k > a THEN "none" ELSE s.domains[k]
        BY <1>3, <3>1
      <4>2. ~(k > a)
        BY <3>2, <4>1
      <4> QED BY <1>1, <3>2, <4>1, <4>2
    <3> QED BY <3>2
  <2>3. \A k \in 1 .. n : k <= a => u.disp[k] = s.disp[k]
    <3>1. \A k \in 1 .. n : k <= a => k # l
      BY <1>1
    <3> QED BY <1>3, <1>5, <1>10, <3>1 DEF Stored, OnlyCache
  <2>4. LowFrame(s, u, n, a)
    BY <1>1, <2>2, <2>3 DEF LowFrame
  <2> QED BY <1>1, <1>10, <2>1, <2>4, FrameUpTo
<1>15. Frame(s, t)
  BY <1>13, <1>14, FrameTwice
<1> QED BY <1>2, <1>13, <1>15

LEMMA SetMeshGood ==
  ASSUME NEW n, NEW s, NEW D, Good(s, n, D), NEW l, NEW p \in Pos
  PROVE  LET t == SetMesh(s, l, p)
         IN  /\ Good(t, n, D \union {l}) /\ Frame(s, t) /\ OnlySlots(s, t)
             /\ \A k : Resident(t, k) <=> Resident(s, k)
             /\ \A k : Resident(s, k) => SlotMesh(t, k) = IF k = l THEN p ELSE SlotMesh(s, k)
<1> DEFINE t == SetMesh(s, l, p)
           E == D \union {l}
<1>1. Shaped(s, n) /\ n \in Nat /\ s \in Stack(n) /\ Distinct(s.slots)
  BY ShapedFacts DEF Good, UpTo
<1>2. /\ t \in Stack(n) /\ OnlySlots(s, t) /\ Distinct(t.slots)
      /\ Len(t.slots) = Len(s.slots)
      /\ \A k : Resident(t, k) <=> Resident(s, k)
      /\ \A k : Resident(s, k) => SlotMesh(t, k) = IF k = l THEN p ELSE SlotMesh(s, k)
  BY <1>1, SetMeshSlots
<1> HIDE DEF t
<1>3. Shaped(t, n)
  BY <1>1, <1>2 DEF Shaped, OnlySlots
<1>4. \A k \in 1 .. n : Resident(t, k) /\ k \notin t.stale => s.cache[k].valid
  BY <1>2, GoodFacts DEF OnlySlots
<1>5. \A k \in 1 .. n : Resident(t, k) /\ k \notin Unmirrored =>
         k \notin t.stale /\ (k \notin E => SlotMesh(t, k) = Surf(s, k))
  BY <1>2, GoodFacts DEF OnlySlots
<1> HIDE DEF E
<1>6. Good(t, n, E) /\ Frame(s, t)
  BY <1>2, <1>3, <1>4, <1>5, SlotsGood DEF OnlySlots
<1> QED BY <1>2, <1>6 DEF t, E

LEMMA SummarizedGood ==
  ASSUME NEW n, NEW s, Good(s, n, {}), NEW l \in 1 .. n
  PROVE  LET t == Summarized(s, l)
         IN  Good(t, n, {}) /\ FrameTo(s, t, l)
<1> DEFINE a == l - 1
           o == 1
           D == {}
           lazily == FALSE
           yes == TRUE
           u == Cascade(s, l, o, lazily)
           w == InvalidateAbove(u, a)
           t == SetActive(w, l, yes, yes)
<1>1. n \in Nat /\ l \in 1 .. n /\ a \in 0 .. n /\ o \in 1 .. n /\ lazily \in BOOLEAN /\ yes \in BOOLEAN
      /\ Good(s, n, D)
  BY ShapedFacts DEF Good, UpTo
<1>2. Summarized(s, l) = t
  BY DEF Summarized
<1> HIDE DEF a, o, lazily, yes, D
<1>3. Good(u, n, D) /\ Frame(s, u)
  BY <1>1, CascadeGood
<1> HIDE DEF u
<1>4. UpTo(u, n, a, D)
  BY <1>1, <1>3, Lower
<1>5. Good(w, n, D) /\ Frame(u, w)
  BY <1>1, <1>4, Invalidating
<1> HIDE DEF w
<1>6. Good(t, n, IF w.active = l THEN D ELSE D \ {w.active}) /\ FrameTo(w, t, l)
  BY <1>1, <1>5, SetActiveGood
<1>7. (IF w.active = l THEN D ELSE D \ {w.active}) = D
  BY DEF D
<1> HIDE DEF t
<1>8. Good(t, n, D)
  BY <1>6, <1>7
<1>9. FrameTo(s, t, l)
  BY <1>3, <1>5, <1>6 DEF Frame, FrameTo, Keeps
<1> QED BY <1>2, <1>8, <1>9 DEF D

LEMMA ImportedGood ==
  ASSUME NEW n, NEW s, Good(s, n, {}), NEW l \in 1 .. n, s.active = l, NEW p \in Pos
  PROVE  LET t == Imported(s, l, p)
         IN  Good(t, n, {}) /\ FrameTo(s, t, l)
<1> DEFINE D == {}
           E == D \union {l}
           F == E \ {l}
           u == SetMesh(s, l, p)
           w == Writeback(u, l)
           x == Summarized(w, l)
           t == Imported(s, l, p)
<1>1. F = D /\ Good(s, n, D)
  OBVIOUS
<1>2. t = IF l \notin s.stale /\ p # s.cache[l].pos THEN x ELSE w
  BY DEF Imported
<1>3. Good(u, n, E) /\ Frame(s, u)
  <2> HIDE DEF D
  <2> QED BY <1>1, SetMeshGood
<1> HIDE DEF E, u, t
<1>4. Good(w, n, F) /\ Frame(u, w)
  BY <1>3, WritebackGood
<1> HIDE DEF w, F
<1>5. Good(w, n, {})
  BY <1>1, <1>4
<1>6. Good(x, n, {}) /\ FrameTo(w, x, l)
  BY <1>5, SummarizedGood
<1> HIDE DEF x
<1>7. FrameTo(s, w, l) /\ FrameTo(s, x, l)
  BY <1>3, <1>4, <1>6 DEF Frame, FrameTo, Keeps
<1> QED BY <1>2, <1>5, <1>6, <1>7 DEF t

\* The whole call: the level is reached first.
LEMMA ImportGood ==
  ASSUME NEW n, NEW s, Good(s, n, {}), NEW l \in 1 .. n, NEW p \in Pos
  PROVE  LET t == Imported(SetActive(s, l, TRUE, TRUE), l, p)
         IN  Good(t, n, {}) /\ FrameTo(s, t, l)
<1> DEFINE yes == TRUE
           D == {}
           E == IF s.active = l THEN D ELSE D \ {s.active}
           u == SetActive(s, l, yes, yes)
           t == Imported(u, l, p)
<1>1. E = {} /\ yes \in BOOLEAN /\ Good(s, n, D)
  OBVIOUS
<1> HIDE DEF yes, D
<1>2. Good(u, n, E) /\ FrameTo(s, u, l)
  BY <1>1, SetActiveGood
<1> HIDE DEF u, E
<1>3. Good(u, n, {}) /\ u.active = l
  BY <1>1, <1>2 DEF FrameTo
<1>4. Good(t, n, {}) /\ FrameTo(u, t, l)
  BY <1>3, ImportedGood
<1> HIDE DEF t
<1>5. FrameTo(s, t, l)
  BY <1>2, <1>4 DEF FrameTo, Keeps
<1> QED BY <1>4, <1>5 DEF t, u, yes

-----------------------------------------------------------------------------
(* Levels captured.                                                        *)

Laid(s, l, p) ==
  [s EXCEPT !.disp[l][Base] = Flat, !.cache[l].pos = p, !.cache[l].valid = TRUE]

\* The level shows p with nothing on its base channel.
LEMMA Laying ==
  ASSUME NEW n, NEW s, Shaped(s, n), NEW l \in 1 .. n, NEW p \in Pos
  PROVE  LET t == Laid(s, l, p)
         IN  /\ Shaped(t, n) /\ OnlyStore(s, t) /\ SameElse(s, t, n, l)
             /\ \A k \in 1 .. n : k # l => t.disp[k] = s.disp[k]
             /\ t.disp[l][Base] = Flat /\ t.disp[l] \in Detail
             /\ t.cache[l].pos = p /\ t.cache[l].valid /\ t.cache[l].base = s.cache[l].base
<1> DEFINE e == [s.disp[l] EXCEPT ![Base] = Flat]
           c == s.cache[l]
           x == [c EXCEPT !.pos = p, !.valid = TRUE]
           u == [s EXCEPT !.disp[l] = e]
           w == [u EXCEPT !.cache[l] = x]
           t == Laid(s, l, p)
<1>1. /\ n \in Nat /\ s \in Stack(n) /\ c \in PosCache /\ s.cache \in [1 .. n -> PosCache]
      /\ s.disp[l] \in Detail
  BY ShapedFacts, StackFields
<1>2. Base \in Channels /\ Flat \in Pos
  BY ConstantFacts
<1>3. t = w
  <2> DEFINE y == [c EXCEPT !.pos = p]
             d == [u.cache EXCEPT ![l] = y]
             v == [u EXCEPT !.cache = d]
  <2>1. [s EXCEPT !.disp[l][Base] = Flat] = u
    OBVIOUS
  <2>2. t = [u EXCEPT !.cache[l].pos = p, !.cache[l].valid = TRUE]
    BY <2>1 DEF Laid
  <2>3. u.cache = s.cache /\ \A z : [u EXCEPT !.cache = z].cache = z
    BY <1>1 DEF Stack
  <2>4. \A z : [v EXCEPT !.cache = z] = [u EXCEPT !.cache = z]
    OBVIOUS
  <2> HIDE DEF u
  <2>5. d[l] = y /\ [d EXCEPT ![l] = x] = [u.cache EXCEPT ![l] = x]
    BY <1>1, <2>3
  <2>6. x = [y EXCEPT !.valid = TRUE]
    BY <1>1 DEF PosCache
  <2>7. [u EXCEPT !.cache[l].pos = p] = v
    BY <2>3
  <2>8. t = [v EXCEPT !.cache[l].valid = TRUE]
    BY <2>2, <2>7
  <2>9. v.cache = d
    BY <2>3
  <2> HIDE DEF v
  <2>10. [v EXCEPT !.cache[l].valid = TRUE]
           = [v EXCEPT !.cache = [d EXCEPT ![l] = [y EXCEPT !.valid = TRUE]]]
    BY <2>5, <2>9
  <2> HIDE DEF t
  <2> QED BY <2>4, <2>5, <2>6, <2>8, <2>10
<1>4. e \in Detail /\ e[Base] = Flat
  BY <1>1, <1>2 DEF Detail
<1> HIDE DEF e, t
<1>5. /\ u \in Stack(n) /\ OnlyStore(s, u) /\ u.cache = s.cache
      /\ u.disp[l] = e /\ \A k \in 1 .. n : k # l => u.disp[k] = s.disp[k]
  BY <1>1, <1>4, WithDisp
<1> HIDE DEF u
<1>6. x \in PosCache /\ x.pos = p /\ x.valid /\ x.base = c.base
  BY <1>1 DEF PosCache
<1> HIDE DEF x
<1>7. w \in Stack(n) /\ OnlyCache(u, w) /\ w.cache[l] = x /\ SameElse(u, w, n, l)
  BY <1>1, <1>5, <1>6, WithCache
<1> HIDE DEF w
<1>8. OnlyStore(s, w) /\ SameElse(s, w, n, l)
  BY <1>5, <1>7 DEF OnlyStore, OnlyCache, SameElse
<1>9. Shaped(w, n)
  BY <1>7, <1>8, ShapedLike DEF OnlyStore
<1>10. w.disp = u.disp
  BY <1>7 DEF OnlyCache
<1> QED BY <1>3, <1>4, <1>5, <1>6, <1>7, <1>8, <1>9, <1>10 DEF c, t

LEMMA CapturedGood ==
  ASSUME NEW n, NEW s, Good(s, n, {}), NEW l \in 1 .. n, Mixed(s.on) = {Base},
         l > 1 => s.cache[l - 1].valid
  PROVE  LET t == CapturedOnto(s, l)
         IN  Good(t, n, {}) /\ Frame(s, t)
<1> DEFINE p == Stencil[Below(s, l)]
           a == l - 1
           D == {}
           u == DropDomains(s, a)
           w == Laid(u, l, p)
           x == SetMesh(w, l, p)
           t == InvalidateAbove(x, l)
<1>1. /\ Shaped(s, n) /\ n \in Nat /\ l \in 0 .. n /\ a \in 0 .. n /\ a \in Int /\ a = l - 1
      /\ l > 1 => a \in 1 .. n /\ a # l
      /\ Good(s, n, D)
  BY ShapedFacts DEF Good, UpTo
<1>2. CapturedOnto(s, l) = t
  BY DEF CapturedOnto, Captured, Laid
<1>3. p = Under(s, l) /\ p \in Pos
  <2>1. l > 1 => s.cache[l - 1].pos = Surf(s, l - 1)
    BY <1>1, GoodFacts
  <2>2. p = Under(s, l)
    BY <1>1, <2>1, BelowSurf
  <2> HIDE DEF p
  <2> QED BY <1>1, <2>2, ShapedFacts
<1> HIDE DEF p, a, D, t
<1>4. /\ Shaped(u, n) /\ Frame(s, u) /\ u.disp = s.disp /\ u.cache = s.cache
      /\ u.slots = s.slots /\ u.debt = s.debt /\ u.stale = s.stale
      /\ \A k \in 1 .. n : u.domains[k] = IF k > a THEN "none" ELSE s.domains[k]
  BY <1>1, Dropping
<1>5. UpTo(u, n, a, D)
  <2>1. UpTo(s, n, a, D)
    BY <1>1, Lower
  <2> QED BY <1>1, <2>1, DroppingUpTo
<1> HIDE DEF u
<1>6. /\ Shaped(w, n) /\ OnlyStore(u, w) /\ SameElse(u, w, n, l)
      /\ \A k \in 1 .. n : k # l => w.disp[k] = u.disp[k]
      /\ w.disp[l][Base] = Flat /\ w.disp[l] \in Detail
      /\ w.cache[l].pos = p /\ w.cache[l].valid /\ w.cache[l].base = u.cache[l].base
  BY <1>3, <1>4, Laying
<1> HIDE DEF w
<1>7. /\ x \in Stack(n) /\ OnlySlots(w, x) /\ Distinct(x.slots)
      /\ Len(x.slots) = Len(w.slots)
      /\ \A k : Resident(x, k) <=> Resident(w, k)
      /\ \A k : Resident(w, k) => SlotMesh(x, k) = IF k = l THEN p ELSE SlotMesh(w, k)
  <2>1. w \in Stack(n) /\ Distinct(w.slots)
    BY <1>6, ShapedFacts
  <2> QED BY <1>1, <1>3, <2>1, SetMeshSlots
<1> HIDE DEF x
<1>8. Shaped(x, n)
  BY <1>6, <1>7 DEF Shaped, OnlySlots
<1>9. /\ x.on = s.on /\ x.target = s.target /\ x.active = s.active /\ x.stale = s.stale
      /\ x.domains = u.domains /\ x.disp = w.disp /\ x.cache = w.cache
      /\ \A k : Resident(x, k) <=> Resident(s, k)
      /\ \A k : Resident(s, k) => SlotMesh(x, k) = IF k = l THEN p ELSE SlotMesh(s, k)
  <2>1. w.slots = s.slots
    BY <1>4, <1>6 DEF OnlyStore
  <2>2. \A k : (Resident(w, k) <=> Resident(s, k)) /\ SlotMesh(w, k) = SlotMesh(s, k)
    BY <2>1, SlotsSame
  <2> QED BY <1>4, <1>6, <1>7, <2>2 DEF OnlyStore, OnlySlots, Frame
<1>10. UpTo(x, n, a, D)
  <2>1. \A k \in 1 .. a : k \in 1 .. n /\ k # l
    BY <1>1
  <2>2. \A k \in 1 .. a : Agrees(u, x, k)
    <3>1. \A k : Resident(u, k) <=> Resident(s, k)
      BY <1>4, SlotsSame
    <3>2. \A k : SlotMesh(u, k) = SlotMesh(s, k)
      BY <1>4, SlotsSame
    <3> QED BY <1>4, <1>6, <1>9, <2>1, <3>1, <3>2 DEF Agrees, SameElse
  <2>3. x.on = u.on
    BY <1>4, <1>9 DEF Frame
  <2> QED BY <1>1, <1>5, <1>8, <2>2, <2>3, Agreeing
<1>11. Under(x, l) = p /\ Surf(x, l) = p
  <2>1. \A k \in 1 .. n : k # l => x.disp[k] = s.disp[k]
    BY <1>4, <1>6, <1>9
  <2>2. \A k \in 1 .. a : x.disp[k] = s.disp[k]
    BY <1>1, <2>1
  <2>3. Surf(x, a) = Surf(s, a)
    BY <1>1, <1>9, <2>2, SurfSame
  <2>4. Under(x, l) = p
    BY <1>1, <1>3, <2>3 DEF Under
  <2>5. Surf(x, l) = Plus(Under(x, l), Total(x.disp[l], Mixed(x.on)))
    BY <1>8, ShapedFacts
  <2>6. \A c \in Mixed(x.on) : x.disp[l][c] = Flat
    BY <1>6, <1>9
  <2>7. Plus(p, Total(x.disp[l], Mixed(x.on))) = p
    <3> DEFINE d == x.disp[l]
               o == x.on
    <3>1. d \in Detail /\ \A c \in Mixed(o) : d[c] = Flat
      BY <1>6, <1>9, <2>6
    <3> HIDE DEF d, o
    <3>2. Plus(p, Total(d, Mixed(o))) = p
      BY <1>3, <3>1, PlusFlat
    <3> QED BY <3>2 DEF d, o
  <2> QED BY <2>4, <2>5, <2>7
<1>12. Orderly(x, l, D)
  <2>1. x.cache[l].valid /\ x.cache[l].pos = p
    BY <1>6, <1>9
  <2>2. l > 1 => x.cache[l - 1].valid
    BY <1>1, <1>4, <1>6, <1>9 DEF SameElse
  <2>3. x.cache[l].base # NoBase => x.cache[l].base = p
    <3>1. x.cache[l].base = s.cache[l].base
      BY <1>4, <1>6, <1>9
    <3>2. Held(s, l)
      BY <1>1 DEF Good, UpTo, Orderly
    <3> QED BY <1>3, <3>1, <3>2 DEF Held
  <2>4. Held(x, l)
    BY <1>11, <2>1, <2>2, <2>3 DEF Held
  <2>5. Pins(x, l)
    <3>1. l > a
      BY <1>1
    <3> QED BY <1>4, <1>9, <2>1, <3>1 DEF Pins
  <2>6. Showing(x, l, D)
    BY <1>1, <1>9, <1>11, GoodFacts DEF Showing
  <2> QED BY <2>4, <2>5, <2>6 DEF Orderly
<1>13. UpTo(x, n, l, D)
  <2>1. \A k \in 1 .. l : k = l \/ k \in 1 .. a
    BY <1>1
  <2> QED BY <1>8, <1>10, <1>12, <2>1 DEF UpTo
<1>14. Good(t, n, D) /\ Frame(x, t)
  BY <1>1, <1>13, Invalidating DEF t
<1>15. Frame(s, x)
  <2>1. \A k \in 1 .. n : x.domains[k] = "bound" => k <= a /\ s.domains[k] = "bound"
    <3>1. ASSUME NEW k \in 1 .. n, x.domains[k] = "bound" PROVE k <= a /\ s.domains[k] = "bound"
      <4>1. x.domains[k] = IF k > a THEN "none" ELSE s.domains[k]
        BY <1>4, <1>9
      <4>2. ~(k > a)
        BY <3>1, <4>1
      <4> QED BY <1>1, <3>1, <4>1, <4>2
    <3> QED BY <3>1
  <2>2. \A k \in 1 .. n : k <= a => x.disp[k] = s.disp[k]
    <3>1. \A k \in 1 .. n : k <= a => k # l
      BY <1>1
    <3> QED BY <1>4, <1>6, <1>9, <3>1
  <2>3. LowFrame(s, x, n, a)
    BY <1>1, <2>1, <2>2 DEF LowFrame
  <2> QED BY <1>1, <1>8, <1>9, <2>3, FrameUpTo
<1>16. Frame(s, t)
  BY <1>14, <1>15, FrameTwice
<1> QED BY <1>2, <1>14, <1>16 DEF D

LEMMA CaptureGood ==
  ASSUME NEW n, NEW s, Good(s, n, {}), NEW l \in 1 .. n, Mixed(s.on) = {Base}
  PROVE  LET t == CapturedOnto(IF l = 1 THEN s ELSE EnsureChain(s, l - 1), l)
         IN  Good(t, n, {}) /\ Frame(s, t)
<1> DEFINE a == l - 1
           D == {}
           u == EnsureChain(s, a)
           w == IF l = 1 THEN s ELSE u
           t == CapturedOnto(w, l)
<1>1. n \in Nat /\ Good(s, n, D) /\ (l # 1 => a \in 1 .. n) /\ a = l - 1
  BY ShapedFacts DEF Good, UpTo
<1> HIDE DEF a, D
<1>2. Good(w, n, D) /\ Frame(s, w) /\ (l > 1 => w.cache[a].valid)
  <2>1. CASE l = 1
    BY <1>1, <2>1 DEF Frame, Keeps
  <2>2. CASE l # 1
    <3>1. Good(u, n, D) /\ Frame(s, u) /\ Chained(s, u, n, a)
      BY <1>1, <2>2, ChainGood
    <3>2. a \in 1 .. a
      BY <1>1, <2>2
    <3> HIDE DEF u
    <3> QED BY <2>2, <3>1, <3>2 DEF Chained
  <2> QED BY <2>1, <2>2
<1> HIDE DEF w
<1>3. Good(w, n, {}) /\ Mixed(w.on) = {Base} /\ (l > 1 => w.cache[l - 1].valid)
  BY <1>1, <1>2 DEF D, Frame
<1>4. Good(t, n, {}) /\ Frame(w, t)
  BY <1>3, CapturedGood
<1> HIDE DEF t
<1>5. Frame(s, t)
  BY <1>2, <1>4, FrameTwice
<1> QED BY <1>4, <1>5 DEF t, w, u, a

Sized(s, m) ==
  [s EXCEPT !.disp = Resize(@, m, Plain), !.cache = Resize(@, m, Dropped),
            !.domains = Resize(@, m, "none"), !.debt = @ \cap 1 .. m, !.active = 0]

LEMMA ResizedShape ==
  ASSUME NEW n, NEW s, Shaped(s, n), NEW m \in 1 .. MaxLevels, \A k : Resident(s, k) => k \in 1 .. m
  PROVE  LET t == Sized(s, m)
         IN  /\ t \in Stack(m) /\ Shaped(t, m) /\ t.on = s.on /\ t.slots = s.slots
             /\ t.stale = s.stale /\ t.active = 0
             /\ \A k \in 1 .. m : /\ k <= n => /\ t.disp[k] = s.disp[k] /\ t.cache[k] = s.cache[k]
                                               /\ t.domains[k] = s.domains[k]
                                  /\ k > n => t.cache[k] = Dropped /\ t.domains[k] = "none"
<1> DEFINE d == Resize(s.disp, m, Plain)
           c == Resize(s.cache, m, Dropped)
           o == Resize(s.domains, m, "none")
           b == s.debt \cap 1 .. m
           t == [s EXCEPT !.disp = d, !.cache = c, !.domains = o, !.debt = b, !.active = 0]
<1>1. /\ n \in Nat /\ s \in Stack(n) /\ m \in Nat
      /\ s.disp \in [1 .. n -> Detail] /\ s.cache \in [1 .. n -> PosCache]
      /\ s.domains \in [1 .. n -> Kinds] /\ s.debt \in SUBSET (2 .. n)
  BY ShapedFacts, StackFields, StackAssumption
<1>2. Sized(s, m) = t
  BY DEF Sized
<1>3. /\ d \in [1 .. m -> Detail] /\ c \in [1 .. m -> PosCache] /\ o \in [1 .. m -> Kinds]
      /\ b \in SUBSET (2 .. m)
  <2>1. Plain \in Detail /\ Dropped \in PosCache /\ "none" \in Kinds
    BY ConstantFacts DEF Dropped, PosCache, Kinds
  <2>2. \A k \in 1 .. m : k \in 1 .. n => s.disp[k] \in Detail /\ s.cache[k] \in PosCache /\ s.domains[k] \in Kinds
    BY <1>1
  <2>3. DOMAIN s.disp = 1 .. n /\ DOMAIN s.cache = 1 .. n /\ DOMAIN s.domains = 1 .. n
    BY <1>1
  <2>4. d \in [1 .. m -> Detail]
    BY <2>1, <2>2, <2>3 DEF Resize
  <2>5. c \in [1 .. m -> PosCache]
    BY <2>1, <2>2, <2>3 DEF Resize
  <2>6. o \in [1 .. m -> Kinds]
    BY <2>1, <2>2, <2>3 DEF Resize
  <2>7. b \in SUBSET (2 .. m)
    BY <1>1
  <2> QED BY <2>4, <2>5, <2>6, <2>7
<1>4. \A k \in 1 .. m : /\ k <= n => d[k] = s.disp[k] /\ c[k] = s.cache[k] /\ o[k] = s.domains[k]
                        /\ k > n => c[k] = Dropped /\ o[k] = "none"
  <2>1. DOMAIN s.disp = 1 .. n /\ DOMAIN s.cache = 1 .. n /\ DOMAIN s.domains = 1 .. n
    BY <1>1
  <2>2. \A k \in 1 .. m : (k <= n <=> k \in 1 .. n) /\ (k > n <=> k \notin 1 .. n)
    BY <1>1
  <2> QED BY <2>1, <2>2 DEF Resize
<1> HIDE DEF d, c, o, b
<1>5. /\ t \in Stack(m) /\ t.disp = d /\ t.cache = c /\ t.domains = o /\ t.on = s.on
      /\ t.slots = s.slots /\ t.stale = s.stale /\ t.active = 0 /\ t.target = s.target
  <2>1. 0 \in 0 .. m
    BY <1>1
  <2> QED BY <1>1, <1>3, <2>1 DEF Stack
<1> HIDE DEF t
<1>6. Shaped(t, m)
  <2>1. \A k : Resident(t, k) <=> Resident(s, k)
    BY <1>5, SlotsSame
  <2>2. Distinct(s.slots) /\ Len(s.slots) <= Room /\ s.target \in Mixed(s.on)
    BY ShapedFacts
  <2> QED BY <1>5, <2>1, <2>2 DEF Shaped
<1> QED BY <1>2, <1>4, <1>5, <1>6

\* The object with m levels.
LEMMA SizedGood ==
  ASSUME NEW n, NEW s, Good(s, n, {}), NEW m \in 1 .. MaxLevels,
         \A k : Resident(s, k) => k \in 1 .. m, \A k \in 1 .. n : s.domains[k] = "none"
  PROVE  Good(Sized(s, m), m, {}) /\ Unbound(Sized(s, m)) /\ Sized(s, m).active = 0
<1> DEFINE D == {}
           u == Sized(s, m)
<1>1. Shaped(s, n) /\ n \in Nat /\ m \in Nat /\ Good(s, n, D)
  BY ShapedFacts, StackAssumption DEF Good, UpTo
<1>2. /\ u \in Stack(m) /\ Shaped(u, m) /\ u.on = s.on /\ u.slots = s.slots
      /\ u.stale = s.stale /\ u.active = 0
      /\ \A k \in 1 .. m : /\ k <= n => /\ u.disp[k] = s.disp[k] /\ u.cache[k] = s.cache[k]
                                        /\ u.domains[k] = s.domains[k]
                           /\ k > n => u.cache[k] = Dropped /\ u.domains[k] = "none"
  BY <1>1, ResizedShape
<1> HIDE DEF u
<1>3. \A k : (Resident(u, k) <=> Resident(s, k)) /\ SlotMesh(u, k) = SlotMesh(s, k)
  BY <1>2, SlotsSame
<1>4. ASSUME NEW k \in 1 .. m PROVE Orderly(u, k, {})
  <2>1. CASE k <= n
    <3>1. k \in 1 .. n /\ k \in 0 .. n /\ k - 1 \in 0 .. n /\ k - 1 \in Int
          /\ \A j \in 1 .. k : j \in 1 .. m /\ j <= n
      BY <1>1, <2>1
    <3>2. \A j \in 1 .. k : u.disp[j] = s.disp[j] /\ u.cache[j] = s.cache[j]
      BY <1>2, <3>1
    <3>3. Surf(u, k) = Surf(s, k)
      BY <1>1, <1>2, <3>1, <3>2, SurfSame
    <3>4. Under(u, k) = Under(s, k)
      <4> DEFINE a == k - 1
      <4>1. a \in 0 .. n /\ \A j \in 1 .. a : u.disp[j] = s.disp[j]
        BY <3>1, <3>2
      <4> HIDE DEF a
      <4>2. Surf(u, a) = Surf(s, a)
        BY <1>1, <1>2, <4>1, SurfSame
      <4> QED BY <4>2 DEF Under, a
    <3>5. Orderly(s, k, {})
      BY <3>1 DEF Good, UpTo
    <3>6. u.cache[k] = s.cache[k] /\ (k > 1 => u.cache[k - 1] = s.cache[k - 1])
          /\ u.domains[k] = s.domains[k]
      BY <1>2, <2>1, <3>1, <3>2
    <3>7. Held(u, k)
      BY <3>3, <3>4, <3>5, <3>6 DEF Orderly, Held
    <3>8. Pins(u, k)
      BY <1>2, <1>3, <3>5, <3>6 DEF Orderly, Pins
    <3>9. Showing(u, k, {})
      BY <1>2, <1>3, <3>3, <3>5 DEF Orderly, Showing
    <3> QED BY <3>7, <3>8, <3>9 DEF Orderly
  <2>2. CASE k > n
    <3>1. k \notin 1 .. n
      BY <1>1, <2>2
    <3>2. ~Resident(s, k)
      BY <1>1, <3>1, ShapedFacts
    <3>3. ~Resident(u, k) /\ u.cache[k] = Dropped /\ u.domains[k] = "none"
      BY <1>2, <1>3, <2>2, <3>2
    <3> QED BY <3>3 DEF Orderly, Held, Pins, Showing, Dropped
  <2> QED BY <1>1, <2>1, <2>2
<1>5. Good(u, m, D)
  BY <1>2, <1>4 DEF Good, UpTo, D
<1>6. Unbound(u)
  <2>1. DOMAIN u.domains = 1 .. m
    BY <1>1, <1>2, StackFields
  <2>2. \A k \in 1 .. m : u.domains[k] = "none"
    <3> TAKE k \in 1 .. m
    <3>1. k <= n => k \in 1 .. n
      BY <1>1
    <3>2. k <= n \/ k > n
      BY <1>1
    <3> QED BY <1>2, <3>1, <3>2
  <2> QED BY <2>1, <2>2 DEF Unbound, BoundAt
<1> QED BY <1>2, <1>5, <1>6 DEF u, D

\* The same, of which a level becomes the active one.
LEMMA ResizedGood ==
  ASSUME NEW n, NEW s, Good(s, n, {}), NEW m \in 1 .. MaxLevels,
         \A k : Resident(s, k) => k \in 1 .. m, \A k \in 1 .. n : s.domains[k] = "none",
         NEW to \in 1 .. m
  PROVE  LET t == Resized(s, m, to)
         IN  Good(t, m, {}) /\ Unbound(t) /\ t.active = to
<1> DEFINE D == {}
           yes == TRUE
           u == Sized(s, m)
           E == IF u.active = to THEN D ELSE D \ {u.active}
           t == SetActive(u, to, yes, yes)
<1>1. Resized(s, m, to) = t
  BY DEF Resized, Sized
<1> HIDE DEF t, yes
<1>2. Good(u, m, D) /\ Unbound(u)
  <2> HIDE DEF u
  <2> QED BY SizedGood DEF u
<1> HIDE DEF u
<1>3. Good(t, m, E) /\ FrameTo(u, t, to)
  <2>1. yes \in BOOLEAN
    BY DEF yes
  <2> HIDE DEF D
  <2> QED BY <1>2, <2>1, SetActiveGood DEF t
<1>4. E = {}
  OBVIOUS
<1> HIDE DEF E
<1>5. Unbound(t)
  BY <1>2, <1>3 DEF Unbound, FrameTo, Keeps
<1> QED BY <1>1, <1>3, <1>4, <1>5 DEF FrameTo

-----------------------------------------------------------------------------
(* Levels added and removed, the store restored, a session attached.       *)

\* At most the slot of the active level holds an edit.
OnlyActive(s, D) == \A k : k \in D => k = s.active

\* The edit is folded and every domain goes.
LEMMA FoldedBare ==
  ASSUME NEW n, NEW s, NEW D, Good(s, n, D), OnlyActive(s, D)
  PROVE  LET t == DropDomains(Writeback(s, s.active), 0)
         IN  /\ Good(t, n, {}) /\ Frame(s, t) /\ Depth(t) = n
             /\ \A k \in 1 .. n : t.domains[k] = "none"
<1> DEFINE a == 0
           E == D \ {s.active}
           u == Writeback(s, s.active)
           t == DropDomains(u, a)
<1>1. E = {}
  BY DEF OnlyActive
<1>2. Good(u, n, E) /\ Frame(s, u)
  BY WritebackActive
<1> HIDE DEF u, E, t
<1>3. UpTo(u, n, n, {}) /\ Shaped(u, n)
  BY <1>1, <1>2 DEF Good, UpTo
<1>4. n \in Nat /\ n \in 0 .. n /\ a \in Int
  BY <1>3, ShapedFacts
<1>5. UpTo(t, n, n, {})
  <2> DEFINE F == {}
  <2>1. UpTo(u, n, n, F)
    BY <1>3
  <2> HIDE DEF F, a
  <2>2. UpTo(t, n, n, F)
    BY <1>4, <2>1, DroppingUpTo DEF t
  <2> QED BY <2>2 DEF F
<1>6. /\ Frame(u, t)
      /\ \A k \in 1 .. n : t.domains[k] = IF k > a THEN "none" ELSE u.domains[k]
  <2> HIDE DEF a
  <2> QED BY <1>3, <1>4, Dropping DEF t
<1>7. Frame(s, t)
  BY <1>2, <1>6, FrameTwice
<1>8. Depth(t) = n
  BY <1>4, <1>5, ShapedFacts, StackFields DEF UpTo
<1>9. \A k \in 1 .. n : t.domains[k] = "none"
  BY <1>6
<1> QED BY <1>5, <1>7, <1>8, <1>9 DEF Good, t, u

LEMMA AddGood ==
  ASSUME NEW n, NEW s, NEW D, Good(s, n, D), OnlyActive(s, D), n < MaxLevels
  PROVE  LET t == Resized(DropDomains(Writeback(s, s.active), 0), n + 1, n + 1)
         IN  Good(t, n + 1, {}) /\ Unbound(t) /\ n + 1 \in 1 .. MaxLevels
<1> DEFINE m == n + 1
           u == DropDomains(Writeback(s, s.active), 0)
           t == Resized(u, m, m)
<1>1. n \in Nat /\ m \in 1 .. MaxLevels /\ m \in 1 .. m
  <2>1. n \in Nat /\ n \in 1 .. MaxLevels
    BY ShapedFacts DEF Good, UpTo
  <2> QED BY <2>1, StackAssumption
<1>2. Good(u, n, {}) /\ \A k \in 1 .. n : u.domains[k] = "none"
  BY FoldedBare
<1> HIDE DEF u
<1>3. \A k : Resident(u, k) => k \in 1 .. m
  <2>1. \A k : Resident(u, k) => k \in 1 .. n
    BY <1>2, ShapedFacts DEF Good, UpTo
  <2>2. \A k \in 1 .. n : k \in 1 .. m
    BY <1>1
  <2> QED BY <2>1, <2>2
<1> HIDE DEF m
<1>4. Good(t, m, {}) /\ Unbound(t)
  BY <1>1, <1>2, <1>3, ResizedGood
<1> QED BY <1>1, <1>4 DEF m, t, u

LEMMA RemoveGood ==
  ASSUME NEW n, NEW s, NEW D, Good(s, n, D), OnlyActive(s, D), n > 1, NEW to \in 1 .. n - 1
  PROVE  LET t == Resized(Evicted(DropDomains(Writeback(s, s.active), 0), {n}), n - 1, to)
         IN  Good(t, n - 1, {}) /\ Unbound(t) /\ n - 1 \in 1 .. MaxLevels
<1> DEFINE m == n - 1
           F == {}
           u == DropDomains(Writeback(s, s.active), 0)
           w == Evicted(u, {n})
           t == Resized(w, m, to)
<1>1. n \in Nat /\ m \in 1 .. MaxLevels /\ to \in 1 .. m
  <2>1. n \in Nat /\ n \in 1 .. MaxLevels
    BY ShapedFacts DEF Good, UpTo
  <2> QED BY <2>1, StackAssumption
<1>2. Good(u, n, F) /\ \A k \in 1 .. n : u.domains[k] = "none"
  BY FoldedBare
<1> HIDE DEF u
<1>3. Good(w, n, F)
  <2> DEFINE G == F \union {n}
  <2>1. \A k \in 1 .. n : k \in F => k \in G
    OBVIOUS
  <2> HIDE DEF F
  <2>2. Good(u, n, G)
    <3> HIDE DEF G
    <3>1. UpTo(u, n, n, G)
      BY <1>2, <2>1, MoreHidden DEF Good
    <3> QED BY <3>1 DEF Good
  <2> QED BY <2>2, EvictingOne
<1>4. \A k : Resident(w, k) => k \in 1 .. m
  <2>1. Shaped(u, n)
    BY <1>2 DEF Good, UpTo
  <2>2. \A k : Resident(w, k) <=> Resident(u, k) /\ k \notin {n}
    BY <2>1, Evicting
  <2>3. \A k : Resident(u, k) => k \in 1 .. n
    BY <2>1, ShapedFacts
  <2>4. \A k \in 1 .. n : k \notin {n} => k \in 1 .. m
    BY <1>1
  <2> HIDE DEF w
  <2> QED BY <2>2, <2>3, <2>4
<1>5. \A k \in 1 .. n : w.domains[k] = "none"
  <2>1. OnlySlots(u, w)
    BY <1>2, Evicting DEF Good, UpTo
  <2> QED BY <1>2, <2>1 DEF OnlySlots
<1> HIDE DEF m, w
<1>6. Good(w, n, {})
  BY <1>3
<1>7. Good(t, m, {}) /\ Unbound(t)
  BY <1>1, <1>4, <1>5, <1>6, ResizedGood
<1> QED BY <1>1, <1>7 DEF m, t, w, u

\* The store is replaced; nothing derived from the old one is kept.
LEMMA RestoreGood ==
  ASSUME NEW n, NEW s, NEW D, Good(s, n, D), NEW d \in [1 .. n -> Detail],
         NEW b \in SUBSET (2 .. n)
  PROVE  LET t == [InvalidateAbove([s EXCEPT !.disp = d], 0) EXCEPT !.active = 0, !.debt = b]
         IN  Good(t, n, {}) /\ Unbound(t)
<1> DEFINE a == 0
           F == {}
           u == [s EXCEPT !.disp = d]
           w == InvalidateAbove(u, a)
           x == [w EXCEPT !.active = a, !.debt = b]
<1>1. Shaped(s, n) /\ n \in Nat /\ s \in Stack(n) /\ a \in 0 .. n /\ a = 0
  BY ShapedFacts DEF Good, UpTo
<1> HIDE DEF a
<1>2. u \in Stack(n) /\ u.slots = s.slots /\ u.on = s.on /\ u.target = s.target
  BY <1>1 DEF Stack
<1> HIDE DEF u, F
<1>3. Shaped(u, n)
  BY <1>1, <1>2, ShapedLike
<1>4. UpTo(u, n, a, F)
  BY <1>1, <1>3 DEF UpTo
<1>5. /\ Good(w, n, F) /\ Frame(u, w)
      /\ \A k \in 1 .. n : k > a => w.domains[k] = "none"
  BY <1>1, <1>4, Invalidating
<1> HIDE DEF w
<1>6. Shaped(w, n) /\ w \in Stack(n) /\ DOMAIN w.domains = 1 .. n
  <2>1. Shaped(w, n)
    BY <1>5 DEF Good, UpTo
  <2> QED BY <1>1, <2>1, ShapedFacts, StackFields
<1>7. /\ x \in Stack(n) /\ x.disp = w.disp /\ x.cache = w.cache /\ x.slots = w.slots
      /\ x.domains = w.domains /\ x.stale = w.stale /\ x.on = w.on /\ x.target = w.target
  BY <1>1, <1>6 DEF Stack
<1> HIDE DEF x
<1>8. Shaped(x, n)
  BY <1>6, <1>7, ShapedLike
<1>9. \A k \in 1 .. n : Agrees(w, x, k)
  BY <1>7, SlotsSame DEF Agrees
<1>10. Good(x, n, F)
  <2>1. n \in 0 .. n /\ UpTo(w, n, n, F)
    BY <1>1, <1>5 DEF Good
  <2>2. UpTo(x, n, n, F)
    BY <1>7, <1>8, <1>9, <2>1, Agreeing
  <2> QED BY <2>2 DEF Good
<1>11. Unbound(x)
  <2>1. \A k \in 1 .. n : k > a
    BY <1>1
  <2> QED BY <1>5, <1>6, <1>7, <2>1 DEF Unbound, BoundAt
<1> QED BY <1>10, <1>11 DEF x, w, u, a, F

\* The session takes the domain of a level; another it had is let go.
LEMMA AttachedGood ==
  ASSUME NEW n, NEW s, NEW D, Good(s, n, D), NEW l \in 1 .. n, s.domains[l] # "none"
  PROVE  LET t == Attached(s, l)
         IN  /\ Good(t, n, D) /\ t.active = s.active /\ t.disp = s.disp /\ t.on = s.on
             /\ t.cache = s.cache /\ t.domains[l] = "bound"
<1> DEFINE o == [k \in DOMAIN s.domains |->
                   IF k = l THEN "bound" ELSE IF s.domains[k] = "bound" THEN "new" ELSE s.domains[k]]
           t == [s EXCEPT !.domains = o, !.fresh = TRUE]
<1>1. Shaped(s, n) /\ n \in Nat /\ s \in Stack(n) /\ s.domains \in [1 .. n -> Kinds]
  BY ShapedFacts, StackFields DEF Good, UpTo
<1>2. Attached(s, l) = t
  BY DEF Attached
<1>3. o \in [1 .. n -> Kinds] /\ o[l] = "bound" /\ \A k \in 1 .. n : o[k] # "none" => s.domains[k] # "none"
  BY <1>1 DEF Kinds
<1> HIDE DEF o
<1>4. /\ t \in Stack(n) /\ t.disp = s.disp /\ t.cache = s.cache /\ t.slots = s.slots
      /\ t.domains = o /\ t.stale = s.stale /\ t.on = s.on /\ t.target = s.target
      /\ t.active = s.active
  BY <1>1, <1>3 DEF Stack
<1> HIDE DEF t
<1>5. Shaped(t, n)
  BY <1>1, <1>4, ShapedLike
<1>6. \A k \in 1 .. n : Agrees(s, t, k)
  BY <1>3, <1>4, SlotsSame DEF Agrees
<1>7. Good(t, n, D)
  <2>1. n \in 0 .. n /\ UpTo(s, n, n, D)
    BY <1>1 DEF Good
  <2>2. UpTo(t, n, n, D)
    BY <1>4, <1>5, <1>6, <2>1, Agreeing
  <2> QED BY <2>2 DEF Good
<1> QED BY <1>2, <1>3, <1>4, <1>7

-----------------------------------------------------------------------------
(* A stroke.                                                               *)

\* What dropping the levels above a leaves of each part of the object.
LEMMA InvalidatingShape ==
  ASSUME NEW n, NEW s, Shaped(s, n), NEW a \in 0 .. n
  PROVE  LET t == InvalidateAbove(s, a)
         IN  /\ Shaped(t, n) /\ t.disp = s.disp /\ t.on = s.on /\ t.target = s.target
             /\ t.active = s.active /\ t.stale = s.stale
             /\ t.cache = [k \in 1 .. n |-> IF k > a THEN Dropped ELSE s.cache[k]]
             /\ t.domains = [k \in 1 .. n |-> IF k > a THEN "none" ELSE s.domains[k]]
             /\ \A k : Resident(t, k) <=> Resident(s, k) /\ k <= a
             /\ \A k : Resident(t, k) => SlotMesh(t, k) = SlotMesh(s, k)
<1> DEFINE x == DropDomains(s, a)
           c == [k \in DOMAIN x.cache |-> IF k > a THEN Dropped ELSE x.cache[k]]
           y == [x EXCEPT !.cache = c]
           gone == a + 1 .. MaxLevels
           t == Evicted(y, gone)
<1>1. InvalidateAbove(s, a) = t
  BY DEF InvalidateAbove
<1>2. a \in Int /\ n \in Nat
  BY ShapedFacts
<1>3. /\ Shaped(x, n) /\ Frame(s, x) /\ x.disp = s.disp /\ x.cache = s.cache
      /\ x.slots = s.slots /\ x.debt = s.debt /\ x.stale = s.stale
      /\ \A l \in 1 .. n : x.domains[l] = IF l > a THEN "none" ELSE s.domains[l]
  BY <1>2, Dropping
<1> HIDE DEF x
<1>4. /\ x \in Stack(n) /\ x.cache \in [1 .. n -> PosCache] /\ DOMAIN x.cache = 1 .. n
      /\ x.domains \in [1 .. n -> Kinds]
  BY <1>2, <1>3, ShapedFacts, StackFields
<1>5. Dropped \in PosCache
  BY ConstantFacts DEF Dropped, PosCache
<1>6. /\ c \in [1 .. n -> PosCache]
      /\ c = [k \in 1 .. n |-> IF k > a THEN Dropped ELSE s.cache[k]]
  BY <1>3, <1>4, <1>5
<1> HIDE DEF c
<1>7. /\ y \in Stack(n) /\ y.cache = c /\ y.disp = x.disp /\ y.slots = x.slots
      /\ y.domains = x.domains /\ y.debt = x.debt /\ y.stale = x.stale
      /\ y.on = x.on /\ y.target = x.target /\ y.active = x.active
  BY <1>4, <1>6 DEF Stack
<1> HIDE DEF y
<1>8. Shaped(y, n) /\ \A k : k \in gone <=> k \in a + 1 .. MaxLevels
  BY <1>3, <1>7, ShapedLike
<1> HIDE DEF gone
<1>9. /\ Shaped(t, n) /\ Frame(y, t) /\ OnlySlots(y, t)
      /\ \A k : Resident(t, k) <=> Resident(y, k) /\ k \notin gone
      /\ \A k : Resident(t, k) => SlotMesh(t, k) = SlotMesh(y, k)
  BY <1>8, Evicting
<1> HIDE DEF t
<1>10. \A k : Resident(t, k) <=> Resident(s, k) /\ k <= a
  <2>1. \A k : Resident(y, k) <=> Resident(s, k)
    BY <1>3, <1>7, SlotsSame
  <2>2. \A k : Resident(s, k) => (k \notin gone <=> k <= a)
    <3>1. \A k : Resident(s, k) => k \in 1 .. n
      BY <1>2, ShapedFacts
    <3>2. n \in 1 .. MaxLevels /\ MaxLevels \in Nat
      BY <1>2, ShapedFacts, StackAssumption
    <3> QED BY <1>2, <1>8, <3>1, <3>2
  <2> QED BY <1>9, <2>1, <2>2
<1>11. \A k : Resident(t, k) => SlotMesh(t, k) = SlotMesh(s, k)
  BY <1>3, <1>7, <1>9, SlotsSame
<1>12. x.domains = [k \in 1 .. n |-> IF k > a THEN "none" ELSE s.domains[k]]
  BY <1>3, <1>4
<1>13. /\ t.disp = s.disp /\ t.stale = s.stale /\ t.cache = c /\ t.domains = x.domains
       /\ t.on = s.on /\ t.target = s.target /\ t.active = s.active
  BY <1>3, <1>7, <1>9 DEF OnlySlots, Frame
<1> QED BY <1>1, <1>6, <1>9, <1>10, <1>11, <1>12, <1>13

Marked(s, l) == [s EXCEPT !.stale = @ \union {l}]

\* t is s but for its debt and the slot of level l.
SameBut(s, t, n, l) ==
  /\ Shaped(t, n) /\ t.disp = s.disp /\ t.on = s.on /\ t.cache = s.cache
  /\ t.domains = s.domains /\ t.target = s.target /\ t.active = s.active
  /\ \A k : Resident(t, k) <=> Resident(s, k)
  /\ \A k : k # l => (k \in t.stale <=> k \in s.stale)
  /\ \A k : Resident(s, k) /\ k # l => SlotMesh(t, k) = SlotMesh(s, k)

LEMMA SameButTwice ==
  ASSUME NEW n, NEW l, NEW s, NEW t, NEW u, SameBut(s, t, n, l), SameBut(t, u, n, l)
  PROVE  SameBut(s, u, n, l)
BY DEF SameBut

\* To mark the slot of level l and then drop what is above is to drop first.
LEMMA MarkedSame ==
  ASSUME NEW n, NEW s, Shaped(s, n), NEW l \in 1 .. n
  PROVE  LET y == InvalidateAbove(s, l)
             z == InvalidateAbove(Marked(s, l), l)
         IN  SameBut(y, z, n, l) /\ \A k : Resident(z, k) => SlotMesh(z, k) = SlotMesh(s, k)
<1> DEFINE b == s.stale \union {l}
           m == [s EXCEPT !.stale = b]
           y == InvalidateAbove(s, l)
           z == InvalidateAbove(m, l)
<1>1. n \in Nat /\ s \in Stack(n) /\ l \in 0 .. n /\ l \in Nat /\ s.stale \in SUBSET Nat
  BY ShapedFacts, StackFields
<1>2. Marked(s, l) = m
  BY DEF Marked
<1>3. b \in SUBSET Nat /\ \A k : k # l => (k \in b <=> k \in s.stale)
  BY <1>1
<1> HIDE DEF b
<1>4. /\ m \in Stack(n) /\ m.stale = b /\ m.disp = s.disp /\ m.on = s.on /\ m.cache = s.cache
      /\ m.domains = s.domains /\ m.target = s.target /\ m.active = s.active /\ m.slots = s.slots
  BY <1>1, <1>3 DEF Stack
<1> HIDE DEF m
<1>5. Shaped(m, n)
  BY <1>4, ShapedLike
<1>6. /\ Shaped(y, n) /\ y.disp = s.disp /\ y.on = s.on /\ y.target = s.target
      /\ y.active = s.active /\ y.stale = s.stale
      /\ y.cache = [k \in 1 .. n |-> IF k > l THEN Dropped ELSE s.cache[k]]
      /\ y.domains = [k \in 1 .. n |-> IF k > l THEN "none" ELSE s.domains[k]]
      /\ \A k : Resident(y, k) <=> Resident(s, k) /\ k <= l
      /\ \A k : Resident(y, k) => SlotMesh(y, k) = SlotMesh(s, k)
  BY <1>1, InvalidatingShape
<1>7. /\ Shaped(z, n) /\ z.disp = m.disp /\ z.on = m.on /\ z.target = m.target
      /\ z.active = m.active /\ z.stale = m.stale
      /\ z.cache = [k \in 1 .. n |-> IF k > l THEN Dropped ELSE m.cache[k]]
      /\ z.domains = [k \in 1 .. n |-> IF k > l THEN "none" ELSE m.domains[k]]
      /\ \A k : Resident(z, k) <=> Resident(m, k) /\ k <= l
      /\ \A k : Resident(z, k) => SlotMesh(z, k) = SlotMesh(m, k)
  BY <1>1, <1>5, InvalidatingShape
<1> HIDE DEF y, z
<1>8. \A k : (Resident(m, k) <=> Resident(s, k)) /\ SlotMesh(m, k) = SlotMesh(s, k)
  BY <1>4, SlotsSame
<1>9. SameBut(y, z, n, l)
  BY <1>3, <1>4, <1>6, <1>7, <1>8 DEF SameBut
<1> QED BY <1>2, <1>7, <1>8, <1>9 DEF y, z

LEMMA DebtSame ==
  ASSUME NEW n, NEW s, Shaped(s, n), NEW b \in SUBSET (2 .. n), NEW l
  PROVE  LET t == [s EXCEPT !.debt = b]
         IN  SameBut(s, t, n, l) /\ t.slots = s.slots /\ t.stale = s.stale /\ t.debt = b
<1> DEFINE t == [s EXCEPT !.debt = b]
<1>1. s \in Stack(n)
  BY ShapedFacts
<1>2. /\ t \in Stack(n) /\ t.disp = s.disp /\ t.cache = s.cache /\ t.slots = s.slots
      /\ t.domains = s.domains /\ t.stale = s.stale /\ t.debt = b
      /\ t.on = s.on /\ t.target = s.target /\ t.active = s.active
  BY <1>1 DEF Stack
<1> HIDE DEF t
<1>3. Shaped(t, n) /\ \A k : (Resident(t, k) <=> Resident(s, k)) /\ SlotMesh(t, k) = SlotMesh(s, k)
  BY <1>2, ShapedLike, SlotsSame
<1> QED BY <1>2, <1>3 DEF SameBut, t

\* What a copy to the mirror leaves in the slot of level l.
Copied(s, t, l, vs) ==
  IF sess.mirror /\ Resident(s, l)
  THEN /\ l \notin t.stale
       /\ \A v \in Verts : SlotMesh(t, l)[v] = IF v \in vs THEN s.cache[l].pos[v]
                                               ELSE SlotMesh(s, l)[v]
       /\ SlotMesh(t, l) \in Pos
  ELSE t = s

LEMMA MirroredSame ==
  ASSUME NEW n, NEW s, Shaped(s, n), NEW l \in 1 .. n, NEW vs
  PROVE  LET t == IfMirrored(s, l, vs)
         IN  SameBut(s, t, n, l) /\ Copied(s, t, l, vs)
<1> DEFINE q == [v \in Verts |-> IF v \in vs THEN s.cache[l].pos[v] ELSE SlotMesh(s, l)[v]]
           y == s.stale \ {l}
           u == SetMesh(s, l, q)
           w == [u EXCEPT !.stale = y]
           t == IfMirrored(s, l, vs)
<1>1. n \in Nat /\ s \in Stack(n) /\ Distinct(s.slots) /\ s.stale \in SUBSET Nat
      /\ s.cache[l].pos \in Pos
  BY ShapedFacts, StackFields DEF PosCache
<1>2. CASE sess.mirror /\ Resident(s, l)
  <2>1. q \in Pos /\ \A v \in Verts : q[v] = IF v \in vs THEN s.cache[l].pos[v] ELSE SlotMesh(s, l)[v]
    <3>1. SlotMesh(s, l) \in Pos
      BY <1>1, <1>2, SlotOf
    <3> QED BY <1>1, <3>1 DEF Pos
  <2>2. t = [SetMesh(s, l, q) EXCEPT !.stale = @ \ {l}]
    BY <1>2 DEF IfMirrored, Mirrored
  <2> HIDE DEF q, t
  <2>3. /\ u \in Stack(n) /\ OnlySlots(s, u) /\ Distinct(u.slots) /\ Len(u.slots) = Len(s.slots)
        /\ \A k : Resident(u, k) <=> Resident(s, k)
        /\ \A k : Resident(s, k) => SlotMesh(u, k) = IF k = l THEN q ELSE SlotMesh(s, k)
    BY <1>1, <2>1, SetMeshSlots
  <2>4. t = w
    <3>1. u.stale = s.stale
      BY <2>3 DEF OnlySlots
    <3> QED BY <2>2, <3>1
  <2> HIDE DEF u
  <2>5. y \in SUBSET Nat /\ \A k : k \in y <=> k \in s.stale /\ k # l
    BY <1>1
  <2> HIDE DEF y
  <2>6. /\ w \in Stack(n) /\ w.stale = y /\ w.slots = u.slots /\ w.disp = u.disp /\ w.on = u.on
        /\ w.cache = u.cache /\ w.domains = u.domains /\ w.target = u.target
        /\ w.active = u.active
    BY <2>3, <2>5 DEF Stack
  <2> HIDE DEF w
  <2>7. \A k : /\ Resident(w, k) <=> Resident(s, k)
               /\ Resident(s, k) => SlotMesh(w, k) = IF k = l THEN q ELSE SlotMesh(s, k)
    BY <2>3, <2>6, SlotsSame
  <2>8. Shaped(w, n)
    <3>1. /\ n \in 1 .. MaxLevels /\ Len(s.slots) <= Room /\ s.target \in Mixed(s.on)
          /\ \A k : Resident(s, k) => k \in 1 .. n
      BY ShapedFacts
    <3> QED BY <2>3, <2>6, <2>7, <3>1 DEF Shaped, OnlySlots
  <2>9. SameBut(s, w, n, l)
    BY <2>3, <2>5, <2>6, <2>7, <2>8 DEF SameBut, OnlySlots
  <2>10. Copied(s, w, l, vs)
    BY <1>2, <2>1, <2>5, <2>6, <2>7 DEF Copied
  <2> QED BY <2>4, <2>9, <2>10 DEF t
<1>3. CASE ~(sess.mirror /\ Resident(s, l))
  <2>1. t = s
    BY <1>3 DEF IfMirrored, Mirrored
  <2> HIDE DEF t
  <2>2. SameBut(s, s, n, l)
    BY DEF SameBut
  <2> QED BY <1>3, <2>1, <2>2 DEF Copied, t
<1> QED BY <1>2, <1>3

\* A stroke is open on level l: its positions run ahead of the store.
Stroking(s, n, l) ==
  /\ Shaped(s, n) /\ l \in 1 .. n
  /\ \A k \in 1 .. n : k # l => Orderly(s, k, {})
  /\ s.cache[l].valid /\ s.cache[l].base = Under(s, l)
  /\ l > 1 => s.cache[l - 1].valid
  /\ Resident(s, l) /\ l \notin Unmirrored => l \notin s.stale

\* Where nothing was touched, positions and slot show the store.
Strayed(s, l, vs) ==
  /\ vs \in SUBSET Verts
  /\ \A v \in Verts \ vs : s.cache[l].pos[v] = Surf(s, l)[v]
  /\ Resident(s, l) /\ l \notin Unmirrored =>
        \A v \in Verts \ vs : SlotMesh(s, l)[v] = Surf(s, l)[v]

StrokeLike(s, t, n, l) ==
  /\ Shaped(t, n) /\ t.disp = s.disp /\ t.on = s.on /\ t.domains = s.domains
  /\ t.target = s.target /\ t.active = s.active
  /\ SameElse(s, t, n, l) /\ t.cache[l].valid = s.cache[l].valid
  /\ t.cache[l].base = s.cache[l].base
  /\ \A k : Resident(t, k) <=> Resident(s, k)
  /\ \A k : k # l => (k \in t.stale <=> k \in s.stale)
  /\ \A k : Resident(s, k) /\ k # l => SlotMesh(t, k) = SlotMesh(s, k)

LEMMA StillStroking ==
  ASSUME NEW n, NEW l, NEW s, Stroking(s, n, l), NEW t, StrokeLike(s, t, n, l),
         Resident(t, l) /\ l \notin Unmirrored => l \notin t.stale
  PROVE  Stroking(t, n, l) /\ \A k \in 0 .. n : Surf(t, k) = Surf(s, k)
<1>1. Shaped(s, n) /\ Shaped(t, n) /\ n \in Nat /\ l \in 1 .. n /\ l \in Nat
  <2>1. Shaped(s, n) /\ n \in Nat /\ l \in 1 .. n
    BY ShapedFacts DEF Stroking
  <2> QED BY <2>1 DEF StrokeLike
<1>2. \A k \in 0 .. n : Surf(t, k) = Surf(s, k)
  <2> TAKE k \in 0 .. n
  <2>1. \A j \in 1 .. k : t.disp[j] = s.disp[j]
    BY DEF StrokeLike
  <2> QED BY <1>1, <2>1, SurfSame DEF StrokeLike
<1>3. \A k \in 1 .. n : Under(t, k) = Under(s, k)
  <2>1. \A k \in 1 .. n : k - 1 \in 0 .. n
    BY <1>1
  <2> QED BY <1>2, <2>1 DEF Under
<1>4. \A k \in 1 .. n : t.cache[k].valid = s.cache[k].valid
  BY DEF StrokeLike, SameElse
<1>5. ASSUME NEW k \in 1 .. n, k # l PROVE Orderly(t, k, {})
  <2>1. Orderly(s, k, {})
    BY <1>5 DEF Stroking
  <2>2. k > 1 => k - 1 \in 1 .. n
    BY <1>1
  <2>3. k \in 0 .. n /\ t.cache[k] = s.cache[k]
    BY <1>1, <1>5 DEF StrokeLike, SameElse
  <2>4. Held(t, k)
    BY <1>2, <1>3, <1>4, <2>1, <2>2, <2>3 DEF Orderly, Held
  <2>5. Pins(t, k)
    BY <1>5, <2>1, <2>3 DEF Orderly, Pins, StrokeLike
  <2>6. Showing(t, k, {})
    BY <1>2, <1>5, <2>1, <2>3 DEF Orderly, Showing, StrokeLike
  <2> QED BY <2>4, <2>5, <2>6 DEF Orderly
<1>6. t.cache[l].valid /\ t.cache[l].base = Under(t, l) /\ (l > 1 => t.cache[l - 1].valid)
  <2>1. l > 1 => l - 1 \in 1 .. n
    BY <1>1
  <2> QED BY <1>1, <1>3, <1>4, <2>1 DEF Stroking, StrokeLike
<1> QED BY <1>1, <1>2, <1>5, <1>6 DEF Stroking

\* A stroke begins on a level whose domain is there.
LEMMA BegunGood ==
  ASSUME NEW n, NEW s, Good(s, n, {}), NEW l \in 1 .. n, s.domains[l] # "none"
  PROVE  /\ Stroking(s, n, l) /\ s.cache[l].pos = Surf(s, l)
         /\ Resident(s, l) /\ l \notin Unmirrored => SlotMesh(s, l) = Surf(s, l)
<1> DEFINE D == {}
<1>1. Shaped(s, n) /\ n \in Nat /\ \A k \in 1 .. n : Orderly(s, k, D)
  BY ShapedFacts DEF Good, UpTo
<1>2. s.cache[l].valid /\ s.cache[l].base # NoBase
  BY <1>1 DEF Orderly, Pins
<1>3. /\ s.cache[l].pos = Surf(s, l) /\ s.cache[l].base = Under(s, l)
      /\ l > 1 => s.cache[l - 1].valid
  BY <1>1, <1>2 DEF Orderly, Held
<1>4. Resident(s, l) /\ l \notin Unmirrored => l \notin s.stale /\ SlotMesh(s, l) = Surf(s, l)
  BY <1>1 DEF Orderly, Showing
<1> QED BY <1>1, <1>2, <1>3, <1>4 DEF Stroking

\* A stroke that reached nothing leaves the object in order.
LEMMA NothingStroked ==
  ASSUME NEW n, NEW s, NEW l, Stroking(s, n, l), Strayed(s, l, {})
  PROVE  Good(s, n, {})
<1>1. Shaped(s, n) /\ n \in Nat /\ l \in 1 .. n /\ l \in 0 .. n /\ s \in Stack(n)
      /\ Distinct(s.slots)
  BY ShapedFacts DEF Stroking
<1>2. s.cache[l].pos \in Pos /\ Surf(s, l) \in Pos
  BY <1>1, ShapedFacts, StackFields DEF PosCache
<1>3. s.cache[l].pos = Surf(s, l)
  BY <1>2 DEF Strayed, Pos
<1>4. Resident(s, l) /\ l \notin Unmirrored => SlotMesh(s, l) = Surf(s, l)
  <2> HAVE Resident(s, l) /\ l \notin Unmirrored
  <2>1. SlotMesh(s, l) \in Pos
    BY <1>1, SlotOf
  <2> QED BY <1>2, <2>1 DEF Strayed, Pos
<1>5. Orderly(s, l, {})
  <2>1. Under(s, l) # NoBase
    BY <1>1, ShapedFacts
  <2>2. Held(s, l)
    BY <1>3, <2>1 DEF Held, Stroking
  <2>3. Pins(s, l)
    BY <2>1 DEF Pins, Stroking
  <2>4. Showing(s, l, {})
    BY <1>4 DEF Showing, Stroking
  <2> QED BY <2>2, <2>3, <2>4 DEF Orderly
<1> QED BY <1>1, <1>5 DEF Good, UpTo, Stroking

\* The kernel moves the vertices of the chain that differ from p.
LEMMA DabGood ==
  ASSUME NEW n, NEW s, NEW l, Stroking(s, n, l), NEW vs, Strayed(s, l, vs), NEW p \in Pos,
         l \notin Unmirrored => sess.mirror
  PROVE  LET ws == Differing(s, l, p)
             t == IfMirrored([s EXCEPT !.cache[l].pos = p], l, ws)
         IN  /\ Stroking(t, n, l) /\ Strayed(t, l, vs \union ws)
             /\ StrokeLike(s, t, n, l)
<1> DEFINE ws == Differing(s, l, p)
           x == [s EXCEPT !.cache[l].pos = p]
           t == IfMirrored(x, l, ws)
<1>1. Shaped(s, n) /\ n \in Nat /\ l \in 1 .. n /\ l \in 0 .. n /\ l \in Nat
  BY ShapedFacts DEF Stroking
<1>2. /\ x \in Stack(n) /\ Shaped(x, n) /\ OnlyCache(s, x) /\ SameElse(s, x, n, l)
      /\ x.cache[l].pos = p /\ x.cache[l].valid = s.cache[l].valid
      /\ x.cache[l].base = s.cache[l].base /\ x.cache[l].posIsBase = s.cache[l].posIsBase
  BY <1>1, Placing
<1>3. ws \in SUBSET Verts /\ \A v \in Verts \ ws : p[v] = s.cache[l].pos[v]
  BY DEF Differing
<1> HIDE DEF x, ws
<1>4. SameBut(x, t, n, l) /\ Copied(x, t, l, ws)
  BY <1>1, <1>2, MirroredSame
<1> HIDE DEF t
<1>5. \A k : (Resident(x, k) <=> Resident(s, k)) /\ SlotMesh(x, k) = SlotMesh(s, k)
  BY <1>2, SlotsSame DEF OnlyCache
<1>6. StrokeLike(s, t, n, l)
  <2>1. SameElse(s, t, n, l)
    BY <1>2, <1>4 DEF SameElse, SameBut
  <2> QED BY <1>2, <1>4, <1>5, <2>1 DEF StrokeLike, SameBut, OnlyCache
<1>7. Resident(t, l) /\ l \notin Unmirrored =>
        /\ l \notin t.stale
        /\ \A v \in Verts \ (vs \union ws) : SlotMesh(t, l)[v] = Surf(s, l)[v]
  <2> HAVE Resident(t, l) /\ l \notin Unmirrored
  <2>1. sess.mirror /\ Resident(x, l) /\ Resident(s, l) /\ SlotMesh(x, l) = SlotMesh(s, l)
    BY <1>4, <1>5 DEF SameBut
  <2>2. /\ l \notin t.stale
        /\ \A v \in Verts : SlotMesh(t, l)[v] = IF v \in ws THEN x.cache[l].pos[v]
                                                ELSE SlotMesh(s, l)[v]
    BY <1>4, <2>1 DEF Copied
  <2>3. \A v \in Verts \ vs : SlotMesh(s, l)[v] = Surf(s, l)[v]
    BY <2>1 DEF Strayed
  <2> QED BY <2>2, <2>3
<1>8. Stroking(t, n, l) /\ Surf(t, l) = Surf(s, l)
  BY <1>1, <1>6, <1>7, StillStroking
<1>9. \A v \in Verts \ (vs \union ws) : t.cache[l].pos[v] = Surf(t, l)[v]
  BY <1>2, <1>3, <1>4, <1>8 DEF SameBut, Strayed
<1>10. vs \union ws \in SUBSET Verts
  BY <1>3 DEF Strayed
<1>11. Strayed(t, l, vs \union ws)
  BY <1>7, <1>8, <1>9, <1>10 DEF Strayed
<1> QED BY <1>6, <1>8, <1>11 DEF t, x, ws

LEMMA OwingSame ==
  ASSUME NEW n, NEW s, Shaped(s, n), NEW l \in 1 .. n
  PROVE  LET t == Owing(s, l) IN SameBut(s, t, n, l) /\ t.slots = s.slots /\ t.stale = s.stale
<1> DEFINE b == s.debt \union {l}
           u == [s EXCEPT !.debt = b]
<1>1. n \in Nat /\ s.debt \in SUBSET (2 .. n)
  BY ShapedFacts, StackFields
<1>2. CASE l >= 2
  <2>1. Owing(s, l) = u
    BY <1>2 DEF Owing
  <2>2. b \in SUBSET (2 .. n)
    BY <1>1, <1>2
  <2> HIDE DEF b
  <2>3. SameBut(s, u, n, l) /\ u.slots = s.slots /\ u.stale = s.stale
    BY <2>2, DebtSame
  <2> QED BY <2>1, <2>3
<1>3. CASE ~(l >= 2)
  <2>1. Owing(s, l) = s
    BY <1>3 DEF Owing
  <2> QED BY <2>1 DEF SameBut
<1> QED BY <1>2, <1>3

\* The slot of level l is copied, or left alone if nobody relies on it.
LEMMA CopiedGood ==
  ASSUME NEW n, NEW l \in 1 .. n, NEW s, Good(s, n, {l}), s.cache[l].valid, NEW t, SameBut(s, t, n, l),
         Resident(t, l) /\ l \notin Unmirrored => l \notin t.stale /\ SlotMesh(t, l) = Surf(s, l)
  PROVE  Good(t, n, {})
<1> DEFINE D == {l}
           E == {}
<1>1. Good(s, n, D)
  OBVIOUS
<1>2. \A k \in 1 .. n : k # l => k \notin D
  OBVIOUS
<1> HIDE DEF D
<1>3. \A k \in 1 .. n : Resident(t, k) /\ k \notin t.stale => s.cache[k].valid
  BY <1>1, GoodFacts DEF SameBut
<1>4. \A k \in 1 .. n : Resident(t, k) /\ k \notin Unmirrored =>
         k \notin t.stale /\ (k \notin E => SlotMesh(t, k) = Surf(s, k))
  <2> TAKE k \in 1 .. n
  <2>1. CASE k = l
    BY <2>1
  <2>2. CASE k # l
    <3>1. Resident(t, k) => Resident(s, k) /\ SlotMesh(t, k) = SlotMesh(s, k)
      BY <2>2 DEF SameBut
    <3>2. k \in t.stale <=> k \in s.stale
      BY <2>2 DEF SameBut
    <3> QED BY <1>1, <1>2, <2>2, <3>1, <3>2, GoodFacts
  <2> QED BY <2>1, <2>2
<1> HIDE DEF E
<1>5. Good(t, n, E)
  BY <1>1, <1>3, <1>4, SlotsGood DEF SameBut
<1> QED BY <1>5 DEF E

\* The blocks are folded into the store, and the slot is marked or copied.
LEMMA EndedGood ==
  ASSUME NEW n, NEW s, NEW l, Stroking(s, n, l), NEW vs, Strayed(s, l, vs),
         l \notin Unmirrored => sess.mirror
  PROVE  LET t == IfMirrored(FoldStroke(s, l, vs), l, vs)
         IN  /\ Good(t, n, {}) /\ t.active = s.active /\ t.on = s.on
             /\ Under(t, l) = Under(s, l)
             /\ \A x \in Channels \ {s.target} : t.disp[l][x] = s.disp[l][x]
<1> DEFINE c == s.target
           p == s.cache[l].pos
           D == {l}
           u == StoreDisp(s, l, p, vs, c)
           y == InvalidateAbove(u, l)
           z == InvalidateAbove(Marked(u, l), l)
           o == Owing(z, l)
           t == IfMirrored(o, l, vs)
<1>1. /\ Shaped(s, n) /\ n \in Nat /\ l \in 1 .. n /\ l \in 0 .. n /\ l - 1 \in 0 .. n /\ l \in Nat
      /\ p \in Pos /\ Surf(s, l) \in Pos /\ c \in Mixed(s.on) /\ Distinct(s.slots)
      /\ Under(s, l) # NoBase
  <2>1. Shaped(s, n) /\ n \in Nat /\ l \in 1 .. n
    BY ShapedFacts DEF Stroking
  <2>2. l \in 0 .. n
    BY <2>1
  <2>3. s.cache[l] \in PosCache
    BY <2>1, ShapedFacts, StackFields
  <2> QED BY <2>1, <2>2, <2>3, ShapedFacts DEF PosCache
<1>2. FoldStroke(s, l, vs) = o
  BY DEF FoldStroke, Marked
<1>3. vs \in SUBSET Verts /\ \A v \in Verts \ vs : p[v] = Surf(s, l)[v]
  BY DEF Strayed
<1>4. RightBase(s, l)
  BY <1>1 DEF RightBase, Stroking
<1> HIDE DEF c, t, o
<1>5. p = s.cache[l].pos
  OBVIOUS
<1> HIDE DEF p
<1>6. Shaped(u, n) /\ Stored(s, u, n, l, p, c)
  BY <1>1, <1>3, <1>4, Storing
<1> HIDE DEF u
<1>7. UpTo(u, n, l - 1, D)
  <2>1. \A k \in 1 .. l - 1 : k \in 1 .. n /\ k # l
    BY <1>1
  <2>2. UpTo(s, n, l - 1, D)
    BY <1>1, <2>1 DEF UpTo, Stroking, Orderly, Showing
  <2> HIDE DEF D
  <2> QED BY <1>1, <1>6, <2>2, StoredBelow
<1>8. UpTo(u, n, l, D)
  <2>1. u.cache[l].pos = Surf(u, l) /\ u.cache[l].base = Under(u, l) /\ u.cache[l].valid
    BY <1>5, <1>6 DEF Stored, Stroking
  <2>2. l > 1 => u.cache[l - 1].valid
    <3>1. l > 1 => l - 1 \in 1 .. n /\ l - 1 # l
      BY <1>1
    <3> QED BY <1>6, <3>1 DEF Stored, SameElse, Stroking
  <2>3. u.slots = s.slots /\ u.stale = s.stale
    BY <1>6 DEF Stored, OnlyStore
  <2>4. Resident(u, l) /\ l \notin Unmirrored =>
           l \notin u.stale /\ (l \notin D => SlotMesh(u, l) = Surf(u, l))
    BY <2>3, SlotsSame DEF Stroking
  <2> HIDE DEF D
  <2> QED BY <1>1, <1>7, <2>1, <2>2, <2>4, Raise
<1>9. /\ Good(y, n, D) /\ y.disp = u.disp /\ Frame(u, y)
      /\ y.cache[l] = u.cache[l]
  <2>1. l \in 1 .. l
    BY <1>1
  <2> HIDE DEF D
  <2> QED BY <1>1, <1>8, <2>1, Invalidating
<1>10. SameBut(y, z, n, l) /\ \A k : Resident(z, k) => SlotMesh(z, k) = SlotMesh(u, k)
  BY <1>1, <1>6, MarkedSame
<1> HIDE DEF y, z
<1>11. SameBut(z, o, n, l) /\ o.slots = z.slots
  BY <1>1, <1>10, OwingSame DEF SameBut, o
<1>12. SameBut(o, t, n, l) /\ Copied(o, t, l, vs)
  BY <1>1, <1>11, MirroredSame DEF SameBut, t
<1>13. SameBut(y, t, n, l) /\ SameBut(y, o, n, l)
  BY <1>10, <1>11, <1>12, SameButTwice
<1>14. Surf(y, l) = p
  <2>1. y.disp = u.disp /\ y.on = u.on /\ Surf(u, l) = p
    BY <1>6, <1>9 DEF Frame, Stored
  <2> QED BY <2>1 DEF Surf
<1>15. Resident(t, l) /\ l \notin Unmirrored => l \notin t.stale /\ SlotMesh(t, l) = Surf(y, l)
  <2> HAVE Resident(t, l) /\ l \notin Unmirrored
  <2>1. Resident(o, l) /\ Resident(z, l) /\ sess.mirror
    BY <1>11, <1>12 DEF SameBut
  <2>2. SlotMesh(o, l) = SlotMesh(s, l) /\ Resident(s, l)
    <3>1. u.slots = s.slots
      BY <1>6 DEF Stored, OnlyStore
    <3>2. SlotMesh(o, l) = SlotMesh(u, l)
      BY <1>10, <1>11, <2>1, SlotsSame
    <3>3. Resident(u, l)
      <4>1. Resident(y, l)
        BY <1>10, <2>1 DEF SameBut
      <4>2. \A k : Resident(y, k) <=> Resident(u, k) /\ k <= l
        <5> HIDE DEF D
        <5> QED BY <1>1, <1>8, Invalidating DEF y
      <4> QED BY <4>1, <4>2
    <3> QED BY <3>1, <3>2, <3>3, SlotsSame
  <2>3. o.cache[l].pos = p
    BY <1>5, <1>6, <1>9, <1>13 DEF SameBut, Stored
  <2>4. /\ l \notin t.stale /\ SlotMesh(t, l) \in Pos
        /\ \A v \in Verts : SlotMesh(t, l)[v] = IF v \in vs THEN p[v] ELSE SlotMesh(s, l)[v]
    BY <1>12, <2>1, <2>2, <2>3 DEF Copied
  <2>5. \A v \in Verts \ vs : SlotMesh(s, l)[v] = p[v]
    BY <1>3, <2>2 DEF Strayed
  <2>6. \A v \in Verts : SlotMesh(t, l)[v] = p[v]
    BY <2>4, <2>5
  <2>7. SlotMesh(t, l) = p
    BY <1>1, <2>4, <2>6 DEF Pos
  <2> QED BY <1>14, <2>4, <2>7
<1>16. Good(t, n, {})
  <2>1. y.cache[l].valid
    BY <1>6, <1>9 DEF Stored, Stroking
  <2> QED BY <1>1, <1>9, <1>13, <1>15, <2>1, CopiedGood DEF D
<1>17. t.disp = u.disp /\ t.on = s.on /\ t.active = s.active
  BY <1>6, <1>9, <1>13 DEF SameBut, Frame, Stored, OnlyStore
<1>18. Under(t, l) = Under(s, l)
  <2>1. Under(u, l) = Under(s, l) /\ u.on = s.on
    BY <1>6 DEF Stored, OnlyStore
  <2> QED BY <1>17, <2>1 DEF Under, Surf
<1>19. \A x \in Channels \ {s.target} : t.disp[l][x] = s.disp[l][x]
  BY <1>6, <1>17 DEF Stored, c
<1> QED BY <1>2, <1>5, <1>16, <1>17, <1>18, <1>19 DEF t

-----------------------------------------------------------------------------
(* A step swapped with the object.                                         *)

Exchanged(s, l, step) == [s EXCEPT !.cache[l].pos = step.pos, !.disp[l][step.chan] = step.disp]

\* The step's positions are those of the detail e it gives the level.
Consistent(s, l, step, e) ==
  /\ step.pos \in Pos /\ e \in Detail /\ e = [s.disp[l] EXCEPT ![step.chan] = step.disp]
  /\ step.pos = Plus(Under(s, l), Total(e, Mixed(s.on)))

LEMMA Exchanging ==
  ASSUME NEW n, NEW s, Shaped(s, n), NEW l \in 1 .. n, NEW step, NEW e, Consistent(s, l, step, e)
  PROVE  LET t == Exchanged(s, l, step)
         IN  /\ Shaped(t, n) /\ OnlyStore(s, t) /\ SameElse(s, t, n, l)
             /\ \A k \in 1 .. n : k # l => t.disp[k] = s.disp[k]
             /\ t.disp[l] = e
             /\ t.cache[l].pos = step.pos /\ t.cache[l].valid = s.cache[l].valid
             /\ t.cache[l].base = s.cache[l].base
<1> DEFINE p == step.pos
           u == [s EXCEPT !.cache[l].pos = p]
           w == [u EXCEPT !.disp[l] = e]
           t == Exchanged(s, l, step)
<1>1. n \in Nat /\ s \in Stack(n) /\ p \in Pos /\ e \in Detail
  BY ShapedFacts DEF Consistent
<1>2. /\ u \in Stack(n) /\ Shaped(u, n) /\ OnlyCache(s, u) /\ SameElse(s, u, n, l)
      /\ u.cache[l].pos = p /\ u.cache[l].valid = s.cache[l].valid
      /\ u.cache[l].base = s.cache[l].base
  <2> HIDE DEF p
  <2> QED BY <1>1, Placing
<1>3. t = w
  <2>1. t = [u EXCEPT !.disp[l][step.chan] = step.disp]
    BY DEF Exchanged
  <2>2. u.disp = s.disp
    BY <1>2 DEF OnlyCache
  <2> HIDE DEF u, t
  <2>3. [u EXCEPT !.disp[l][step.chan] = step.disp]
          = [u EXCEPT !.disp[l] = [s.disp[l] EXCEPT ![step.chan] = step.disp]]
    BY <2>2
  <2> QED BY <2>1, <2>3 DEF Consistent
<1> HIDE DEF u, t, p
<1>4. /\ w \in Stack(n) /\ OnlyStore(u, w) /\ w.cache = u.cache
      /\ w.disp[l] = e /\ \A k \in 1 .. n : k # l => w.disp[k] = u.disp[k]
  BY <1>1, <1>2, WithDisp
<1> HIDE DEF w
<1>5. OnlyStore(s, w) /\ SameElse(s, w, n, l) /\ \A k \in 1 .. n : k # l => w.disp[k] = s.disp[k]
  BY <1>2, <1>4 DEF OnlyStore, OnlyCache, SameElse
<1>6. Shaped(w, n)
  BY <1>4, <1>5, ShapedLike DEF OnlyStore
<1> QED BY <1>2, <1>3, <1>4, <1>5, <1>6 DEF t, p

LEMMA RedebtedSame ==
  ASSUME NEW n, NEW s, Shaped(s, n), NEW l \in 1 .. n, NEW owing
  PROVE  LET t == Redebted(s, l, owing)
         IN  SameBut(s, t, n, l) /\ t.slots = s.slots /\ t.stale = s.stale
<1> DEFINE b == IF l >= 2 /\ owing THEN s.debt \union {l} ELSE s.debt \ {l}
           u == [s EXCEPT !.debt = b]
<1>1. n \in Nat /\ s.debt \in SUBSET (2 .. n)
  BY ShapedFacts, StackFields
<1>2. Redebted(s, l, owing) = u
  BY DEF Redebted
<1>3. b \in SUBSET (2 .. n)
  <2>1. CASE l >= 2 /\ owing
    BY <1>1, <2>1
  <2>2. CASE ~(l >= 2 /\ owing)
    BY <1>1, <2>2
  <2> QED BY <2>1, <2>2
<1> HIDE DEF b
<1>4. SameBut(s, u, n, l) /\ u.slots = s.slots /\ u.stale = s.stale
  BY <1>3, DebtSame
<1> QED BY <1>2, <1>4

LEMMA SwappedGood ==
  ASSUME NEW n, Good(mr, n, {}), sess.level \in 1 .. n, mr.domains[sess.level] # "none",
         NEW step, NEW owing, NEW e, Consistent(mr, sess.level, step, e),
         sess.level \notin Unmirrored => sess.mirror
  PROVE  LET t == Swapped(step, owing)
             l == sess.level
         IN  /\ Good(t, n, {}) /\ t.active = mr.active /\ t.on = mr.on
             /\ Under(t, l) = Under(mr, l) /\ t.disp[l] = e
<1> DEFINE l == sess.level
           vs == Verts
           D == {l}
           u == Exchanged(mr, l, step)
           y == InvalidateAbove(u, l)
           o == Redebted(y, l, owing)
           t == IfMirrored(o, l, vs)
<1>1. /\ Shaped(mr, n) /\ n \in Nat /\ l \in 1 .. n /\ l \in 0 .. n /\ l - 1 \in 0 .. n /\ l \in Nat
      /\ step.pos \in Pos /\ Under(mr, l) # NoBase
      /\ step.pos = Plus(Under(mr, l), Total(e, Mixed(mr.on)))
  <2>1. Shaped(mr, n) /\ n \in Nat /\ l \in 1 .. n
    BY ShapedFacts DEF Good, UpTo
  <2>2. l \in 0 .. n
    BY <2>1
  <2> QED BY <2>1, <2>2, ShapedFacts DEF Consistent
<1>2. Swapped(step, owing) = t
  BY DEF Swapped, Replaced, Exchanged
<1>3. /\ mr.cache[l].valid /\ mr.cache[l].base = Under(mr, l) /\ mr.domains[l] # "none"
      /\ l > 1 => mr.cache[l - 1].valid
      /\ Resident(mr, l) /\ l \notin Unmirrored => l \notin mr.stale
  <2>1. Orderly(mr, l, {})
    BY <1>1 DEF Good, UpTo
  <2> QED BY <2>1 DEF Orderly, Pins, Held, Showing
<1>4. Consistent(mr, l, step, e) /\ (l \notin Unmirrored => sess.mirror)
  OBVIOUS
<1>5. Good(mr, n, D)
  BY EmptyHidden
<1> HIDE DEF l, t, o
<1>6. /\ Shaped(u, n) /\ OnlyStore(mr, u) /\ SameElse(mr, u, n, l)
      /\ \A k \in 1 .. n : k # l => u.disp[k] = mr.disp[k]
      /\ u.disp[l] = e
      /\ u.cache[l].pos = step.pos /\ u.cache[l].valid = mr.cache[l].valid
      /\ u.cache[l].base = mr.cache[l].base
  BY <1>1, <1>4, Exchanging
<1> HIDE DEF u
<1>7. Under(u, l) = Under(mr, l) /\ Surf(u, l) = step.pos
  <2> DEFINE a == l - 1
  <2>1. a \in 0 .. n /\ \A k \in 1 .. a : k \in 1 .. n /\ k # l
    BY <1>1
  <2>2. u.on = mr.on /\ \A k \in 1 .. a : u.disp[k] = mr.disp[k]
    BY <1>6, <2>1 DEF OnlyStore
  <2> HIDE DEF a
  <2>3. Surf(u, a) = Surf(mr, a)
    BY <1>1, <2>1, <2>2, SurfSame
  <2>4. Under(u, l) = Under(mr, l)
    BY <2>3 DEF Under, a
  <2>5. Surf(u, l) = Plus(Under(u, l), Total(u.disp[l], Mixed(u.on)))
    BY <1>1, <1>6, ShapedFacts
  <2> QED BY <1>1, <1>6, <2>2, <2>4, <2>5
<1>8. UpTo(u, n, l - 1, D)
  <2> DEFINE a == l - 1
  <2>1. a \in 0 .. n /\ \A k \in 1 .. a : k \in 1 .. n /\ k # l
    BY <1>1
  <2>2. u.on = mr.on /\ \A k \in 1 .. a : Agrees(mr, u, k)
    BY <1>6, <2>1, SlotsSame DEF OnlyStore, SameElse, Agrees
  <2>3. UpTo(mr, n, a, D)
    <3> HIDE DEF D
    <3> QED BY <1>5, <2>1, Lower
  <2> HIDE DEF a, D
  <2>4. UpTo(u, n, a, D)
    BY <1>6, <2>1, <2>2, <2>3, Agreeing
  <2> QED BY <2>4 DEF a
<1>9. UpTo(u, n, l, D)
  <2>1. u.cache[l].pos = Surf(u, l) /\ u.cache[l].base = Under(u, l) /\ u.cache[l].valid
    BY <1>3, <1>6, <1>7
  <2>2. l > 1 => u.cache[l - 1].valid
    <3>1. l > 1 => l - 1 \in 1 .. n /\ l - 1 # l
      BY <1>1
    <3> QED BY <1>3, <1>6, <3>1 DEF SameElse
  <2>3. u.slots = mr.slots /\ u.stale = mr.stale
    BY <1>6 DEF OnlyStore
  <2>4. Resident(u, l) /\ l \notin Unmirrored =>
           l \notin u.stale /\ (l \notin D => SlotMesh(u, l) = Surf(u, l))
    BY <1>3, <2>3, SlotsSame
  <2> HIDE DEF D
  <2> QED BY <1>1, <1>8, <2>1, <2>2, <2>4, Raise
<1>10. /\ Good(y, n, D) /\ y.disp = u.disp /\ Frame(u, y) /\ y.cache[l] = u.cache[l]
  <2>1. l \in 1 .. l
    BY <1>1
  <2> HIDE DEF D
  <2> QED BY <1>1, <1>9, <2>1, Invalidating
<1> HIDE DEF y
<1>11. Shaped(y, n)
  BY <1>10 DEF Good, UpTo
<1>12. SameBut(y, o, n, l)
  BY <1>1, <1>11, RedebtedSame DEF o
<1>13. SameBut(o, t, n, l) /\ Copied(o, t, l, vs)
  <2> HIDE DEF vs
  <2> QED BY <1>1, <1>12, MirroredSame DEF SameBut, t
<1>14. SameBut(y, t, n, l)
  BY <1>12, <1>13, SameButTwice
<1>15. Surf(y, l) = step.pos
  <2>1. y.disp = u.disp /\ y.on = u.on
    BY <1>10 DEF Frame
  <2> QED BY <1>7, <2>1 DEF Surf
<1>16. Resident(t, l) /\ l \notin Unmirrored => l \notin t.stale /\ SlotMesh(t, l) = Surf(y, l)
  <2> HAVE Resident(t, l) /\ l \notin Unmirrored
  <2>1. Resident(o, l) /\ sess.mirror
    BY <1>4, <1>13 DEF SameBut
  <2>2. o.cache[l].pos = step.pos
    BY <1>6, <1>10, <1>12 DEF SameBut
  <2>3. /\ l \notin t.stale /\ SlotMesh(t, l) \in Pos
        /\ \A v \in Verts : SlotMesh(t, l)[v] = step.pos[v]
    BY <1>13, <2>1, <2>2 DEF Copied
  <2>4. SlotMesh(t, l) = step.pos
    BY <1>1, <2>3 DEF Pos
  <2> QED BY <1>15, <2>3, <2>4
<1>17. Good(t, n, {})
  <2>1. y.cache[l].valid
    BY <1>3, <1>6, <1>10
  <2> QED BY <1>1, <1>10, <1>14, <1>16, <2>1, CopiedGood DEF D
<1>18. t.disp = u.disp /\ t.on = mr.on /\ t.active = mr.active
  BY <1>6, <1>10, <1>14 DEF SameBut, Frame, OnlyStore
<1>19. Under(t, l) = Under(mr, l)
  <2>1. u.on = mr.on
    BY <1>6 DEF OnlyStore
  <2> QED BY <1>7, <1>18, <2>1 DEF Under, Surf
<1> QED BY <1>2, <1>6, <1>17, <1>18, <1>19 DEF t, l

-----------------------------------------------------------------------------
(* The history of a level.                                                 *)

Step == [pos : Pos, chan : Channels, disp : Pos, pre : BOOLEAN, post : BOOLEAN]

\* The step leads from detail d of level l to e, and back to where e shows.
Leads(s, l, step, d, e) ==
  /\ e = [d EXCEPT ![step.chan] = step.disp]
  /\ step.pos = Plus(Under(s, l), Total(e, Mixed(s.on)))

\* h is the detail of level l before and after every step of the log.
Walk(s, l, p, q, h) ==
  /\ h \in [0 .. Len(p) + Len(q) -> Detail]
  /\ h[Len(p)] = s.disp[l]
  /\ \A i \in 1 .. Len(p) : Leads(s, l, p[i], h[i], h[i - 1])
  /\ \A i \in 1 .. Len(q) : Leads(s, l, q[i], h[Len(p) + i - 1], h[Len(p) + i])
History(s, l, p, q) ==
  /\ p \in Seq(Step) /\ q \in Seq(Step)
  /\ \E h : Walk(s, l, p, q, h)

LEMMA FrontFacts ==
  ASSUME NEW S, NEW p \in Seq(S), p # <<>>
  PROVE  /\ Front(p) \in Seq(S) /\ Len(Front(p)) = Len(p) - 1 /\ Len(p) \in Nat \ {0}
         /\ \A i \in 1 .. Len(p) - 1 : Front(p)[i] = p[i]
         /\ Last(p) \in S /\ Last(p) = p[Len(p)]
<1> DEFINE m == Len(p) - 1
           o == 1
           f == SubSeq(p, o, m)
<1>1. Len(p) \in Nat \ {0}
  BY EmptySeq, LenProperties
<1>2. m \in Int /\ o \in Int /\ o = 1 /\ \A i \in o .. m : p[i] \in S
  BY <1>1
<1>3. Front(p) = f /\ m = Len(p) - 1
  BY DEF Front
<1> HIDE DEF m, o, f
<1>4. /\ f \in Seq(S) /\ Len(f) = IF o <= m THEN m - o + 1 ELSE 0
      /\ \A i \in 1 .. m - o + 1 : f[i] = p[o + i - 1]
  BY <1>2, SubSeqProperties DEF f
<1>5. Len(f) = m /\ \A i \in 1 .. m : f[i] = p[i]
  BY <1>1, <1>2, <1>3, <1>4
<1>6. Last(p) = p[Len(p)] /\ p[Len(p)] \in S
  BY <1>1 DEF Last
<1> QED BY <1>1, <1>3, <1>4, <1>5, <1>6

LEMMA TailFacts ==
  ASSUME NEW S, NEW p \in Seq(S), p # <<>>
  PROVE  /\ Tail(p) \in Seq(S) /\ Len(Tail(p)) = Len(p) - 1 /\ Len(p) \in Nat \ {0}
         /\ \A i \in 1 .. Len(p) - 1 : Tail(p)[i] = p[i + 1]
         /\ Head(p) \in S /\ Head(p) = p[1]
<1>1. Len(p) \in Nat \ {0}
  BY EmptySeq, LenProperties
<1> QED BY <1>1

\* Steps only speak of the level's detail and of the surface under it.
SameLevel(s, t, l) == t.on = s.on /\ Under(t, l) = Under(s, l) /\ t.disp[l] = s.disp[l]

LEMMA HistoryKept ==
  ASSUME NEW s, NEW t, NEW l, NEW p, NEW q, History(s, l, p, q), SameLevel(s, t, l)
  PROVE  History(t, l, p, q)
<1>1. PICK h : Walk(s, l, p, q, h)
  BY DEF History
<1>2. \A x, d, e : Leads(s, l, x, d, e) => Leads(t, l, x, d, e)
  BY DEF Leads, SameLevel
<1>3. Walk(t, l, p, q, h)
  BY <1>1, <1>2 DEF Walk, SameLevel
<1> QED BY <1>3 DEF History

LEMMA KeepsLevel ==
  ASSUME NEW n, NEW s, Shaped(s, n), NEW t, Keeps(s, t), NEW l \in 1 .. n, BoundAt(t, l)
  PROVE  SameLevel(s, t, l)
<1> DEFINE a == l - 1
<1>1. n \in Nat /\ a \in 0 .. n /\ l \in 1 .. l /\ \A k \in 1 .. a : k \in 1 .. l
  BY ShapedFacts
<1>2. t.on = s.on /\ \A k \in 1 .. l : t.disp[k] = s.disp[k]
  BY DEF Keeps
<1> HIDE DEF a
<1>3. Surf(t, a) = Surf(s, a)
  BY <1>1, <1>2, SurfSame
<1> QED BY <1>1, <1>2, <1>3 DEF SameLevel, Under, a

LEMMA NoHistory ==
  ASSUME NEW s, NEW l, s.disp[l] \in Detail
  PROVE  History(s, l, <<>>, <<>>)
<1> DEFINE p == <<>>
           h == [i \in 0 .. 0 |-> s.disp[l]]
<1>1. p \in Seq(Step) /\ Len(p) = 0
  OBVIOUS
<1> HIDE DEF p
<1>2. Len(p) + Len(p) = 0 /\ (\A i : i \notin 1 .. Len(p)) /\ 0 \in 0 .. 0
  BY <1>1
<1>3. h \in [0 .. Len(p) + Len(p) -> Detail] /\ h[Len(p)] = s.disp[l]
  BY <1>1, <1>2
<1> HIDE DEF h
<1>4. Walk(s, l, p, p, h)
  BY <1>2, <1>3 DEF Walk
<1> QED BY <1>1, <1>4 DEF History, p

\* A new stroke drops what was undone.
LEMMA NothingUndone ==
  ASSUME NEW s, NEW l, NEW p, NEW q, History(s, l, p, q)
  PROVE  History(s, l, p, <<>>)
<1> DEFINE r == <<>>
<1>1. PICK h : Walk(s, l, p, q, h)
  BY DEF History
<1> DEFINE g == [i \in 0 .. Len(p) |-> h[i]]
<1>2. /\ p \in Seq(Step) /\ Len(p) \in Nat /\ Len(q) \in Nat
  BY DEF History
<1>3. r \in Seq(Step) /\ Len(r) = 0
  OBVIOUS
<1> HIDE DEF r
<1>4. /\ 0 .. Len(p) \in SUBSET (0 .. Len(p) + Len(q)) /\ Len(p) + Len(r) = Len(p)
      /\ \A i \in 1 .. Len(p) : i \in 0 .. Len(p) /\ i - 1 \in 0 .. Len(p)
      /\ Len(p) \in 0 .. Len(p) /\ \A i : i \notin 1 .. Len(r)
  BY <1>2, <1>3
<1>5. g \in [0 .. Len(p) + Len(r) -> Detail] /\ \A i \in 0 .. Len(p) : g[i] = h[i]
  <2>1. h \in [0 .. Len(p) + Len(q) -> Detail]
    BY <1>1 DEF Walk
  <2>2. \A i \in 0 .. Len(p) : h[i] \in Detail
    BY <1>4, <2>1
  <2> QED BY <1>4, <2>2
<1> HIDE DEF g
<1>6. Walk(s, l, p, r, g)
  <2>1. g[Len(p)] = s.disp[l]
    BY <1>1, <1>4, <1>5 DEF Walk
  <2>2. \A i \in 1 .. Len(p) : Leads(s, l, p[i], g[i], g[i - 1])
    BY <1>1, <1>4, <1>5 DEF Walk
  <2> QED BY <1>4, <1>5, <2>1, <2>2 DEF Walk
<1> QED BY <1>2, <1>3, <1>6 DEF History, r

LEMMA OldestDropped ==
  ASSUME NEW s, NEW l, NEW p, NEW q, History(s, l, p, q), p # <<>>
  PROVE  History(s, l, Tail(p), q)
<1> DEFINE r == Tail(p)
<1>1. PICK h : Walk(s, l, p, q, h)
  BY DEF History
<1> DEFINE m == Len(p) - 1
           g == [i \in 0 .. m + Len(q) |-> h[i + 1]]
<1>2. /\ p \in Seq(Step) /\ q \in Seq(Step) /\ Len(q) \in Nat
  BY DEF History
<1>3. /\ r \in Seq(Step) /\ Len(r) = m /\ Len(p) \in Nat \ {0}
      /\ \A i \in 1 .. m : r[i] = p[i + 1]
  BY <1>2, TailFacts
<1> HIDE DEF r
<1>4. m \in Nat /\ Len(p) = m + 1
  BY <1>3
<1> HIDE DEF m
<1>5. /\ \A i \in 0 .. m + Len(q) : i + 1 \in 0 .. Len(p) + Len(q)
      /\ \A i \in 1 .. m : /\ i \in 0 .. m + Len(q) /\ i - 1 \in 0 .. m + Len(q)
                           /\ i + 1 \in 1 .. Len(p) /\ (i + 1) - 1 = (i - 1) + 1
      /\ m \in 0 .. m + Len(q)
      /\ \A i \in 1 .. Len(q) : /\ m + i \in 0 .. m + Len(q) /\ m + i - 1 \in 0 .. m + Len(q)
                                /\ m + i + 1 = Len(p) + i /\ (m + i - 1) + 1 = Len(p) + i - 1
  BY <1>2, <1>4
<1>6. g \in [0 .. m + Len(q) -> Detail] /\ \A i \in 0 .. m + Len(q) : g[i] = h[i + 1]
  <2>1. h \in [0 .. Len(p) + Len(q) -> Detail]
    BY <1>1 DEF Walk
  <2>2. \A i \in 0 .. m + Len(q) : h[i + 1] \in Detail
    BY <1>5, <2>1
  <2> QED BY <2>2
<1> HIDE DEF g
<1>7. Walk(s, l, r, q, g)
  <2>1. g[m] = s.disp[l]
    BY <1>1, <1>4, <1>5, <1>6 DEF Walk
  <2>2. ASSUME NEW i \in 1 .. m PROVE Leads(s, l, r[i], g[i], g[i - 1])
    <3>1. Leads(s, l, p[i + 1], h[i + 1], h[(i + 1) - 1])
      BY <1>1, <1>5 DEF Walk
    <3>2. r[i] = p[i + 1] /\ g[i] = h[i + 1] /\ g[i - 1] = h[(i + 1) - 1]
      BY <1>3, <1>5, <1>6
    <3> QED BY <3>1, <3>2
  <2>3. ASSUME NEW i \in 1 .. Len(q) PROVE Leads(s, l, q[i], g[m + i - 1], g[m + i])
    <3>1. Leads(s, l, q[i], h[Len(p) + i - 1], h[Len(p) + i])
      BY <1>1 DEF Walk
    <3>2. g[m + i] = h[Len(p) + i] /\ g[m + i - 1] = h[Len(p) + i - 1]
      BY <1>5, <1>6
    <3> QED BY <3>1, <3>2
  <2> QED BY <1>3, <1>6, <2>1, <2>2, <2>3 DEF Walk
<1> QED BY <1>2, <1>3, <1>7 DEF History, r

\* The object gives level l the detail e and leaves what is under it.
Replays(s, t, l, e) == t.on = s.on /\ Under(t, l) = Under(s, l) /\ t.disp[l] = e
\* The step that takes level l back to what it shows now.
Reverses(s, l, o, step) ==
  /\ o \in Step /\ o.chan = step.chan /\ o.disp = s.disp[l][step.chan] /\ o.pos = Surf(s, l)

LEMMA LeadsBack ==
  ASSUME NEW n, NEW s, Shaped(s, n), NEW l \in 1 .. n, NEW step, NEW e \in Detail,
         Leads(s, l, step, s.disp[l], e), NEW t, Replays(s, t, l, e), NEW o, Reverses(s, l, o, step)
  PROVE  Leads(t, l, o, e, s.disp[l])
<1>1. s.disp[l] \in Detail /\ Surf(s, l) = Plus(Under(s, l), Total(s.disp[l], Mixed(s.on)))
  BY ShapedFacts, StackFields
<1> DEFINE d == s.disp[l]
<1>2. o.chan = step.chan /\ o.chan \in Channels /\ o.disp = d[step.chan]
  BY DEF Reverses, Step
<1>3. e = [d EXCEPT ![step.chan] = step.disp]
  BY DEF Leads
<1>4. d \in [Channels -> Pos]
  BY <1>1 DEF Detail
<1> HIDE DEF d
<1>5. [e EXCEPT ![o.chan] = o.disp] = d
  BY <1>2, <1>3, <1>4
<1>6. o.pos = Plus(Under(t, l), Total(d, Mixed(t.on)))
  BY <1>1 DEF Reverses, Replays, d
<1> QED BY <1>5, <1>6 DEF Leads, d

LEMMA LeadsThere ==
  ASSUME NEW s, NEW t, NEW l, NEW e, Replays(s, t, l, e)
  PROVE  \A x, d, f : Leads(s, l, x, d, f) => Leads(t, l, x, d, f)
BY DEF Leads, Replays

\* What undoing the last step does to the level, and to the log.
Undoes(s, l, p, q, e) ==
  /\ Consistent(s, l, Last(p), e) /\ Last(p) \in Step
  /\ \A t, o : Replays(s, t, l, e) /\ Reverses(s, l, o, Last(p))
                 => History(t, l, Front(p), <<o>> \o q)

LEMMA Undoing ==
  ASSUME NEW n, NEW s, Shaped(s, n), NEW l \in 1 .. n, NEW p, NEW q, History(s, l, p, q), p # <<>>
  PROVE  \E e : Undoes(s, l, p, q, e)
<1>1. PICK h : Walk(s, l, p, q, h)
  BY DEF History
<1> DEFINE r == Front(p)
           m == Len(p) - 1
           e == h[m]
<1>2. p \in Seq(Step) /\ q \in Seq(Step) /\ Len(q) \in Nat
  BY DEF History
<1>3. /\ r \in Seq(Step) /\ Len(r) = m /\ Len(p) \in Nat \ {0}
      /\ \A i \in 1 .. m : r[i] = p[i]
      /\ Last(p) \in Step /\ Last(p) = p[Len(p)]
  BY <1>2, FrontFacts
<1> HIDE DEF r
<1>4. m \in Nat /\ Len(p) = m + 1
  BY <1>3
<1> HIDE DEF m
<1>5. h \in [0 .. Len(p) + Len(q) -> Detail]
  BY <1>1 DEF Walk
<1>6. e \in Detail
  <2>1. m \in 0 .. Len(p) + Len(q)
    BY <1>2, <1>4
  <2> QED BY <1>5, <2>1
<1>7. Leads(s, l, Last(p), s.disp[l], e)
  <2>1. Len(p) \in 1 .. Len(p) /\ Len(p) - 1 = m
    BY <1>3, <1>4
  <2> QED BY <1>1, <1>3, <2>1 DEF Walk
<1>8. h[m + 1] = s.disp[l]
  BY <1>1, <1>4 DEF Walk
<1>9. h[m] = e
  OBVIOUS
<1> HIDE DEF e
<1>10. Consistent(s, l, Last(p), e)
  BY <1>3, <1>6, <1>7 DEF Consistent, Leads, Step
<1>11. ASSUME NEW t, NEW o, Replays(s, t, l, e), Reverses(s, l, o, Last(p))
       PROVE  History(t, l, r, <<o>> \o q)
  <2> DEFINE z == <<o>> \o q
  <2>1. /\ z \in Seq(Step) /\ Len(z) = Len(q) + 1 /\ z[1] = o
        /\ \A i \in 1 .. Len(q) : z[i + 1] = q[i]
    <3>1. o \in Step
      BY <1>11 DEF Reverses
    <3> QED BY <1>2, <3>1
  <2> HIDE DEF z
  <2>2. m + Len(z) = Len(p) + Len(q)
    BY <1>2, <1>4, <2>1
  <2>3. \A x, d, f : Leads(s, l, x, d, f) => Leads(t, l, x, d, f)
    BY <1>11, LeadsThere
  <2>4. ASSUME NEW i \in 1 .. m PROVE Leads(t, l, r[i], h[i], h[i - 1])
    <3>1. i \in 1 .. Len(p)
      BY <1>4
    <3> QED BY <1>1, <1>3, <2>3, <3>1 DEF Walk
  <2>5. ASSUME NEW i \in 1 .. Len(z) PROVE Leads(t, l, z[i], h[m + i - 1], h[m + i])
    <3>1. CASE i = 1
      <4>1. m + i - 1 = m /\ m + i = m + 1
        BY <1>4, <3>1
      <4>2. Leads(t, l, o, e, s.disp[l])
        BY <1>6, <1>7, <1>11, LeadsBack
      <4> QED BY <1>8, <1>9, <2>1, <3>1, <4>1, <4>2
    <3>2. CASE i # 1
      <4> DEFINE j == i - 1
      <4>1. j \in 1 .. Len(q) /\ i = j + 1 /\ m + i - 1 = Len(p) + j - 1 /\ m + i = Len(p) + j
        BY <1>2, <1>4, <2>1, <3>2
      <4> HIDE DEF j
      <4>2. Leads(s, l, q[j], h[Len(p) + j - 1], h[Len(p) + j])
        BY <1>1, <4>1 DEF Walk
      <4>3. z[i] = q[j]
        BY <2>1, <4>1
      <4> QED BY <2>3, <4>1, <4>2, <4>3
    <3> QED BY <3>1, <3>2
  <2>6. h[m] = t.disp[l]
    BY <1>9, <1>11 DEF Replays
  <2>7. Walk(t, l, r, z, h)
    BY <1>3, <1>5, <2>2, <2>4, <2>5, <2>6 DEF Walk
  <2> QED BY <1>3, <2>1, <2>7 DEF History, z
<1> QED BY <1>3, <1>10, <1>11 DEF Undoes, r

Redoes(s, l, p, q, e) ==
  /\ Consistent(s, l, Head(q), e) /\ Head(q) \in Step
  /\ \A t, o : Replays(s, t, l, e) /\ Reverses(s, l, o, Head(q))
                 => History(t, l, Append(p, o), Tail(q))

LEMMA Redoing ==
  ASSUME NEW n, NEW s, Shaped(s, n), NEW l \in 1 .. n, NEW p, NEW q, History(s, l, p, q), q # <<>>
  PROVE  \E e : Redoes(s, l, p, q, e)
<1>1. PICK h : Walk(s, l, p, q, h)
  BY DEF History
<1> DEFINE r == Tail(q)
           k == Len(q) - 1
           m == Len(p)
           e == h[m + 1]
<1>2. p \in Seq(Step) /\ q \in Seq(Step) /\ m \in Nat
  BY DEF History
<1>3. /\ r \in Seq(Step) /\ Len(r) = k /\ Len(q) \in Nat \ {0}
      /\ \A i \in 1 .. k : r[i] = q[i + 1]
      /\ Head(q) \in Step /\ Head(q) = q[1]
  BY <1>2, TailFacts
<1>4. k \in Nat /\ Len(q) = k + 1
  BY <1>3
<1>5. /\ h \in [0 .. m + Len(q) -> Detail] /\ h[m] = s.disp[l]
      /\ \A i \in 1 .. m : Leads(s, l, p[i], h[i], h[i - 1])
      /\ \A i \in 1 .. Len(q) : Leads(s, l, q[i], h[m + i - 1], h[m + i])
  BY <1>1 DEF Walk
<1>6. m = Len(p)
  OBVIOUS
<1> HIDE DEF r, k, m
<1>7. e \in Detail
  <2>1. m + 1 \in 0 .. m + Len(q)
    BY <1>2, <1>4
  <2> QED BY <1>5, <2>1
<1>8. Leads(s, l, Head(q), s.disp[l], e)
  <2>1. 1 \in 1 .. Len(q) /\ m + 1 - 1 = m
    BY <1>2, <1>4
  <2> QED BY <1>3, <1>5, <2>1
<1>9. h[m + 1] = e
  OBVIOUS
<1> HIDE DEF e
<1>10. Consistent(s, l, Head(q), e)
  BY <1>3, <1>7, <1>8 DEF Consistent, Leads, Step
<1>11. ASSUME NEW t, NEW o, Replays(s, t, l, e), Reverses(s, l, o, Head(q))
       PROVE  History(t, l, Append(p, o), r)
  <2> DEFINE z == Append(p, o)
  <2>1. /\ z \in Seq(Step) /\ Len(z) = m + 1 /\ z[m + 1] = o
        /\ \A i \in 1 .. m : z[i] = p[i]
    <3>1. o \in Step
      BY <1>11 DEF Reverses
    <3> QED BY <1>2, <1>6, <3>1
  <2> HIDE DEF z
  <2>2. Len(z) + Len(r) = m + Len(q)
    BY <1>2, <1>3, <1>4, <2>1
  <2>3. \A x, d, f : Leads(s, l, x, d, f) => Leads(t, l, x, d, f)
    BY <1>11, LeadsThere
  <2>4. ASSUME NEW i \in 1 .. Len(z) PROVE Leads(t, l, z[i], h[i], h[i - 1])
    <3>1. CASE i = m + 1
      <4>1. i - 1 = m
        BY <1>2, <3>1
      <4>2. Leads(t, l, o, e, s.disp[l])
        BY <1>7, <1>8, <1>11, LeadsBack
      <4> QED BY <1>5, <1>9, <2>1, <3>1, <4>1, <4>2
    <3>2. CASE i # m + 1
      <4>1. i \in 1 .. m
        BY <1>2, <2>1, <3>2
      <4> QED BY <1>5, <2>1, <2>3, <4>1
    <3> QED BY <3>1, <3>2
  <2>5. ASSUME NEW i \in 1 .. Len(r) PROVE Leads(t, l, r[i], h[Len(z) + i - 1], h[Len(z) + i])
    <3> DEFINE j == i + 1
    <3>1. j \in 1 .. Len(q) /\ i \in 1 .. k /\ j = i + 1
          /\ Len(z) + i - 1 = m + j - 1 /\ Len(z) + i = m + j
      BY <1>2, <1>3, <1>4, <2>1
    <3> HIDE DEF j
    <3>2. Leads(s, l, q[j], h[m + j - 1], h[m + j])
      BY <1>5, <3>1
    <3>3. r[i] = q[j]
      BY <1>3, <3>1
    <3> QED BY <2>3, <3>1, <3>2, <3>3
  <2>6. h[Len(z)] = t.disp[l]
    BY <1>9, <1>11, <2>1 DEF Replays
  <2>7. Walk(t, l, z, r, h)
    BY <1>5, <2>2, <2>4, <2>5, <2>6 DEF Walk
  <2> QED BY <1>3, <2>1, <2>7 DEF History, z
<1> QED BY <1>3, <1>10, <1>11 DEF Redoes, r

Noted(p, c, d, b) ==
  [p EXCEPT ![Len(p)].chan = c, ![Len(p)].disp = d, ![Len(p)].post = b]

LEMMA Noting ==
  ASSUME NEW p \in Seq(Step), p # <<>>, NEW c \in Channels, NEW d \in Pos, NEW b \in BOOLEAN
  PROVE  LET r == Noted(p, c, d, b)
         IN  /\ r \in Seq(Step) /\ Len(r) = Len(p) /\ \A i \in 1 .. Len(p) - 1 : r[i] = p[i]
             /\ r[Len(p)].chan = c /\ r[Len(p)].disp = d /\ r[Len(p)].pos = Last(p).pos
<1> DEFINE m == Len(p)
           x == p[m]
           y == [x EXCEPT !.chan = c]
           z == [y EXCEPT !.disp = d]
           w == [z EXCEPT !.post = b]
           f == [p EXCEPT ![m] = y]
           g == [f EXCEPT ![m] = z]
           k == [g EXCEPT ![m] = w]
           r == Noted(p, c, d, b)
<1>1. m \in Nat \ {0} /\ m \in 1 .. m /\ p \in [1 .. m -> Step]
  <2>1. m \in Nat /\ m # 0 /\ p \in [1 .. m -> Step]
    BY EmptySeq, LenProperties
  <2> QED BY <2>1
<1>2. x \in Step /\ Last(p) = x
  BY <1>1 DEF Last
<1>3. m = Len(p) /\ p[m] = x
  OBVIOUS
<1> HIDE DEF m, x
<1>4. y \in Step /\ y.chan = c /\ y.pos = x.pos
  BY <1>2 DEF Step
<1> HIDE DEF y
<1>5. z \in Step /\ z.chan = c /\ z.disp = d /\ z.pos = x.pos
  BY <1>2, <1>4 DEF Step
<1> HIDE DEF z
<1>6. w \in Step /\ w.chan = c /\ w.disp = d /\ w.pos = x.pos
  BY <1>2, <1>5 DEF Step
<1>7. f \in [1 .. m -> Step] /\ f[m] = y /\ [f EXCEPT ![m] = z] = [p EXCEPT ![m] = z]
  BY <1>1, <1>4, <1>5
<1>8. g \in [1 .. m -> Step] /\ g[m] = z /\ [g EXCEPT ![m] = w] = [p EXCEPT ![m] = w]
  BY <1>1, <1>5, <1>6, <1>7
<1>9. r = k
  <2>1. [p EXCEPT ![m].chan = c] = f
    BY <1>3 DEF y
  <2>2. [f EXCEPT ![m].disp = d] = g
    BY <1>7 DEF z
  <2>3. [g EXCEPT ![m].post = b] = k
    BY <1>8 DEF w
  <2>4. r = [[[p EXCEPT ![m].chan = c] EXCEPT ![m].disp = d] EXCEPT ![m].post = b]
    BY <1>3 DEF Noted
  <2> HIDE DEF f, g, k, r
  <2> QED BY <2>1, <2>2, <2>3, <2>4
<1>10. k \in [1 .. m -> Step] /\ k[m] = w /\ \A i \in 1 .. m - 1 : k[i] = p[i]
  <2>1. k = [p EXCEPT ![m] = w]
    BY <1>8
  <2> HIDE DEF w, k
  <2> QED BY <1>1, <1>6, <2>1
<1> HIDE DEF k, w, r
<1>11. k \in Seq(Step) /\ Len(k) = m
  BY <1>1, <1>10
<1> QED BY <1>2, <1>3, <1>6, <1>9, <1>10, <1>11 DEF r

\* The step just ended joins the history of its level.
LEMMA Recorded ==
  ASSUME NEW n, NEW s, Shaped(s, n), NEW l \in 1 .. n, NEW p \in Seq(Step), p # <<>>,
         Last(p).pos = Surf(s, l), History(s, l, Front(p), <<>>), NEW c \in Channels,
         NEW b \in BOOLEAN, NEW t, t.on = s.on, Under(t, l) = Under(s, l), t.disp[l] \in Detail,
         \A x \in Channels \ {c} : t.disp[l][x] = s.disp[l][x]
  PROVE  History(t, l, Noted(p, c, s.disp[l][c], b), <<>>)
<1> DEFINE m == Len(p) - 1
           e == t.disp[l]
           d == s.disp[l]
           v == d[c]
           o == Front(p)
           r == Noted(p, c, v, b)
           q == <<>>
<1>1. d \in Detail /\ Surf(s, l) = Plus(Under(s, l), Total(d, Mixed(s.on)))
  BY ShapedFacts, StackFields
<1>2. v \in Pos
  BY <1>1 DEF Detail
<1>3. e \in Detail /\ e = t.disp[l] /\ \A x \in Channels \ {c} : e[x] = d[x]
  OBVIOUS
<1>4. d = [e EXCEPT ![c] = v]
  <2> HIDE DEF e, d
  <2> QED BY <1>1, <1>3 DEF Detail, v
<1>5. Replays(s, t, l, e)
  BY DEF Replays
<1>6. q \in Seq(Step) /\ Len(q) = 0
  OBVIOUS
<1>7. /\ o \in Seq(Step) /\ Len(o) = m /\ Len(p) \in Nat \ {0}
      /\ \A i \in 1 .. m : o[i] = p[i]
  BY FrontFacts
<1>8. History(s, l, o, q) /\ v = s.disp[l][c] /\ d = s.disp[l]
  OBVIOUS
<1> HIDE DEF v, e, d, o, q
<1>9. /\ r \in Seq(Step) /\ Len(r) = Len(p) /\ \A i \in 1 .. Len(p) - 1 : r[i] = p[i]
      /\ r[Len(p)].chan = c /\ r[Len(p)].disp = v /\ r[Len(p)].pos = Last(p).pos
  BY <1>2, Noting
<1> HIDE DEF r
<1>10. m \in Nat /\ Len(p) = m + 1 /\ m = Len(p) - 1
  BY <1>7
<1> HIDE DEF m
<1>11. PICK h : Walk(s, l, o, q, h)
  BY <1>8 DEF History
<1> DEFINE g == [i \in 0 .. m + 1 |-> IF i <= m THEN h[i] ELSE e]
<1>12. /\ h \in [0 .. m -> Detail] /\ h[m] = d
       /\ \A i \in 1 .. m : Leads(s, l, o[i], h[i], h[i - 1])
  <2>1. Len(o) + Len(q) = m
    BY <1>6, <1>7, <1>10
  <2> QED BY <1>7, <1>8, <1>11, <2>1 DEF Walk
<1>13. /\ g \in [0 .. m + 1 -> Detail] /\ \A i \in 0 .. m : g[i] = h[i]
       /\ g[m + 1] = e
  <2>1. \A i \in 0 .. m : i \in 0 .. m + 1 /\ i <= m /\ h[i] \in Detail
    BY <1>10, <1>12
  <2>2. \A i \in 0 .. m + 1 : i <= m => i \in 0 .. m
    BY <1>10
  <2>3. m + 1 \in 0 .. m + 1 /\ ~(m + 1 <= m)
    BY <1>10
  <2> QED BY <1>3, <2>1, <2>2, <2>3
<1> HIDE DEF g
<1>14. Walk(t, l, r, q, g)
  <2>1. Len(r) + Len(q) = m + 1 /\ Len(r) = m + 1 /\ \A i : i \notin 1 .. Len(q)
    BY <1>6, <1>9, <1>10
  <2>2. g[Len(r)] = t.disp[l]
    BY <1>3, <1>13, <2>1
  <2>3. ASSUME NEW i \in 1 .. Len(r) PROVE Leads(t, l, r[i], g[i], g[i - 1])
    <3>1. CASE i = m + 1
      <4>1. i - 1 = m /\ m \in 0 .. m /\ i = Len(p)
        BY <1>10, <3>1
      <4>2. g[i] = e /\ g[i - 1] = d
        BY <1>12, <1>13, <3>1, <4>1
      <4>3. r[i].chan = c /\ r[i].disp = v /\ r[i].pos = Plus(Under(s, l), Total(d, Mixed(s.on)))
        BY <1>1, <1>9, <4>1
      <4> QED BY <1>4, <4>2, <4>3 DEF Leads
    <3>2. CASE i # m + 1
      <4>1. i \in 1 .. m /\ i \in 0 .. m /\ i - 1 \in 0 .. m
        BY <1>10, <2>1, <3>2
      <4>2. r[i] = o[i] /\ g[i] = h[i] /\ g[i - 1] = h[i - 1]
        BY <1>7, <1>9, <1>10, <1>13, <4>1
      <4>3. Leads(s, l, o[i], h[i], h[i - 1])
        BY <1>12, <4>1
      <4> QED BY <1>5, <4>2, <4>3, LeadsThere
    <3> QED BY <3>1, <3>2
  <2> QED BY <1>13, <2>1, <2>2, <2>3 DEF Walk
<1> QED BY <1>6, <1>9, <1>14 DEF History, r, q, v, d

-----------------------------------------------------------------------------
(* The invariant.                                                          *)

Sessions == [level : Nat, open : BOOLEAN, touched : SUBSET Verts, mirror : BOOLEAN]

Typed ==
  /\ sess \in Sessions /\ (sess.level # 0 => sess.mirror \in Mirrors)
  /\ past \in Seq(Step) /\ future \in Seq(Step)
  /\ saved.detail \in Seq(Detail) /\ saved.owes \in SUBSET (2 .. Len(saved.detail))
  /\ edited \in BOOLEAN

\* The slot whose mesh may be ahead of the store.
Ahead == IF edited THEN {mr.active} ELSE {}
Ordered(n) == IF sess.open THEN Stroking(mr, n, sess.level) ELSE Good(mr, n, Ahead)

StrokeInv ==
  sess.open =>
    /\ ~edited /\ future = <<>> /\ BoundAt(mr, sess.level) /\ Strayed(mr, sess.level, sess.touched)
    /\ sess.touched # {} => past # <<>> /\ Last(past).pos = Surf(mr, sess.level)

\* The steps of the log that are complete.
Complete == IF sess.open /\ sess.touched # {} THEN Front(past) ELSE past
LogInv == BoundAt(mr, sess.level) => History(mr, sess.level, Complete, future)
EditInv == edited => mr.active >= 1 /\ Resident(mr, mr.active)

Inv == Typed /\ (\E n : Ordered(n)) /\ StrokeInv /\ LogInv /\ EditInv

LEMMA InitInv == Init => Inv
<1> SUFFICES ASSUME Init PROVE Inv
  OBVIOUS
<1> DEFINE n == host.start
           e == [l \in 1 .. n |-> Plain]
           c == [l \in 1 .. n |-> Dropped]
           o == [l \in 1 .. n |-> "none"]
           y == [k \in Layers |-> TRUE]
           q == <<>>
<1>1. n \in Nat /\ n \in 1 .. MaxLevels
  BY StackAssumption DEF Init
<1>2. mr = [disp |-> e, on |-> y, target |-> Base, cache |-> c, slots |-> q,
            domains |-> o, fresh |-> FALSE, debt |-> {}, stale |-> {}, active |-> 0]
  BY DEF Init
<1>3. n = host.start
  OBVIOUS
<1> HIDE DEF n
<1>4. /\ e \in [1 .. n -> Detail] /\ c \in [1 .. n -> PosCache] /\ o \in [1 .. n -> Kinds]
      /\ y \in [Layers -> BOOLEAN]
      /\ \A k \in 1 .. n : c[k] = Dropped /\ o[k] = "none"
  <2>1. Plain \in Detail /\ Dropped \in PosCache /\ "none" \in Kinds
    BY ConstantFacts DEF Dropped, PosCache, Kinds
  <2> QED BY <2>1
<1>5. q \in Seq(Slot) /\ Len(q) = 0 /\ q = <<>> /\ DOMAIN q = 1 .. Len(q)
  OBVIOUS
<1> HIDE DEF e, c, o, y, q
<1>6. /\ mr \in Stack(n) /\ mr.cache = c /\ mr.domains = o /\ mr.slots = q /\ mr.active = 0
      /\ mr.target = Base
  <2>1. Base \in Channels /\ 0 \in 0 .. n /\ {} \in SUBSET (2 .. n) /\ {} \in SUBSET Nat
    BY <1>1, ConstantFacts
  <2> QED BY <1>2, <1>4, <1>5, <2>1 DEF Stack
<1>7. \A k : ~Resident(mr, k)
  <2>1. \A i : i \notin DOMAIN mr.slots
    BY <1>5, <1>6
  <2> QED BY <2>1 DEF Resident
<1>8. Shaped(mr, n)
  <2>1. Distinct(mr.slots)
    BY <1>5, <1>6 DEF Distinct
  <2>2. Len(mr.slots) <= Room
    BY <1>5, <1>6, RoomFor
  <2>3. mr.target \in Mixed(mr.on)
    BY <1>6, ConstantFacts
  <2> QED BY <1>1, <1>6, <1>7, <2>1, <2>2, <2>3 DEF Shaped
<1>9. \A k \in 1 .. n : Orderly(mr, k, {})
  BY <1>4, <1>6, <1>7 DEF Orderly, Held, Pins, Showing, Dropped
<1>10. Good(mr, n, {})
  BY <1>8, <1>9 DEF Good, UpTo
<1>11. ~edited /\ ~sess.open /\ sess.level = 0 /\ sess \in Sessions
  BY DEF Init, NoSession, Sessions
<1>12. Typed
  <2>1. past \in Seq(Step) /\ future \in Seq(Step)
    BY DEF Init
  <2>2. saved.detail \in Seq(Detail) /\ saved.owes \in SUBSET (2 .. Len(saved.detail))
    BY DEF Init
  <2>3. edited \in BOOLEAN
    BY DEF Init
  <2> QED BY <1>11, <2>1, <2>2, <2>3 DEF Typed
<1>13. Ordered(n)
  BY <1>10, <1>11 DEF Ordered, Ahead
<1>14. LogInv
  <2>1. sess.level \notin DOMAIN mr.domains
    BY <1>1, <1>6, <1>11, StackFields
  <2> QED BY <2>1 DEF LogInv, BoundAt
<1> QED BY <1>11, <1>12, <1>13, <1>14 DEF Inv, StrokeInv, EditInv

\* Only an edit of the level that stays active may be left in a slot.
Left(t, F) == \A k : k \in F => edited /\ t.active = mr.active /\ k = mr.active

LEMMA Becoming ==
  ASSUME edited \in BOOLEAN, NEW m, NEW t, NEW F, Good(t, m, F), Left(t, F), Becomes(t)
  PROVE  Good(mr', m, Ahead') /\ EditInv' /\ edited' \in BOOLEAN
<1> DEFINE a == t.active
           E == F \ {a}
           D == {a}
<1>1. mr' = t /\ edited' = (/\ edited /\ a = mr.active /\ Resident(t, a)
                            /\ SlotMesh(t, a) # t.cache[a].pos)
  BY DEF Becomes
<1>2. Shaped(t, m) /\ UpTo(t, m, m, F) /\ m \in Nat /\ \A k : Resident(t, k) => k \in 1 .. m
  <2>1. Shaped(t, m) /\ UpTo(t, m, m, F)
    BY DEF Good, UpTo
  <2> QED BY <2>1, ShapedFacts
<1>3. \A k : k \in F => k = a
  BY DEF Left
<1>4. D = {t.active}
  OBVIOUS
<1> HIDE DEF a
<1>5. CASE edited'
  <2>1. Resident(t, a) /\ a \in 1 .. m /\ a >= 1
    <3>1. edited' => Resident(t, a)
      BY <1>1
    <3>2. Resident(t, a)
      BY <3>1, <1>5
    <3>3. a \in 1 .. m
      BY <3>2, <1>2
    <3> QED BY <3>2, <3>3, <1>2
  <2>2. \A k \in 1 .. m : k \in F => k \in D
    BY <1>3
  <2> HIDE DEF D
  <2>3. UpTo(t, m, m, D)
    BY <1>2, <2>2, MoreHidden
  <2>4. Ahead' = D
    BY <1>1, <1>4, <1>5 DEF Ahead
  <2> QED BY <1>1, <1>5, <2>1, <2>3, <2>4 DEF Good, EditInv, a
<1>6. CASE ~edited'
  <2>1. Good(t, m, E)
    <3>1. Resident(t, a) /\ a \notin Unmirrored /\ edited /\ a = mr.active => SlotMesh(t, a) = Surf(t, a)
      <4> HAVE Resident(t, a) /\ a \notin Unmirrored /\ edited /\ a = mr.active
      <4>1. SlotMesh(t, a) = t.cache[a].pos /\ a \in 1 .. m
        BY <1>1, <1>2, <1>6
      <4>2. t.cache[a].valid /\ t.cache[a].pos = Surf(t, a)
        BY <4>1, GoodFacts
      <4> QED BY <4>1, <4>2
    <3>2. CASE edited /\ a = mr.active
      BY <3>1, <3>2, Hidden
    <3>3. CASE ~(edited /\ a = mr.active)
      <4>1. \A k : k \notin F
        BY <3>3 DEF Left, a
      <4>2. \A k \in 1 .. m : k \in F => k \in E
        BY <4>1
      <4> HIDE DEF E
      <4> QED BY <1>2, <4>2, MoreHidden DEF Good
    <3> QED BY <3>2, <3>3
  <2>2. E = {}
    BY <1>3
  <2>3. Ahead' = {}
    BY <1>6 DEF Ahead
  <2> HIDE DEF E
  <2> QED BY <1>1, <1>6, <2>1, <2>2, <2>3 DEF EditInv
<1> QED BY <1>1, <1>5, <1>6

-----------------------------------------------------------------------------
(* Calls between strokes.                                                  *)

\* Between strokes the object is in order but for the edit in a slot.
LEMMA Quiet ==
  ASSUME Inv, ~sess.open
  PROVE  /\ \E n : Good(mr, n, Ahead)
         /\ edited \in BOOLEAN /\ OnlyActive(mr, Ahead) /\ (~edited => Ahead = {})
<1>1. \E n : Good(mr, n, Ahead)
  BY DEF Inv, Ordered
<1>2. edited \in BOOLEAN
  BY DEF Inv, Typed
<1>3. OnlyActive(mr, Ahead)
  BY DEF Ahead, OnlyActive
<1>4. ~edited => Ahead = {}
  BY DEF Ahead
<1> QED BY <1>1, <1>2, <1>3, <1>4

LEMMA QuietDepth ==
  ASSUME NEW n, NEW D, Good(mr, n, D)
  PROVE  /\ n \in Nat /\ n \in 1 .. n /\ Depth(mr) = n /\ Levels(mr) = 1 .. n /\ mr.active \in 0 .. n
         /\ Shaped(mr, n) /\ mr \in Stack(n) /\ n \in 1 .. MaxLevels
<1>1. Shaped(mr, n)
  BY DEF Good, UpTo
<1> QED BY <1>1, ShapedFacts, StackFields

\* Any call between strokes that leaves the object in order.
LEMMA Calling ==
  ASSUME Inv, ~sess.open, NEW m, NEW t, NEW F, Good(t, m, F), Left(t, F), Becomes(t),
         Keeps(mr, t), UNCHANGED <<sess, past, future, saved>>
  PROVE  Inv'
<1>1. PICK n : Good(mr, n, Ahead)
  BY Quiet
<1>2. Typed /\ LogInv /\ edited \in BOOLEAN
  BY DEF Inv, Typed
<1>3. mr' = t
  BY DEF Becomes
<1>4. Good(mr', m, Ahead') /\ EditInv' /\ edited' \in BOOLEAN
  BY <1>2, Becoming
<1>5. Typed'
  BY <1>2, <1>4 DEF Typed
<1>6. Ordered(m)'
  BY <1>4 DEF Ordered
<1>7. StrokeInv'
  BY DEF StrokeInv
<1>8. LogInv'
  <2>1. SUFFICES ASSUME BoundAt(t, sess.level)
                 PROVE  History(t, sess.level, Complete, future)
    BY <1>3 DEF LogInv, Complete
  <2>2. BoundAt(mr, sess.level)
    BY <2>1 DEF Keeps
  <2>3. sess.level \in 1 .. n /\ Shaped(mr, n)
    <3>1. Shaped(mr, n) /\ mr \in Stack(n) /\ n \in Nat
      BY <1>1, QuietDepth
    <3> QED BY <2>2, <3>1, StackFields DEF BoundAt
  <2>4. SameLevel(mr, t, sess.level)
    BY <2>1, <2>3, KeepsLevel
  <2>5. History(mr, sess.level, Complete, future)
    BY <1>2, <2>2 DEF LogInv
  <2> QED BY <2>4, <2>5, HistoryKept
<1> QED BY <1>4, <1>5, <1>6, <1>7, <1>8 DEF Inv

\* The cases of the edit: it may still be there, or it is folded.
LEMMA LeftActive ==
  ASSUME NEW t, t.active = mr.active
  PROVE  Left(t, Ahead)
BY DEF Left, Ahead

LEMMA LeftNone ==
  ASSUME NEW t, NEW F, F = {}
  PROVE  Left(t, F)
BY DEF Left

LEMMA CallSame ==
  ASSUME Inv, ~sess.open, NEW m, NEW t, Good(t, m, Ahead), t.active = mr.active, Becomes(t),
         Keeps(mr, t), UNCHANGED <<sess, past, future, saved>>
  PROVE  Inv'
<1>1. Left(t, Ahead)
  BY LeftActive
<1> QED BY <1>1, Calling

LEMMA CallBare ==
  ASSUME Inv, ~sess.open, NEW m, NEW t, Good(t, m, {}), Becomes(t),
         Keeps(mr, t), UNCHANGED <<sess, past, future, saved>>
  PROVE  Inv'
<1> DEFINE F == {}
<1>1. Good(t, m, F) /\ F = {}
  OBVIOUS
<1> HIDE DEF F
<1>2. Left(t, F)
  BY <1>1, LeftNone
<1> QED BY <1>1, <1>2, Calling

LEMMA LessHidden ==
  ASSUME NEW n, NEW t, NEW D, NEW l, Good(t, n, D \ {l})
  PROVE  Good(t, n, D)
<1> DEFINE E == D \ {l}
<1>1. UpTo(t, n, n, E)
  BY DEF Good
<1>2. \A k \in 1 .. n : k \in E => k \in D
  OBVIOUS
<1> HIDE DEF E
<1>3. UpTo(t, n, n, D)
  BY <1>1, <1>2, MoreHidden
<1> QED BY <1>3 DEF Good

LEMMA CallIs ==
  ASSUME NEW t, Call(t)
  PROVE  Becomes(t) /\ UNCHANGED <<sess, past, future, saved>>
BY DEF Call

LEMMA SwitchLevelStep == ASSUME Inv, SwitchLevel PROVE Inv'
<1>1. PICK l \in Levels(mr), a \in BOOLEAN, b \in BOOLEAN : Call(SetActive(mr, l, a, b))
  BY DEF SwitchLevel
<1>2. ~sess.open
  BY DEF SwitchLevel, Idle
<1>3. PICK n : Good(mr, n, Ahead)
  BY <1>2, Quiet
<1>4. l \in 1 .. n
  BY <1>3, QuietDepth
<1> DEFINE t == SetActive(mr, l, a, b)
           F == IF mr.active = l THEN Ahead ELSE Ahead \ {mr.active}
<1>5. Good(t, n, F) /\ FrameTo(mr, t, l)
  BY <1>3, <1>4, SetActiveGood
<1>6. Becomes(t) /\ UNCHANGED <<sess, past, future, saved>>
  BY <1>1, CallIs
<1>7. Keeps(mr, t) /\ t.active = l
  BY <1>5 DEF FrameTo
<1> HIDE DEF t
<1>8. Left(t, F)
  BY <1>7 DEF Left, Ahead
<1> HIDE DEF F
<1> QED BY <1>2, <1>5, <1>6, <1>7, <1>8, Calling

LEMMA MaterializeLevelStep == ASSUME Inv, MaterializeLevel PROVE Inv'
<1>1. PICK l \in Levels(mr) : Call(Materialize(mr, l))
  BY DEF MaterializeLevel
<1>2. ~sess.open
  BY DEF MaterializeLevel, Idle
<1>3. PICK n : Good(mr, n, Ahead)
  BY <1>2, Quiet
<1>4. l \in 1 .. n
  BY <1>3, QuietDepth
<1> DEFINE t == Materialize(mr, l)
<1>5. Good(t, n, Ahead) /\ Frame(mr, t)
  BY <1>3, <1>4, MaterializeGood
<1>6. Becomes(t) /\ UNCHANGED <<sess, past, future, saved>>
  BY <1>1, CallIs
<1> HIDE DEF t
<1>7. Keeps(mr, t) /\ t.active = mr.active
  BY <1>5 DEF Frame
<1> QED BY <1>2, <1>5, <1>6, <1>7, CallSame

LEMMA WritebackLevelStep == ASSUME Inv, WritebackLevel PROVE Inv'
<1>1. PICK l \in Levels(mr) : Call(Writeback(mr, l))
  BY DEF WritebackLevel
<1>2. ~sess.open
  BY DEF WritebackLevel, Idle
<1>3. PICK n : Good(mr, n, Ahead)
  BY <1>2, Quiet
<1>4. l \in 1 .. n
  BY <1>3, QuietDepth
<1> DEFINE t == Writeback(mr, l)
<1>5. Good(t, n, Ahead \ {l}) /\ Frame(mr, t)
  BY <1>3, <1>4, WritebackGood
<1>6. Becomes(t) /\ UNCHANGED <<sess, past, future, saved>>
  BY <1>1, CallIs
<1> HIDE DEF t
<1>7. Keeps(mr, t) /\ t.active = mr.active
  BY <1>5 DEF Frame
<1>8. Good(t, n, Ahead)
  BY <1>5, LessHidden
<1> QED BY <1>2, <1>6, <1>7, <1>8, CallSame

LEMMA FetchDomainStep == ASSUME Inv, FetchDomain PROVE Inv'
<1>1. PICK l \in Levels(mr) : Call(GridDomain(mr, l))
  BY DEF FetchDomain
<1>2. ~sess.open
  BY DEF FetchDomain, Idle
<1>3. PICK n : Good(mr, n, Ahead)
  BY <1>2, Quiet
<1>4. l \in 1 .. n
  BY <1>3, QuietDepth
<1> DEFINE t == GridDomain(mr, l)
<1>5. Good(t, n, Ahead) /\ Frame(mr, t)
  BY <1>3, <1>4, DomainGood
<1>6. Becomes(t) /\ UNCHANGED <<sess, past, future, saved>>
  BY <1>1, CallIs
<1> HIDE DEF t
<1>7. Keeps(mr, t) /\ t.active = mr.active
  BY <1>5 DEF Frame
<1> QED BY <1>2, <1>5, <1>6, <1>7, CallSame

LEMMA DownRefitStep == ASSUME Inv, DownRefit PROVE Inv'
<1> DEFINE l == mr.active
           t == Refitted(mr, l)
<1>1. ~sess.open /\ l >= 2 /\ Call(t)
  BY DEF DownRefit, Idle
<1>3. PICK n : Good(mr, n, Ahead)
  BY <1>1, Quiet
<1>4. l \in 2 .. n
  BY <1>1, <1>3, QuietDepth
<1>2. l = mr.active
  OBVIOUS
<1> HIDE DEF l
<1>5. Good(t, n, Ahead \ {l}) /\ Frame(mr, t)
  BY <1>3, <1>4, RefittedGood
<1>6. Becomes(t) /\ UNCHANGED <<sess, past, future, saved>>
  BY <1>1, CallIs
<1> HIDE DEF t
<1>7. Keeps(mr, t) /\ t.active = mr.active
  BY <1>5 DEF Frame
<1>8. Good(t, n, Ahead)
  BY <1>5, LessHidden
<1> QED BY <1>1, <1>6, <1>7, <1>8, CallSame

LEMMA MeshEditStep == ASSUME Inv, MeshEdit PROVE Inv'
<1> DEFINE l == mr.active
<1>1. PICK p \in Pos : mr' = SetMesh(mr, l, p)
  BY DEF MeshEdit
<1>2. ~sess.open /\ ~edited /\ l >= 1 /\ Resident(mr, l) /\ edited' = TRUE
      /\ UNCHANGED <<sess, past, future, saved>>
  BY DEF MeshEdit, Idle
<1>3. PICK n : Good(mr, n, Ahead)
  BY <1>2, Quiet
<1> DEFINE D == Ahead
           t == SetMesh(mr, l, p)
<1>4. Good(mr, n, D) /\ D = {}
  BY <1>2, <1>3, Quiet
<1> HIDE DEF D
<1>5. Good(t, n, D \union {l}) /\ Frame(mr, t) /\ (\A k : Resident(t, k) <=> Resident(mr, k))
  BY <1>4, SetMeshGood
<1>6. Keeps(mr, t) /\ t.active = l
  BY <1>5 DEF Frame
<1>7. mr' = t
  BY <1>1
<1> HIDE DEF t
<1>8. Ahead' = D \union {l}
  BY <1>2, <1>4, <1>6, <1>7 DEF Ahead
<1>9. Ordered(n)'
  BY <1>2, <1>5, <1>7, <1>8 DEF Ordered
<1>10. Typed'
  BY <1>2 DEF Inv, Typed
<1>11. StrokeInv'
  BY <1>2 DEF StrokeInv
<1>12. EditInv'
  BY <1>2, <1>5, <1>6, <1>7 DEF EditInv
<1>13. LogInv'
  <2>1. SUFFICES ASSUME BoundAt(t, sess.level)
                 PROVE  History(t, sess.level, Complete, future)
    BY <1>2, <1>7 DEF LogInv, Complete
  <2>2. BoundAt(mr, sess.level)
    BY <1>6, <2>1 DEF Keeps
  <2>3. sess.level \in 1 .. n /\ Shaped(mr, n)
    <3>1. Shaped(mr, n) /\ mr \in Stack(n) /\ n \in Nat
      BY <1>3, QuietDepth
    <3> QED BY <2>2, <3>1, StackFields DEF BoundAt
  <2>4. SameLevel(mr, t, sess.level)
    BY <1>6, <2>1, <2>3, KeepsLevel
  <2>5. History(mr, sess.level, Complete, future)
    BY <2>2 DEF LogInv, Inv
  <2> QED BY <2>4, <2>5, HistoryKept
<1> QED BY <1>9, <1>10, <1>11, <1>12, <1>13 DEF Inv

LEMMA UnboundOnly == ASSUME NEW s, NEW t, Unbound(t) PROVE Keeps(s, t)
BY DEF Unbound, Keeps

\* A call with no edit pending.
LEMMA QuietBare ==
  ASSUME Inv, ~sess.open, ~edited
  PROVE  \E n : Good(mr, n, {})
<1>1. PICK n : Good(mr, n, Ahead)
  BY Quiet
<1>2. Ahead = {}
  BY Quiet
<1> QED BY <1>1, <1>2

LEMMA SeedLevelStep == ASSUME Inv, SeedLevel PROVE Inv'
<1>1. PICK l \in Levels(mr), p \in Pos : Becomes(Seeded(EnsureBase(EnsureChain(mr, l), l), l, p))
  BY DEF SeedLevel
<1>2. ~sess.open /\ ~edited /\ UNCHANGED <<sess, past, future, saved>>
  BY DEF SeedLevel, Idle
<1> DEFINE D == {}
           x == EnsureChain(mr, l)
           y == EnsureBase(x, l)
           t == Seeded(y, l, p)
<1>3. PICK n : Good(mr, n, D)
  BY <1>2, QuietBare
<1>4. l \in 1 .. n /\ n \in Nat
  BY <1>3, QuietDepth
<1>9. D = {}
  OBVIOUS
<1> HIDE DEF D
<1>5. Good(x, n, D) /\ Frame(mr, x) /\ x.cache[l].valid
  <2>1. Good(x, n, D) /\ Frame(mr, x) /\ Chained(mr, x, n, l)
    BY <1>3, <1>4, ChainGood
  <2> QED BY <1>4, <2>1 DEF Chained
<1> HIDE DEF x
<1>6. Good(y, n, D) /\ Frame(x, y) /\ y.cache[l].valid /\ y.cache[l].base # NoBase
  BY <1>4, <1>5, BaseGood
<1> HIDE DEF y
<1>7. Good(t, n, D) /\ Frame(y, t)
  BY <1>4, <1>6, SeededGood
<1>8. Becomes(t)
  BY <1>1 DEF x, y
<1> HIDE DEF t
<1>10. Frame(mr, y)
  BY <1>5, <1>6, FrameTwice
<1>11. Frame(mr, t)
  BY <1>7, <1>10, FrameTwice
<1> QED BY <1>2, <1>7, <1>8, <1>9, <1>11, CallBare DEF Frame

LEMMA FromLevelPositionsStep == ASSUME Inv, FromLevelPositions PROVE Inv'
<1>1. PICK l \in Levels(mr), p \in Pos : ImportTo(l, p)
  BY DEF FromLevelPositions
<1> DEFINE t == Imported(SetActive(mr, l, TRUE, TRUE), l, p)
<1>2. ~sess.open /\ ~edited /\ Becomes(t) /\ UNCHANGED <<sess, past, future, saved>>
  BY <1>1 DEF ImportTo, Idle
<1>3. PICK n : Good(mr, n, {})
  BY <1>2, QuietBare
<1>4. l \in 1 .. n
  BY <1>3, QuietDepth
<1>5. Good(t, n, {}) /\ FrameTo(mr, t, l)
  BY <1>3, <1>4, ImportGood
<1> HIDE DEF t
<1> QED BY <1>2, <1>5, CallBare DEF FrameTo

LEMMA CaptureToVdmStep == ASSUME Inv, CaptureToVdm PROVE Inv'
<1>1. PICK l \in Levels(mr) : Call(CapturedOnto(IF l = 1 THEN mr ELSE EnsureChain(mr, l - 1), l))
  BY DEF CaptureToVdm
<1>2. ~sess.open /\ ~edited /\ Mixed(mr.on) = {Base}
  BY DEF CaptureToVdm, Idle
<1>3. PICK n : Good(mr, n, {})
  BY <1>2, QuietBare
<1>4. l \in 1 .. n
  BY <1>3, QuietDepth
<1> DEFINE t == CapturedOnto(IF l = 1 THEN mr ELSE EnsureChain(mr, l - 1), l)
<1>5. Good(t, n, {}) /\ Frame(mr, t)
  BY <1>2, <1>3, <1>4, CaptureGood
<1>6. Becomes(t) /\ UNCHANGED <<sess, past, future, saved>>
  BY <1>1, CallIs
<1> HIDE DEF t
<1> QED BY <1>2, <1>5, <1>6, CallBare DEF Frame

LEMMA AddLevelStep == ASSUME Inv, AddLevel PROVE Inv'
<1>1. PICK n : Good(mr, n, Ahead)
  BY Quiet DEF AddLevel, Idle
<1>2. Depth(mr) = n
  BY <1>1, QuietDepth
<1> DEFINE m == n + 1
           t == Resized(DropDomains(Writeback(mr, mr.active), 0), m, m)
<1>3. ~sess.open /\ n < MaxLevels /\ Call(t)
  BY <1>2 DEF AddLevel, Idle
<1>4. OnlyActive(mr, Ahead)
  BY <1>3, Quiet
<1>5. Good(t, m, {}) /\ Unbound(t)
  BY <1>1, <1>3, <1>4, AddGood
<1>6. Becomes(t) /\ UNCHANGED <<sess, past, future, saved>>
  BY <1>3, CallIs
<1> HIDE DEF t, m
<1>7. Keeps(mr, t)
  BY <1>5, UnboundOnly
<1> QED BY <1>3, <1>5, <1>6, <1>7, CallBare

LEMMA MinOfTwo ==
  ASSUME NEW a \in Nat, NEW b \in Nat
  PROVE  Min({a, b}) = a \/ Min({a, b}) = b
<1>1. {a, b} \in SUBSET Nat /\ {a, b} # {}
  OBVIOUS
<1> QED BY <1>1, MinIn

LEMMA RemoveTopLevelStep == ASSUME Inv, RemoveTopLevel PROVE Inv'
<1>1. PICK n : Good(mr, n, Ahead)
  BY Quiet DEF RemoveTopLevel, Idle
<1>2. Depth(mr) = n /\ n \in Nat /\ mr.active \in 0 .. n
  BY <1>1, QuietDepth
<1> DEFINE m == n - 1
           to == Min({mr.active, m})
           t == Resized(Evicted(DropDomains(Writeback(mr, mr.active), 0), {n}), m, to)
<1>3. ~sess.open /\ n > 1 /\ mr.active >= 1 /\ Call(t)
  BY <1>2 DEF RemoveTopLevel, Idle
<1>4. OnlyActive(mr, Ahead)
  BY <1>3, Quiet
<1>5. to \in 1 .. m
  <2>1. to = mr.active \/ to = m
    BY <1>2, <1>3, MinOfTwo
  <2>2. to <= mr.active /\ to <= m
    <3>1. mr.active \in Nat /\ m \in Nat
      BY <1>2, <1>3
    <3>2. {mr.active, m} \in SUBSET Nat
      BY <3>1
    <3>3. \A x \in {mr.active, m} : to <= x
      <4>1. to = CHOOSE x \in {mr.active, m} : \A y \in {mr.active, m} : x <= y
        BY DEF Min
      <4>2. \E x \in {mr.active, m} : \A y \in {mr.active, m} : x <= y
        BY <3>1
      <4> QED BY <4>1, <4>2
    <3> QED BY <3>3
  <2>3. m >= 1
    BY <1>2, <1>3
  <2> QED BY <1>2, <1>3, <2>1, <2>2, <2>3
<1> HIDE DEF to
<1>6. Good(t, m, {}) /\ Unbound(t)
  BY <1>1, <1>3, <1>4, <1>5, RemoveGood
<1>7. Becomes(t) /\ UNCHANGED <<sess, past, future, saved>>
  BY <1>3, CallIs
<1> HIDE DEF t, m
<1>8. Keeps(mr, t)
  BY <1>6, UnboundOnly
<1> QED BY <1>3, <1>6, <1>7, <1>8, CallBare

LEMMA LayerSetEnabledStep == ASSUME Inv, LayerSetEnabled PROVE Inv'
<1> DEFINE s(c) == IF mr.on[c] /\ c = mr.target THEN SetEditTarget(mr, Base)
                   ELSE Writeback(mr, mr.active)
<1>1. PICK c \in Layers : Call(Toggled(s(c), c))
  BY DEF LayerSetEnabled
<1>2. ~sess.open
  BY DEF LayerSetEnabled, Idle
<1>3. PICK n : Good(mr, n, Ahead)
  BY <1>2, Quiet
<1> DEFINE x == s(c)
           t == Toggled(x, c)
<1>4. Good(x, n, Ahead) /\ (x.on[c] => c # x.target)
  <2>1. CASE mr.on[c] /\ c = mr.target
    <3> DEFINE b == Base
               y == SetEditTarget(mr, b)
    <3>1. b \in Channels /\ c # b
      BY ConstantFacts, SurfaceAssumption
    <3>2. x = y
      BY <2>1
    <3> HIDE DEF b
    <3>3. Good(y, n, Ahead) /\ y.target = b
      BY <1>3, <3>1, SetTargetGood
    <3> QED BY <3>1, <3>2, <3>3
  <2>2. CASE ~(mr.on[c] /\ c = mr.target)
    <3> DEFINE y == Writeback(mr, mr.active)
    <3>1. x = y
      BY <2>2
    <3>2. Good(y, n, Ahead) /\ Frame(mr, y)
      BY <1>3, WritebackActive
    <3> QED BY <2>2, <3>1, <3>2 DEF Frame
  <2> QED BY <2>1, <2>2
<1>5. Becomes(t) /\ UNCHANGED <<sess, past, future, saved>>
  BY <1>1, CallIs
<1> HIDE DEF x
<1>6. Good(t, n, {}) /\ Unbound(t)
  BY <1>4, ToggledGood
<1> HIDE DEF t
<1>7. Keeps(mr, t)
  BY <1>6, UnboundOnly
<1> QED BY <1>2, <1>5, <1>6, <1>7, CallBare

LEMMA EditTargetStep == ASSUME Inv, EditTarget PROVE Inv'
<1>1. PICK c \in Channels : Call(SetEditTarget(mr, c))
  BY DEF EditTarget
<1>2. ~sess.open
  BY DEF EditTarget, Idle
<1>3. PICK n : Good(mr, n, Ahead)
  BY <1>2, Quiet
<1> DEFINE t == SetEditTarget(mr, c)
<1>4. Good(t, n, Ahead) /\ Keeps(mr, t) /\ t.active = mr.active
  BY <1>3, SetTargetGood
<1>5. Becomes(t) /\ UNCHANGED <<sess, past, future, saved>>
  BY <1>1, CallIs
<1> HIDE DEF t
<1> QED BY <1>2, <1>4, <1>5, CallSame

LEMMA InvParts ==
  ASSUME Inv
  PROVE  /\ Typed /\ (\E n : Ordered(n)) /\ StrokeInv /\ LogInv /\ EditInv
         /\ edited \in BOOLEAN /\ sess \in Sessions /\ past \in Seq(Step) /\ future \in Seq(Step)
BY DEF Inv, Typed

LEMMA SerializeStoreStep == ASSUME Inv, SerializeStore PROVE Inv'
<1>1. ~sess.open /\ ~edited /\ UNCHANGED <<mr, sess, past, future, edited>>
  BY DEF SerializeStore, Idle
<1>2. saved'.detail = mr.disp /\ saved'.owes = mr.debt
  BY DEF SerializeStore
<1>3. PICK n : Good(mr, n, {})
  BY <1>1, QuietBare
<1>4. mr.disp \in Seq(Detail) /\ Len(mr.disp) = n /\ mr.debt \in SUBSET (2 .. n)
  <2>1. n \in Nat /\ mr \in Stack(n) /\ Depth(mr) = n
    BY <1>3, QuietDepth
  <2>2. mr.disp \in [1 .. n -> Detail] /\ mr.debt \in SUBSET (2 .. n)
    BY <2>1, StackFields
  <2> QED BY <2>1, <2>2 DEF Depth
<1>5. Typed'
  BY <1>1, <1>2, <1>4, InvParts DEF Typed
<1>6. StrokeInv' /\ LogInv' /\ EditInv'
  BY <1>1, InvParts DEF StrokeInv, LogInv, EditInv, Complete
<1>7. Ahead' = Ahead
  BY <1>1 DEF Ahead
<1>8. PICK k : Ordered(k)
  BY InvParts
<1>9. Ordered(k)'
  BY <1>1, <1>7, <1>8 DEF Ordered
<1> QED BY <1>5, <1>6, <1>9 DEF Inv

LEMMA DropOldestStep == ASSUME Inv, DropOldest PROVE Inv'
<1>1. ~sess.open /\ past # <<>> /\ past' = Tail(past) /\ UNCHANGED <<mr, sess, saved, future, edited>>
  BY DEF DropOldest, Idle
<1>2. past' \in Seq(Step)
  BY <1>1, InvParts
<1>3. Typed'
  BY <1>1, <1>2, InvParts DEF Typed
<1>4. Ahead' = Ahead
  BY <1>1 DEF Ahead
<1>5. PICK k : Ordered(k)
  BY InvParts
<1>6. Ordered(k)'
  BY <1>1, <1>4, <1>5 DEF Ordered
<1>7. StrokeInv' /\ EditInv'
  BY <1>1, InvParts DEF StrokeInv, EditInv
<1>8. LogInv'
  <2>1. SUFFICES ASSUME BoundAt(mr, sess.level)
                 PROVE  History(mr, sess.level, Tail(past), future)
    BY <1>1 DEF LogInv, Complete
  <2>2. History(mr, sess.level, past, future)
    BY <1>1, <2>1, InvParts DEF LogInv, Complete
  <2> QED BY <1>1, <2>2, OldestDropped
<1> QED BY <1>3, <1>6, <1>7, <1>8 DEF Inv

LEMMA SetMirrorStep == ASSUME Inv, SetMirror PROVE Inv'
<1>1. PICK m \in Mirrors : sess' = [sess EXCEPT !.mirror = m]
  BY DEF SetMirror
<1>2. UNCHANGED <<mr, past, future, saved, edited>>
  BY DEF SetMirror
<1>3. /\ sess' \in Sessions /\ sess'.mirror = m
      /\ sess'.level = sess.level /\ sess'.open = sess.open /\ sess'.touched = sess.touched
  <2>1. m \in BOOLEAN
    BY StackAssumption
  <2> QED BY <1>1, <2>1, InvParts DEF Sessions
<1>4. Typed'
  BY <1>2, <1>3, InvParts DEF Typed
<1>5. StrokeInv' /\ LogInv' /\ EditInv'
  BY <1>2, <1>3, InvParts DEF StrokeInv, LogInv, EditInv, Complete
<1>6. Ahead' = Ahead
  BY <1>2 DEF Ahead
<1>7. PICK k : Ordered(k)
  BY InvParts
<1>8. Ordered(k)'
  BY <1>2, <1>3, <1>6, <1>7 DEF Ordered
<1> QED BY <1>4, <1>5, <1>8 DEF Inv

LEMMA StutterStep == ASSUME Inv, UNCHANGED vars PROVE Inv'
<1>1. UNCHANGED <<mr, sess, past, future, saved, edited>>
  BY DEF vars
<1>2. Typed'
  BY <1>1, InvParts DEF Typed
<1>3. StrokeInv' /\ LogInv' /\ EditInv'
  BY <1>1, InvParts DEF StrokeInv, LogInv, EditInv, Complete
<1>4. Ahead' = Ahead
  BY <1>1 DEF Ahead
<1>5. PICK k : Ordered(k)
  BY InvParts
<1>6. Ordered(k)'
  BY <1>1, <1>4, <1>5 DEF Ordered
<1> QED BY <1>2, <1>3, <1>6 DEF Inv

LEMMA RestoreStoreStep == ASSUME Inv, RestoreStore PROVE Inv'
<1> DEFINE d == saved.detail
           b == saved.owes
           t == [InvalidateAbove([mr EXCEPT !.disp = d], 0) EXCEPT !.active = 0, !.debt = b]
<1>1. ~sess.open /\ Len(d) = Depth(mr) /\ Call(t)
  BY DEF RestoreStore, Idle
<1>2. PICK n : Good(mr, n, Ahead)
  BY <1>1, Quiet
<1>3. d \in [1 .. n -> Detail] /\ b \in SUBSET (2 .. n)
  <2>1. Depth(mr) = n /\ n \in Nat
    BY <1>2, QuietDepth
  <2>2. d \in Seq(Detail) /\ b \in SUBSET (2 .. Len(d))
    BY InvParts DEF Typed
  <2>3. d \in [1 .. Len(d) -> Detail]
    BY <2>2
  <2> QED BY <1>1, <2>1, <2>2, <2>3
<1>4. Becomes(t) /\ UNCHANGED <<sess, past, future, saved>>
  BY <1>1, CallIs
<1> HIDE DEF d, b
<1>5. Good(t, n, {}) /\ Unbound(t)
  BY <1>2, <1>3, RestoreGood
<1> HIDE DEF t
<1>6. Keeps(mr, t)
  BY <1>5, UnboundOnly
<1> QED BY <1>1, <1>4, <1>5, <1>6, CallBare

-----------------------------------------------------------------------------
(* Sessions and strokes.                                                   *)

\* A call that leaves no stroke open, with its log.
LEMMA Settling ==
  ASSUME Inv, NEW m, NEW t, NEW F, Good(t, m, F), Left(t, F), Becomes(t),
         ~sess'.open, sess' \in Sessions, sess'.level # 0 => sess'.mirror \in Mirrors,
         past' \in Seq(Step), future' \in Seq(Step), UNCHANGED saved,
         BoundAt(t, sess'.level) => History(t, sess'.level, past', future')
  PROVE  Inv'
<1>1. mr' = t
  BY DEF Becomes
<1>2. Good(mr', m, Ahead') /\ EditInv' /\ edited' \in BOOLEAN
  BY InvParts, Becoming
<1>3. Typed'
  BY <1>2, InvParts DEF Typed
<1>4. Ordered(m)'
  BY <1>2 DEF Ordered
<1>5. StrokeInv'
  BY DEF StrokeInv
<1>6. LogInv'
  BY <1>1 DEF LogInv, Complete
<1> QED BY <1>2, <1>3, <1>4, <1>5, <1>6 DEF Inv

LEMMA OpenSessionStep == ASSUME Inv, OpenSession PROVE Inv'
<1>1. PICK l \in Levels(mr), m \in Mirrors :
        /\ Becomes(Attached(GridDomain(mr, l), l))
        /\ sess' = [NoSession EXCEPT !.level = l, !.mirror = m]
  BY DEF OpenSession
<1>2. ~sess.open /\ past' = <<>> /\ future' = <<>> /\ UNCHANGED saved
  BY DEF OpenSession, Idle
<1>3. PICK n : Good(mr, n, Ahead)
  BY <1>2, Quiet
<1>4. l \in 1 .. n /\ n \in Nat
  BY <1>3, QuietDepth
<1> DEFINE x == GridDomain(mr, l)
           t == Attached(x, l)
<1>5. Good(x, n, Ahead) /\ Frame(mr, x) /\ x.domains[l] # "none"
  BY <1>3, <1>4, DomainGood
<1>6. Becomes(t)
  BY <1>1
<1> HIDE DEF x
<1>7. Good(t, n, Ahead) /\ t.active = x.active /\ t.disp = x.disp
  BY <1>4, <1>5, AttachedGood
<1> HIDE DEF t
<1>8. Left(t, Ahead)
  BY <1>5, <1>7, LeftActive DEF Frame
<1>9. ~sess'.open /\ sess' \in Sessions /\ sess'.mirror \in Mirrors /\ sess'.level = l
  <2>1. m \in BOOLEAN /\ l \in Nat
    BY <1>4, StackAssumption
  <2>2. NoSession \in Sessions /\ ~NoSession.open
    BY DEF NoSession, Sessions
  <2> DEFINE e == [NoSession EXCEPT !.level = l, !.mirror = m]
  <2>3. e \in Sessions
    BY <2>1, <2>2 DEF Sessions
  <2>4. e.level = l
    BY <2>2 DEF Sessions
  <2>5. e.mirror = m
    BY <2>2 DEF Sessions
  <2>6. e.open = NoSession.open
    BY <2>2 DEF Sessions
  <2>7. sess' = e
    BY <1>1
  <2> HIDE DEF e
  <2>8. ~e.open
    BY <2>2, <2>6
  <2> QED BY <2>3, <2>4, <2>5, <2>7, <2>8
<1>10. past' \in Seq(Step) /\ future' \in Seq(Step)
  BY <1>2
<1>11. History(t, l, past', future')
  <2>1. t \in Stack(n) /\ n \in Nat
    BY <1>4, <1>7, ShapedFacts DEF Good, UpTo
  <2>2. t.disp[l] \in Detail
    BY <1>4, <2>1, StackFields
  <2>3. History(t, l, <<>>, <<>>)
    BY <2>2, NoHistory
  <2> QED BY <1>2, <2>3
<1> QED BY <1>2, <1>6, <1>7, <1>8, <1>9, <1>10, <1>11, Settling

LEMMA BeginStrokeStep == ASSUME Inv, BeginStroke PROVE Inv'
<1> DEFINE l == sess.level
           x == GridDomain(mr, l)
           t == IF Same(x) THEN x ELSE Attached(x, l)
<1>1. /\ ~sess.open /\ ~edited /\ l \in Levels(mr) /\ Becomes(t)
      /\ past' = IF Same(x) THEN past ELSE <<>>
      /\ future' = <<>> /\ sess' = [sess EXCEPT !.open = TRUE, !.touched = {}]
      /\ UNCHANGED saved
  BY DEF BeginStroke, Idle
<1> DEFINE D == {}
<1>2. PICK n : Good(mr, n, D)
  BY <1>1, QuietBare
<1>3. l \in 1 .. n /\ n \in Nat
  BY <1>1, <1>2, QuietDepth
<1>4. /\ Good(x, n, D) /\ Frame(mr, x) /\ x.domains[l] # "none"
      /\ mr.domains[l] # "none" => x = mr
      /\ x.domains[l] = "bound" => mr.domains[l] = "bound"
  BY <1>2, <1>3, DomainGood
<1> HIDE DEF x, D
<1>5. /\ Good(t, n, D) /\ t.domains[l] = "bound"
      /\ Same(x) => t = mr
  <2>1. CASE Same(x)
    <3>1. x.domains[l] = "bound" /\ t = x
      BY <2>1 DEF Same
    <3>2. x = mr
      BY <1>4, <3>1
    <3> QED BY <1>4, <3>1, <3>2
  <2>2. CASE ~Same(x)
    <3> DEFINE y == Attached(x, l)
    <3>1. Good(y, n, D) /\ y.domains[l] = "bound"
      BY <1>3, <1>4, AttachedGood
    <3>2. t = y
      BY <2>2
    <3> QED BY <2>2, <3>1, <3>2
  <2> QED BY <2>1, <2>2
<1>6. mr' = t /\ edited' = FALSE
  BY <1>1 DEF Becomes
<1>7. sess' \in Sessions /\ sess'.level = l /\ sess'.open /\ sess'.touched = {} /\ sess'.mirror = sess.mirror
  BY <1>1, InvParts DEF Sessions
<1> DEFINE Log == IF Same(x) THEN past ELSE <<>>
<1>8. History(t, l, Log, <<>>)
  <2>1. CASE Same(x)
    <3>1. t = mr /\ BoundAt(mr, l)
      <4>1. t = mr
        BY <1>5, <2>1
      <4>2. mr \in Stack(n)
        BY <1>2, QuietDepth
      <4>3. l \in DOMAIN mr.domains
        BY <1>3, <4>2, StackFields
      <4> QED BY <1>5, <4>1, <4>3 DEF BoundAt
    <3>2. History(mr, l, past, future)
      BY <1>1, <3>1, InvParts DEF LogInv, Complete
    <3>3. History(mr, l, past, <<>>)
      BY <3>2, NothingUndone
    <3> QED BY <2>1, <3>1, <3>3
  <2>2. CASE ~Same(x)
    <3>1. t \in Stack(n)
      BY <1>5, ShapedFacts DEF Good, UpTo
    <3>2. t.disp[l] \in Detail
      BY <1>3, <3>1, StackFields
    <3>3. History(t, l, <<>>, <<>>)
      BY <3>2, NoHistory
    <3> QED BY <2>2, <3>3
  <2> QED BY <2>1, <2>2
<1>9. past' = Log /\ past' \in Seq(Step)
  BY <1>1, InvParts
<1>10. /\ Stroking(t, n, l) /\ t.cache[l].pos = Surf(t, l)
       /\ Resident(t, l) /\ l \notin Unmirrored => SlotMesh(t, l) = Surf(t, l)
  <2>1. Good(t, n, {}) /\ t.domains[l] # "none"
    BY <1>5 DEF D
  <2> HIDE DEF t, l
  <2> QED BY <1>3, <2>1, BegunGood
<1>11. Strayed(t, l, {})
  BY <1>10 DEF Strayed
<1>12. BoundAt(t, l)
  <2>1. t \in Stack(n)
    BY <1>5, ShapedFacts DEF Good, UpTo
  <2>2. l \in DOMAIN t.domains
    BY <1>3, <2>1, StackFields
  <2> QED BY <1>5, <2>2 DEF BoundAt
<1> HIDE DEF t, Log
<1>13. Typed'
  <2>1. future' \in Seq(Step) /\ edited' \in BOOLEAN
    <3>1. future' = <<>>
      BY <1>1
    <3>2. <<>> \in Seq(Step)
      OBVIOUS
    <3>3. edited' \in BOOLEAN
      BY <1>6
    <3> QED BY <3>1, <3>2, <3>3
  <2>2. (sess'.level # 0 => sess'.mirror \in Mirrors)
    BY <1>7, InvParts DEF Typed
  <2>3. saved'.detail \in Seq(Detail) /\ saved'.owes \in SUBSET (2 .. Len(saved'.detail))
    BY <1>1, InvParts DEF Typed
  <2> QED BY <1>7, <1>9, <2>1, <2>2, <2>3 DEF Typed
<1>14. Ordered(n)'
  BY <1>6, <1>7, <1>10 DEF Ordered
<1>15. StrokeInv'
  BY <1>1, <1>6, <1>7, <1>11, <1>12 DEF StrokeInv
<1>16. LogInv'
  BY <1>1, <1>6, <1>7, <1>8, <1>9 DEF LogInv, Complete
<1>17. EditInv'
  BY <1>6 DEF EditInv
<1> QED BY <1>13, <1>14, <1>15, <1>16, <1>17 DEF Inv

LEMMA AppendFacts ==
  ASSUME NEW S, NEW p \in Seq(S), NEW x \in S
  PROVE  LET q == Append(p, x)
         IN  q \in Seq(S) /\ q # <<>> /\ Last(q) = x /\ Front(q) = p
<1> DEFINE q == Append(p, x)
<1>1. q \in Seq(S) /\ q # <<>> /\ Len(q) = Len(p) + 1 /\ q[Len(q)] = x
      /\ \A i \in 1 .. Len(p) : q[i] = p[i]
  OBVIOUS
<1> HIDE DEF q
<1>2. Last(q) = x
  BY <1>1 DEF Last
<1>3. Front(q) = p
  <2> DEFINE f == Front(q)
  <2>1. f \in Seq(S) /\ Len(f) = Len(q) - 1 /\ \A i \in 1 .. Len(q) - 1 : f[i] = q[i]
    BY <1>1, FrontFacts
  <2> HIDE DEF f
  <2>2. Len(p) \in Nat /\ Len(f) = Len(p) /\ \A i \in 1 .. Len(p) : f[i] = p[i]
    BY <1>1, <2>1
  <2>3. f = p
    BY <2>1, <2>2
  <2> QED BY <2>3 DEF f
<1> QED BY <1>1, <1>2, <1>3 DEF q

\* Where a stroke is open.
LEMMA Open ==
  ASSUME Inv, sess.open
  PROVE  /\ \E n : Stroking(mr, n, sess.level)
         /\ Strayed(mr, sess.level, sess.touched) /\ ~edited /\ future = <<>>
         /\ BoundAt(mr, sess.level) /\ sess.touched \in SUBSET Verts
         /\ sess.touched # {} => past # <<>> /\ Last(past).pos = Surf(mr, sess.level)
         /\ History(mr, sess.level, Complete, future)
         /\ sess.level \notin Unmirrored => sess.mirror
<1>1. Typed /\ StrokeInv /\ LogInv /\ \E n : Ordered(n)
  BY InvParts
<1>2. \E n : Stroking(mr, n, sess.level)
  BY <1>1 DEF Ordered
<1>3. /\ Strayed(mr, sess.level, sess.touched) /\ ~edited /\ future = <<>>
      /\ BoundAt(mr, sess.level)
      /\ sess.touched # {} => past # <<>> /\ Last(past).pos = Surf(mr, sess.level)
  BY <1>1 DEF StrokeInv
<1>4. sess.touched \in SUBSET Verts
  BY <1>1 DEF Typed, Sessions
<1>5. History(mr, sess.level, Complete, future)
  BY <1>1, <1>3 DEF LogInv
<1>6. sess.level \notin Unmirrored => sess.mirror
  <2>1. sess.level # 0 /\ sess.level \in Nat
    BY <1>2 DEF Stroking, Shaped
  <2>2. sess.mirror \in Mirrors
    BY <1>1, <2>1 DEF Typed
  <2> QED BY <2>1, <2>2 DEF Unmirrored
<1> QED BY <1>2, <1>3, <1>4, <1>5, <1>6

LEMMA StrokingFacts ==
  ASSUME NEW n, NEW s, NEW l, Stroking(s, n, l)
  PROVE  /\ Shaped(s, n) /\ n \in Nat /\ l \in 1 .. n /\ s \in Stack(n)
         /\ s.cache[l].pos \in Pos /\ Surf(s, l) \in Pos /\ s.disp[l] \in Detail
         /\ (Strayed(s, l, {}) => s.cache[l].pos = Surf(s, l))
<1>1. Shaped(s, n) /\ l \in 1 .. n
  BY DEF Stroking
<1>2. n \in Nat /\ s \in Stack(n) /\ l \in 0 .. n
  BY <1>1, ShapedFacts
<1>3. Surf(s, l) \in Pos
  BY <1>1, <1>2, ShapedFacts
<1>4. s.cache[l] \in PosCache /\ s.disp[l] \in Detail
  BY <1>1, <1>2, StackFields
<1>5. s.cache[l].pos \in Pos
  BY <1>4 DEF PosCache
<1>6. Strayed(s, l, {}) => s.cache[l].pos = Surf(s, l)
  <2> SUFFICES ASSUME Strayed(s, l, {}) PROVE s.cache[l].pos = Surf(s, l)
    OBVIOUS
  <2> DEFINE a == s.cache[l].pos
             b == Surf(s, l)
  <2>1. \A v \in Verts : a[v] = b[v]
    BY DEF Strayed
  <2>2. a \in Pos /\ b \in Pos
    BY <1>3, <1>5
  <2> HIDE DEF a, b
  <2>3. a = b
    BY <2>1, <2>2 DEF Pos
  <2> QED BY <2>3 DEF a, b
<1> QED BY <1>1, <1>2, <1>3, <1>4, <1>5, <1>6

LEMMA DabStep == ASSUME Inv, Dab PROVE Inv'
<1> DEFINE l == sess.level
           k == sess.touched
           moved(p) == Differing(mr, l, p)
           after(p) == IfMirrored([mr EXCEPT !.cache[l].pos = p], l, moved(p))
           begun == [pos |-> mr.cache[l].pos, chan |-> Base, disp |-> Flat,
                     pre |-> l \in mr.debt, post |-> FALSE]
<1>1. PICK p \in Pos :
        /\ moved(p) # {} /\ Becomes(after(p))
        /\ sess' = [sess EXCEPT !.touched = @ \union moved(p)]
        /\ past' = IF sess.touched # {} THEN past ELSE Append(past, begun)
  BY DEF Dab
<1>2. sess.open /\ UNCHANGED <<future, saved>>
  BY DEF Dab
<1>3. PICK n : Stroking(mr, n, l)
  BY <1>2, Open
<1> DEFINE w == moved(p)
           t == after(p)
           u == k \union w
<1>4. /\ Strayed(mr, l, k) /\ ~edited /\ future = <<>> /\ BoundAt(mr, l) /\ k \in SUBSET Verts
      /\ k # {} => past # <<>> /\ Last(past).pos = Surf(mr, l)
      /\ l \notin Unmirrored => sess.mirror
  BY <1>2, Open
<1>5. Stroking(t, n, l) /\ Strayed(t, l, u) /\ StrokeLike(mr, t, n, l)
  BY <1>3, <1>4, DabGood
<1>6. w # {} /\ w \in SUBSET Verts
  BY <1>1 DEF Differing
<1>7. mr' = t /\ edited' = FALSE
  BY <1>1, <1>4 DEF Becomes
<1>8. /\ sess' \in Sessions /\ sess'.level = l /\ sess'.open /\ sess'.touched = u
      /\ sess'.mirror = sess.mirror
  BY <1>1, <1>2, <1>4, <1>6, InvParts DEF Sessions
<1>9. past' = IF k # {} THEN past ELSE Append(past, begun)
  BY <1>1
<1> HIDE DEF t, w
<1>10. u # {}
  BY <1>6
<1> HIDE DEF u
<1>11. /\ Surf(t, l) = Surf(mr, l) /\ SameLevel(mr, t, l) /\ BoundAt(t, l)
  <2>1. \A j \in 0 .. n : Surf(t, j) = Surf(mr, j)
    <3>1. Resident(t, l) /\ l \notin Unmirrored => l \notin t.stale
      BY <1>5 DEF Stroking
    <3> QED BY <1>3, <1>5, <3>1, StillStroking
  <2>2. l \in 1 .. n /\ n \in Nat
    BY <1>3, StrokingFacts
  <2>3. l - 1 \in 0 .. n /\ l \in 0 .. n
    BY <2>2
  <2>4. Surf(t, l - 1) = Surf(mr, l - 1) /\ Surf(t, l) = Surf(mr, l)
    BY <2>1, <2>3
  <2>5. t.on = mr.on /\ t.disp = mr.disp /\ t.domains = mr.domains
    BY <1>5 DEF StrokeLike
  <2>6. SameLevel(mr, t, l)
    BY <2>4, <2>5 DEF SameLevel, Under
  <2> QED BY <1>4, <2>4, <2>5, <2>6 DEF BoundAt
<1>12. begun \in Step /\ begun.pos = mr.cache[l].pos
  <2>1. mr.cache[l].pos \in Pos
    BY <1>3, StrokingFacts
  <2> QED BY <2>1, ConstantFacts DEF Step
<1> HIDE DEF begun
<1>13. past' \in Seq(Step) /\ past' # <<>> /\ Last(past').pos = Surf(t, l) /\ Front(past') = Complete
  <2>1. CASE k # {}
    <3>1. past' = past /\ Complete = Front(past)
      BY <1>2, <1>9, <2>1 DEF Complete
    <3> QED BY <1>4, <1>11, <2>1, <3>1, InvParts
  <2>2. CASE k = {}
    <3>1. past' = Append(past, begun) /\ Complete = past
      BY <1>2, <1>9, <2>2 DEF Complete
    <3>2. mr.cache[l].pos = Surf(mr, l)
      BY <1>3, <1>4, <2>2, StrokingFacts
    <3>3. past \in Seq(Step)
      BY InvParts
    <3> DEFINE r == Append(past, begun)
    <3>4. r \in Seq(Step) /\ r # <<>> /\ Last(r) = begun /\ Front(r) = past
      BY <1>12, <3>3, AppendFacts
    <3> HIDE DEF r
    <3>5. past' = r
      BY <3>1 DEF r
    <3> QED BY <1>11, <1>12, <3>1, <3>2, <3>4, <3>5
  <2> QED BY <2>1, <2>2
<1>14. Complete' = Complete
  BY <1>8, <1>10, <1>13 DEF Complete
<1>15. History(t, l, Complete, future)
  <2>1. History(mr, l, Complete, future)
    BY <1>2, Open
  <2> QED BY <1>11, <2>1, HistoryKept
<1> HIDE DEF l, k
<1>16. Typed'
  <2>1. future' \in Seq(Step)
    BY <1>2, InvParts
  <2>2. (sess'.level # 0 => sess'.mirror \in Mirrors)
    BY <1>8, InvParts DEF Typed, l
  <2>3. saved'.detail \in Seq(Detail) /\ saved'.owes \in SUBSET (2 .. Len(saved'.detail))
    BY <1>2, InvParts DEF Typed
  <2>4. edited' \in BOOLEAN
    BY <1>7
  <2> QED BY <1>8, <1>13, <2>1, <2>2, <2>3, <2>4 DEF Typed
<1>17. Ordered(n)'
  BY <1>5, <1>7, <1>8 DEF Ordered
<1>18. StrokeInv'
  BY <1>2, <1>4, <1>5, <1>7, <1>8, <1>11, <1>13 DEF StrokeInv
<1>19. LogInv'
  BY <1>2, <1>7, <1>8, <1>14, <1>15 DEF LogInv
<1>20. EditInv'
  BY <1>7 DEF EditInv
<1> QED BY <1>16, <1>17, <1>18, <1>19, <1>20 DEF Inv

LEMMA EndStrokeStep == ASSUME Inv, EndStroke PROVE Inv'
<1> DEFINE l == sess.level
           k == sess.touched
           d == mr.disp[l][mr.target]
           b == l \in mr'.debt
           after == IfMirrored(FoldStroke(mr, l, k), l, k)
           t == IF k = {} THEN mr ELSE after
           F == {}
<1>1. sess.open /\ sess' = [sess EXCEPT !.open = FALSE] /\ UNCHANGED <<future, saved>>
  BY DEF EndStroke
<1>2. Becomes(t) /\ past' = IF k = {} THEN past ELSE Noted(past, mr.target, d, b)
  <2>1. CASE k = {}
    BY <2>1 DEF EndStroke
  <2>2. CASE k # {}
    BY <2>2 DEF EndStroke, Noted
  <2> QED BY <2>1, <2>2
<1>3. PICK n : Stroking(mr, n, l)
  BY <1>1, Open
<1>4. /\ Strayed(mr, l, k) /\ future = <<>>
      /\ k # {} => past # <<>> /\ Last(past).pos = Surf(mr, l)
      /\ l \notin Unmirrored => sess.mirror
      /\ History(mr, l, Complete, <<>>)
  BY <1>1, Open
<1>5. Shaped(mr, n) /\ l \in 1 .. n /\ past \in Seq(Step) /\ n \in Nat /\ mr \in Stack(n)
  BY <1>3, StrokingFacts, InvParts
<1>6. ~sess'.open /\ sess' \in Sessions /\ sess'.level = l /\ sess'.mirror = sess.mirror
  BY <1>1, InvParts DEF Sessions
<1>7. Good(t, n, F) /\ past' \in Seq(Step) /\ History(t, l, past', <<>>)
  <2>1. CASE k = {}
    <3>1. past' = past /\ t = mr /\ Complete = past
      BY <1>2, <2>1 DEF Complete
    <3>2. Good(mr, n, {})
      BY <1>3, <1>4, <2>1, NothingStroked
    <3> QED BY <1>4, <1>5, <3>1, <3>2
  <2>2. CASE k # {}
    <3>1. past' = Noted(past, mr.target, d, b) /\ t = after /\ Complete = Front(past) /\ mr' = t
      BY <1>1, <1>2, <2>2 DEF Complete, Becomes
    <3>2. /\ Good(after, n, {}) /\ after.on = mr.on /\ Under(after, l) = Under(mr, l)
          /\ \A x \in Channels \ {mr.target} : after.disp[l][x] = mr.disp[l][x]
      BY <1>3, <1>4, EndedGood
    <3> HIDE DEF after
    <3> DEFINE c == mr.target
               r == Noted(past, c, d, b)
    <3>3. c \in Channels /\ d \in Pos /\ b \in BOOLEAN
      <4>1. c \in Channels /\ mr.disp[l] \in Detail
        BY <1>5, StackFields
      <4>2. d \in Pos
        BY <4>1 DEF Detail
      <4> QED BY <4>1, <4>2
    <3>4. after.disp[l] \in Detail
      <4>1. after \in Stack(n)
        BY <3>2, ShapedFacts DEF Good, UpTo
      <4> QED BY <1>5, <4>1, StackFields
    <3>5. \A x \in Channels \ {c} : after.disp[l][x] = mr.disp[l][x]
      BY <3>2
    <3>6. d = mr.disp[l][c]
      OBVIOUS
    <3>7. past' = r
      BY <3>1
    <3> HIDE DEF b, c, d
    <3>8. r \in Seq(Step)
      BY <1>4, <1>5, <2>2, <3>3, Noting
    <3>9. History(after, l, r, <<>>)
      <4>1. past # <<>> /\ Last(past).pos = Surf(mr, l) /\ History(mr, l, Front(past), <<>>)
        BY <1>4, <2>2, <3>1
      <4>2. after.on = mr.on /\ Under(after, l) = Under(mr, l)
        BY <3>2
      <4> HIDE DEF l, r
      <4>3. History(after, l, Noted(past, c, mr.disp[l][c], b), <<>>)
        BY <1>5, <3>3, <3>4, <3>5, <4>1, <4>2, Recorded
      <4> QED BY <3>6, <4>3 DEF r
    <3> HIDE DEF r
    <3> QED BY <3>1, <3>2, <3>7, <3>8, <3>9
  <2> QED BY <2>1, <2>2
<1>8. F = {}
  OBVIOUS
<1> HIDE DEF t, F
<1>9. Left(t, F)
  BY <1>8, LeftNone
<1>10. BoundAt(t, sess'.level) => History(t, sess'.level, past', future')
  BY <1>1, <1>4, <1>6, <1>7
<1>11. sess'.level # 0 => sess'.mirror \in Mirrors
  BY <1>6, InvParts DEF Typed
<1>12. future' \in Seq(Step) /\ UNCHANGED saved
  BY <1>1, InvParts
<1> QED BY <1>2, <1>6, <1>7, <1>9, <1>10, <1>11, <1>12, Settling

\* Where the log may move.
LEMMA Seeking ==
  ASSUME Inv, CanSeek
  PROVE  /\ ~sess.open /\ \E n : Good(mr, n, {})
         /\ BoundAt(mr, sess.level) /\ mr.domains[sess.level] # "none"
         /\ sess.level \in Levels(mr) /\ History(mr, sess.level, past, future)
         /\ sess.level \notin Unmirrored => sess.mirror
<1>1. /\ ~sess.open /\ ~edited /\ sess.level \in Levels(mr) /\ mr.domains[sess.level] = "bound"
  BY DEF CanSeek, Idle
<1>2. PICK n : Good(mr, n, {})
  BY <1>1, QuietBare
<1>3. sess.level \in 1 .. n /\ mr \in Stack(n) /\ n \in Nat
  BY <1>1, <1>2, QuietDepth
<1>4. BoundAt(mr, sess.level)
  BY <1>1, <1>3, StackFields DEF BoundAt
<1>5. History(mr, sess.level, past, future)
  BY <1>1, <1>4, InvParts DEF LogInv, Complete
<1>6. sess.level \notin Unmirrored => sess.mirror
  <2>1. sess.level # 0 /\ sess.level \in Nat
    BY <1>3
  <2>2. sess.mirror \in Mirrors
    BY <2>1, InvParts DEF Typed
  <2> QED BY <2>1, <2>2 DEF Unmirrored
<1> QED BY <1>1, <1>2, <1>4, <1>5, <1>6

LEMMA OtherSideIs ==
  ASSUME NEW n, Good(mr, n, {}), sess.level \in 1 .. n, mr.domains[sess.level] # "none",
         NEW step \in Step
  PROVE  Reverses(mr, sess.level, OtherSide(step), step)
<1> DEFINE l == sess.level
           a == mr.cache[l].pos
           b == mr.disp[l][step.chan]
           o == [step EXCEPT !.pos = a, !.disp = b]
<1>1. mr \in Stack(n) /\ n \in Nat
  BY QuietDepth
<1>2. mr.cache[l].valid /\ mr.cache[l].pos = Surf(mr, l)
  <2>1. Orderly(mr, l, {})
    BY DEF Good, UpTo
  <2> QED BY <2>1 DEF Orderly, Pins, Held
<1>3. a \in Pos
  <2>1. mr.cache[l] \in PosCache
    BY <1>1, StackFields
  <2> QED BY <2>1 DEF PosCache
<1>4. b \in Pos
  <2>1. mr.disp[l] \in Detail /\ step.chan \in Channels
    BY <1>1, StackFields DEF Step
  <2> QED BY <2>1 DEF Detail
<1>5. a = Surf(mr, l)
  BY <1>2
<1>6. OtherSide(step) = o
  BY DEF OtherSide
<1>7. b = mr.disp[l][step.chan]
  OBVIOUS
<1> HIDE DEF a, b
<1>8. o \in Step /\ o.chan = step.chan /\ o.disp = b /\ o.pos = a
  BY <1>3, <1>4 DEF Step
<1> HIDE DEF o
<1> QED BY <1>5, <1>6, <1>7, <1>8 DEF Reverses

LEMMA UndoStrokeStep == ASSUME Inv, UndoStroke PROVE Inv'
<1> DEFINE l == sess.level
           step == Last(past)
           t == Swapped(step, step.pre)
           o == OtherSide(step)
           q == <<o>> \o future
           F == {}
<1>1. /\ CanSeek /\ past # <<>> /\ Becomes(t) /\ future' = q /\ past' = Front(past)
      /\ UNCHANGED <<sess, saved>>
  BY DEF UndoStroke
<1>2. PICK n : Good(mr, n, F)
  BY <1>1, Seeking
<1>3. /\ ~sess.open /\ l \in 1 .. n /\ Shaped(mr, n) /\ mr.domains[l] # "none"
      /\ History(mr, l, past, future) /\ (l \notin Unmirrored => sess.mirror)
  BY <1>1, <1>2, Seeking, QuietDepth
<1>4. PICK e : Undoes(mr, l, past, future, e)
  BY <1>1, <1>3, Undoing
<1>5. /\ Consistent(mr, l, step, e) /\ step \in Step
      /\ \A x, y : Replays(mr, x, l, e) /\ Reverses(mr, l, y, step)
                     => History(x, l, Front(past), <<y>> \o future)
  BY <1>4 DEF Undoes
<1>6. Good(t, n, F) /\ Replays(mr, t, l, e)
  <2>1. Good(t, n, {}) /\ t.on = mr.on /\ Under(t, l) = Under(mr, l) /\ t.disp[l] = e
    <3> DEFINE owing == step.pre
    <3>1. Good(mr, n, {}) /\ Consistent(mr, l, step, e)
      BY <1>2, <1>5
    <3>2. t = Swapped(step, owing)
      OBVIOUS
    <3> HIDE DEF step, owing, t
    <3> QED BY <1>3, <3>1, <3>2, SwappedGood
  <2> HIDE DEF t
  <2> QED BY <2>1 DEF Replays
<1>7. Reverses(mr, l, o, step)
  <2>1. Good(mr, n, {})
    BY <1>2
  <2> HIDE DEF step
  <2> QED BY <1>3, <1>5, <2>1, OtherSideIs
<1>8. History(t, l, Front(past), q)
  BY <1>5, <1>6, <1>7
<1>9. F = {}
  OBVIOUS
<1> HIDE DEF t, F
<1>10. Left(t, F)
  BY <1>9, LeftNone
<1>11. past' \in Seq(Step) /\ future' \in Seq(Step)
  <2>1. Front(past) \in Seq(Step)
    BY <1>1, FrontFacts, InvParts
  <2>2. o \in Step
    BY <1>7 DEF Reverses
  <2> HIDE DEF o
  <2>3. q \in Seq(Step)
    BY <2>2, InvParts
  <2> QED BY <1>1, <2>1, <2>3
<1>12. ~sess'.open /\ sess' \in Sessions /\ (sess'.level # 0 => sess'.mirror \in Mirrors)
  BY <1>1, <1>3, InvParts DEF Typed
<1>13. BoundAt(t, sess'.level) => History(t, sess'.level, past', future')
  BY <1>1, <1>8
<1> QED BY <1>1, <1>6, <1>10, <1>11, <1>12, <1>13, Settling

LEMMA RedoStrokeStep == ASSUME Inv, RedoStroke PROVE Inv'
<1> DEFINE l == sess.level
           step == Head(future)
           t == Swapped(step, step.post)
           o == OtherSide(step)
           q == Append(past, o)
           F == {}
<1>1. /\ CanSeek /\ future # <<>> /\ Becomes(t) /\ past' = q /\ future' = Tail(future)
      /\ UNCHANGED <<sess, saved>>
  BY DEF RedoStroke
<1>2. PICK n : Good(mr, n, F)
  BY <1>1, Seeking
<1>3. /\ ~sess.open /\ l \in 1 .. n /\ Shaped(mr, n) /\ mr.domains[l] # "none"
      /\ History(mr, l, past, future) /\ (l \notin Unmirrored => sess.mirror)
  BY <1>1, <1>2, Seeking, QuietDepth
<1>4. PICK e : Redoes(mr, l, past, future, e)
  BY <1>1, <1>3, Redoing
<1>5. /\ Consistent(mr, l, step, e) /\ step \in Step
      /\ \A x, y : Replays(mr, x, l, e) /\ Reverses(mr, l, y, step)
                     => History(x, l, Append(past, y), Tail(future))
  BY <1>4 DEF Redoes
<1>6. Good(t, n, F) /\ Replays(mr, t, l, e)
  <2>1. Good(t, n, {}) /\ t.on = mr.on /\ Under(t, l) = Under(mr, l) /\ t.disp[l] = e
    <3> DEFINE owing == step.post
    <3>1. Good(mr, n, {}) /\ Consistent(mr, l, step, e)
      BY <1>2, <1>5
    <3>2. t = Swapped(step, owing)
      OBVIOUS
    <3> HIDE DEF step, owing, t
    <3> QED BY <1>3, <3>1, <3>2, SwappedGood
  <2> HIDE DEF t
  <2> QED BY <2>1 DEF Replays
<1>7. Reverses(mr, l, o, step)
  <2>1. Good(mr, n, {})
    BY <1>2
  <2> HIDE DEF step
  <2> QED BY <1>3, <1>5, <2>1, OtherSideIs
<1>8. History(t, l, q, Tail(future))
  BY <1>5, <1>6, <1>7
<1>9. F = {}
  OBVIOUS
<1> HIDE DEF t, F
<1>10. Left(t, F)
  BY <1>9, LeftNone
<1>11. past' \in Seq(Step) /\ future' \in Seq(Step)
  <2>1. Tail(future) \in Seq(Step)
    BY <1>1, TailFacts, InvParts
  <2>2. o \in Step
    BY <1>7 DEF Reverses
  <2> HIDE DEF o
  <2>3. q \in Seq(Step)
    BY <2>2, InvParts
  <2> QED BY <1>1, <2>1, <2>3
<1>12. ~sess'.open /\ sess' \in Sessions /\ (sess'.level # 0 => sess'.mirror \in Mirrors)
  BY <1>1, <1>3, InvParts DEF Typed
<1>13. BoundAt(t, sess'.level) => History(t, sess'.level, past', future')
  BY <1>1, <1>8
<1> QED BY <1>1, <1>6, <1>10, <1>11, <1>12, <1>13, Settling

-----------------------------------------------------------------------------
(* The theorems.                                                           *)

LEMMA StepInv == Inv /\ [Next]_vars => Inv'
<1> SUFFICES ASSUME Inv, [Next]_vars PROVE Inv'
  OBVIOUS
<1>1. CASE SwitchLevel
  BY <1>1, SwitchLevelStep
<1>2. CASE MeshEdit \/ WritebackLevel
  BY <1>2, MeshEditStep, WritebackLevelStep
<1>3. CASE MaterializeLevel \/ FetchDomain
  BY <1>3, MaterializeLevelStep, FetchDomainStep
<1>4. CASE DownRefit
  BY <1>4, DownRefitStep
<1>5. CASE SeedLevel \/ FromLevelPositions \/ CaptureToVdm
  BY <1>5, SeedLevelStep, FromLevelPositionsStep, CaptureToVdmStep
<1>6. CASE AddLevel \/ RemoveTopLevel
  BY <1>6, AddLevelStep, RemoveTopLevelStep
<1>7. CASE LayerSetEnabled \/ EditTarget
  BY <1>7, LayerSetEnabledStep, EditTargetStep
<1>8. CASE SerializeStore \/ RestoreStore
  BY <1>8, SerializeStoreStep, RestoreStoreStep
<1>9. CASE OpenSession \/ SetMirror \/ BeginStroke \/ Dab \/ EndStroke
  BY <1>9, OpenSessionStep, SetMirrorStep, BeginStrokeStep, DabStep, EndStrokeStep
<1>10. CASE UndoStroke \/ RedoStroke \/ DropOldest
  BY <1>10, UndoStrokeStep, RedoStrokeStep, DropOldestStep
<1>11. CASE UNCHANGED vars
  BY <1>11, StutterStep
<1> QED
  BY <1>1, <1>2, <1>3, <1>4, <1>5, <1>6, <1>7, <1>8, <1>9, <1>10, <1>11 DEF Next

(* The invariant holds in every reachable state. *)
THEOREM Invariance == Spec => []Inv
BY InitInv, StepInv, PTL DEF Spec

\* What holds between strokes and in one.
LEMMA InvShape ==
  ASSUME Inv
  PROVE  \E n : /\ Shaped(mr, n) /\ mr \in Stack(n) /\ n \in Nat /\ n \in 1 .. MaxLevels
                /\ Depth(mr) = n /\ Levels(mr) = 1 .. n
                /\ IF sess.open THEN Stroking(mr, n, sess.level) ELSE Good(mr, n, Ahead)
<1>1. PICK n : Ordered(n)
  BY InvParts
<1>2. Shaped(mr, n)
  BY <1>1 DEF Ordered, Stroking, Good, UpTo
<1> QED BY <1>1, <1>2, ShapedFacts, StackFields DEF Ordered

LEMMA LevelsOnce ==
  ASSUME NEW q, Distinct(q)
  PROVE  Cardinality({x.level : x \in ToSet(q)}) = Len(q)
<1> DEFINE N == Len(q)
           L == {x.level : x \in ToSet(q)}
           f == [i \in 1 .. N |-> q[i].level]
<1>1. N \in Nat /\ DOMAIN q = 1 .. N
  BY DEF Distinct
<1>2. L = {q[i].level : i \in 1 .. N}
  BY <1>1 DEF ToSet
<1>3. \A i, j \in 1 .. N : q[i].level = q[j].level => i = j
  BY <1>1 DEF Distinct
<1> HIDE DEF N, L
<1>4. f \in [1 .. N -> L] /\ (\A i, j \in 1 .. N : f[i] = f[j] => i = j)
      /\ (\A y \in L : \E i \in 1 .. N : f[i] = y)
  BY <1>2, <1>3
<1> HIDE DEF f
<1>5. f \in Bijection(1 .. N, L)
  BY <1>4 DEF Bijection, Injection, Surjection, IsInjective
<1>6. ExistsBijection(1 .. N, L)
  BY <1>5 DEF ExistsBijection
<1>7. IsFiniteSet(1 .. N) /\ Cardinality(1 .. N) = N
  BY <1>1, FS_Interval
<1>8. Cardinality(L) = Cardinality(1 .. N)
  BY <1>6, <1>7, FS_Bijection
<1> QED BY <1>7, <1>8 DEF L, N

LEMMA InvTypes == Inv => TypeOK
<1> SUFFICES ASSUME Inv PROVE TypeOK
  OBVIOUS
<1>1. PICK n : /\ Shaped(mr, n) /\ mr \in Stack(n) /\ n \in Nat /\ n \in 1 .. MaxLevels
               /\ Depth(mr) = n /\ Levels(mr) = 1 .. n
  BY InvShape
<1>2. \A l \in Levels(mr) : mr.disp[l] \in [Channels -> Pos] /\ mr.cache[l] \in PosCache
                            /\ mr.domains[l] \in {"none", "new", "bound"}
  BY <1>1, StackFields DEF Detail, Kinds
<1>3. DOMAIN mr.cache = Levels(mr) /\ DOMAIN mr.domains = Levels(mr)
  BY <1>1, StackFields
<1>4. mr.on \in [Layers -> BOOLEAN] /\ mr.target \in Channels
      /\ mr.active \in 0 .. Depth(mr) /\ mr.debt \subseteq 2 .. Depth(mr)
  BY <1>1, StackFields
<1>5. Len(mr.slots) <= Max({1, Budget})
  BY <1>1 DEF Shaped, Room
<1>6. Cardinality({x.level : x \in ToSet(mr.slots)}) = Len(mr.slots)
  BY <1>1, LevelsOnce DEF Shaped
<1>7. Depth(mr) \in 1 .. MaxLevels
  BY <1>1
<1> QED BY <1>2, <1>3, <1>4, <1>5, <1>6, <1>7 DEF TypeOK

\* Every level but the one sculpted is in order, but for the edit of a slot.
LEMMA InvLevel ==
  ASSUME Inv, NEW l \in Levels(mr), ~Sculpting(l)
  PROVE  Orderly(mr, l, Ahead)
<1>1. PICK n : /\ Levels(mr) = 1 .. n
               /\ IF sess.open THEN Stroking(mr, n, sess.level) ELSE Good(mr, n, Ahead)
  BY InvShape
<1>2. CASE sess.open
  <2>1. l # sess.level
    BY <1>2 DEF Sculpting
  <2>2. Orderly(mr, l, {})
    BY <1>1, <1>2, <2>1 DEF Stroking
  <2> QED BY <2>2 DEF Orderly, Showing
<1>3. CASE ~sess.open
  BY <1>1, <1>3 DEF Good, UpTo
<1> QED BY <1>2, <1>3

\* So is the base of the one sculpted.
LEMMA InvSculpted ==
  ASSUME Inv, NEW l \in Levels(mr), Sculpting(l)
  PROVE  /\ mr.cache[l].valid /\ mr.cache[l].base = Under(mr, l)
         /\ mr.cache[l].base # NoBase
<1>1. PICK n : /\ Shaped(mr, n) /\ Levels(mr) = 1 .. n
               /\ IF sess.open THEN Stroking(mr, n, sess.level) ELSE Good(mr, n, Ahead)
  BY InvShape
<1>2. Stroking(mr, n, l)
  BY <1>1 DEF Sculpting
<1>3. Under(mr, l) # NoBase
  BY <1>1, ShapedFacts
<1> QED BY <1>2, <1>3 DEF Stroking

LEMMA InvCaches == Inv => CacheCurrent
<1> SUFFICES ASSUME Inv, NEW l \in Levels(mr)
             PROVE  LET c == mr.cache[l]
                    IN  /\ c.valid /\ ~Sculpting(l) => c.pos = Shows(l)
                        /\ c.valid => /\ c.base # NoBase => c.base = Stencil[Shows(l - 1)]
                                      /\ c.posIsBase /\ c.base = NoBase
                                            => c.pos = Stencil[Shows(l - 1)]
  BY DEF CacheCurrent, ChainCurrent, BaseCurrent
<1>1. Shows(l) = Surf(mr, l) /\ Stencil[Shows(l - 1)] = Under(mr, l)
  BY DEF Shows, Surf, Under
<1>2. CASE ~Sculpting(l)
  <2>1. Held(mr, l)
    BY <1>2, InvLevel DEF Orderly
  <2> QED BY <1>1, <2>1 DEF Held
<1>3. CASE Sculpting(l)
  BY <1>1, <1>3, InvSculpted
<1> QED BY <1>2, <1>3

LEMMA InvPins == Inv => BaselinesPinned
<1> SUFFICES ASSUME Inv, NEW l \in Levels(mr) PROVE Pins(mr, l)
  BY DEF BaselinesPinned, Pins
<1>1. CASE ~Sculpting(l)
  BY <1>1, InvLevel DEF Orderly
<1>2. CASE Sculpting(l)
  BY <1>2, InvSculpted DEF Pins
<1> QED BY <1>1, <1>2

\* Types and sizes: one entry per level of the refiner in every list, at most
\* Budget slots (one if none), no slot twice, whatever the host calls.
THEOREM TypesHold == Spec => []TypeOK
BY Invariance, InvTypes, PTL

\* What ensureChain and the folds trust is so in every reachable state: a
\* valid entry is the surface the store describes and its base the subdivided
\* surface below.
THEOREM CachesAlwaysCurrent == Spec => []CacheCurrent
BY Invariance, InvCaches, PTL

\* writeback() finds a valid baseline, a grid domain a base copied out.
THEOREM BaselinesAlwaysPinned == Spec => []BaselinesPinned
BY Invariance, InvPins, PTL

\* With a session that mirrors, a slot shows its level.
THEOREM SlotsCurrentIfMirrored ==
  ASSUME Mirrors \subseteq {TRUE}
  PROVE  Spec => []SlotCurrent
<1>1. Unmirrored = {}
  BY DEF Unmirrored
<1>2. Inv => SlotCurrent
  <2> SUFFICES ASSUME Inv, NEW l \in Levels(mr), Resident(mr, l), l \notin mr.stale, ~Sculpting(l)
               PROVE  SlotMesh(mr, l) = Shows(l) \/ (edited /\ l = mr.active)
    BY DEF SlotCurrent
  <2>1. Showing(mr, l, Ahead)
    BY InvLevel DEF Orderly
  <2>2. l \notin Ahead => SlotMesh(mr, l) = Surf(mr, l)
    BY <1>1, <2>1 DEF Showing
  <2> QED BY <2>2 DEF Ahead, Shows, Surf
<1> QED BY <1>2, Invariance, PTL
=============================================================================
