------------------------- MODULE ElemFreeListProofs -------------------------
(* Proofs about the element allocator, for every page size and every bound. *)
EXTENDS ElemFreeList, FiniteSetTheorems, SequenceTheorems, TLAPS

-----------------------------------------------------------------------------
(* Slots and pages.                                                        *)

\* A slot lies in its page.
LEMMA PageBounds ==
  ASSUME NEW i \in Nat
  PROVE  /\ PageOf(i) \in Nat
         /\ PageOf(i) * PageSize <= i
         /\ i < PageOf(i) * PageSize + PageSize
BY ElemFreeListAssumption, SMT DEF PageOf

\* A page ends where the next one begins, or before a later one.
LEMMA PageStep ==
  ASSUME NEW a \in Nat, NEW b \in Nat, a < b
  PROVE  a * PageSize + PageSize <= b * PageSize
<1>1. PICK d \in Nat : b = a + 1 + d
  <2>1. b - a - 1 \in Nat /\ b = a + 1 + (b - a - 1)
    OBVIOUS
  <2> QED BY <2>1
<1>2. b * PageSize = a * PageSize + PageSize + d * PageSize
  BY <1>1, ElemFreeListAssumption
<1>3. d * PageSize \in Nat
  BY ElemFreeListAssumption
<1> QED BY <1>2, <1>3, ElemFreeListAssumption

\* Two pages share no slot.
LEMMA PageUnique ==
  ASSUME NEW p \in Nat, NEW i \in InPage(p)
  PROVE  i \in Nat /\ PageOf(i) = p
<1>1. i \in Nat
  BY ElemFreeListAssumption DEF InPage
<1>2. \A a, b \in Nat : a < b => a * PageSize + PageSize <= b * PageSize
  BY PageStep
<1>3. p * PageSize \in Nat /\ p * PageSize <= i /\ i < p * PageSize + PageSize
  BY ElemFreeListAssumption DEF InPage
<1> DEFINE q == PageOf(i)
<1>4. q \in Nat /\ q * PageSize \in Nat /\ q * PageSize <= i /\ i < q * PageSize + PageSize
  BY <1>1, PageBounds, ElemFreeListAssumption
<1> HIDE DEF q
<1>5. ~(q < p)
  <2> SUFFICES ASSUME q < p PROVE FALSE
    OBVIOUS
  <2>1. q * PageSize + PageSize <= p * PageSize
    BY <1>2, <1>4
  <2> QED BY <2>1, <1>1, <1>3, <1>4, ElemFreeListAssumption
<1>6. ~(p < q)
  <2> SUFFICES ASSUME p < q PROVE FALSE
    OBVIOUS
  <2>1. p * PageSize + PageSize <= q * PageSize
    BY <1>2, <1>4
  <2> QED BY <2>1, <1>1, <1>3, <1>4, ElemFreeListAssumption
<1>7. q = p
  BY <1>4, <1>5, <1>6
<1> QED BY <1>1, <1>7 DEF q

\* The slots of the first n pages are those whose page comes before n.
LEMMA SlotPage ==
  ASSUME NEW n \in Nat
  PROVE  /\ Slots(n) = {i \in Nat : PageOf(i) < n}
         /\ Slots(n) \subseteq Nat
         /\ IsFiniteSet(Slots(n))
         /\ Cardinality(Slots(n)) = n * PageSize
<1>1. n * PageSize \in Nat
  BY ElemFreeListAssumption
<1>2. ASSUME NEW i \in Nat PROVE i < n * PageSize <=> PageOf(i) < n
  <2> DEFINE q == PageOf(i)
  <2>1. q \in Nat /\ q * PageSize \in Nat /\ q * PageSize <= i /\ i < q * PageSize + PageSize
    BY PageBounds, ElemFreeListAssumption
  <2> HIDE DEF q
  <2>2. CASE q < n
    <3>1. q * PageSize + PageSize <= n * PageSize
      BY <2>1, <2>2, PageStep
    <3>2. i < n * PageSize
      BY <3>1, <2>1, <1>1, ElemFreeListAssumption
    <3> QED BY <3>2, <2>2 DEF q
  <2>3. CASE n < q
    <3>1. n * PageSize + PageSize <= q * PageSize
      BY <2>1, <2>3, PageStep
    <3>2. ~(i < n * PageSize)
      BY <3>1, <2>1, <1>1, ElemFreeListAssumption
    <3>3. ~(q < n)
      BY <2>1, <2>3
    <3> QED BY <3>2, <3>3 DEF q
  <2>4. CASE n = q
    <3>1. ~(i < n * PageSize)
      BY <2>1, <2>4, <1>1
    <3>2. ~(q < n)
      BY <2>1, <2>4
    <3> QED BY <3>1, <3>2 DEF q
  <2> QED BY <2>1, <2>2, <2>3, <2>4
<1>3. Slots(n) = {i \in Nat : i < n * PageSize}
  BY <1>1 DEF Slots
<1>4. Slots(n) = {i \in Nat : PageOf(i) < n}
  BY <1>2, <1>3
<1>5. IsFiniteSet(Slots(n)) /\ Cardinality(Slots(n)) = n * PageSize
  <2>1. \A m \in Nat : IsFiniteSet(0 .. m - 1) /\ Cardinality(0 .. m - 1) = m
    BY FS_Interval
  <2> QED BY <1>1, <2>1, Zenon DEF Slots
<1> QED BY <1>3, <1>4, <1>5

-----------------------------------------------------------------------------
(* Greatest members and descending sequences.                              *)

\* A finite non-empty set of naturals has a greatest member.
LEMMA GreatestExists ==
  ASSUME NEW S \in SUBSET Nat, S # {}, NEW n \in Nat, \A x \in S : x <= n
  PROVE  Max(S) \in S /\ \A x \in S : x <= Max(S)
<1> DEFINE T == {n - x : x \in S}
<1>1. T \subseteq Nat /\ T # {}
  <2>1. \A x \in S : n - x \in Nat
    OBVIOUS
  <2>2. \E x \in S : n - x \in T
    OBVIOUS
  <2> QED BY <2>1, <2>2
<1>2. PICK m \in T : \A y \in T : ~(<<y, m>> \in OpToRel(<, Nat))
  BY <1>1, NatLessThanWellFounded, WFMin
<1>3. \A y \in T : ~(y < m)
  BY <1>1, <1>2 DEF OpToRel
<1>4. PICK x \in S : m = n - x
  OBVIOUS
<1>5. \A y \in S : x >= y
  BY <1>3, <1>4
<1> QED BY <1>4, <1>5 DEF Max

\* And a least one.
LEMMA LeastExists ==
  ASSUME NEW S \in SUBSET Nat, S # {}
  PROVE  Min(S) \in S /\ \A x \in S : Min(S) <= x
<1>1. PICK m \in S : \A y \in S : ~(<<y, m>> \in OpToRel(<, Nat))
  BY NatLessThanWellFounded, WFMin
<1>2. \A y \in S : ~(y < m)
  BY <1>1 DEF OpToRel
<1>3. \A y \in S : m <= y
  BY <1>2
<1> QED BY <1>3 DEF Min

\* Descending lists a finite set of naturals, each member once, the greater
\* before the smaller.
LEMMA DescendingLists ==
  ASSUME NEW S \in SUBSET Nat, IsFiniteSet(S)
  PROVE  /\ Cardinality(S) \in Nat
         /\ Descending(S) \in [1 .. Cardinality(S) -> S]
         /\ \A i \in S : \E k \in 1 .. Cardinality(S) : Descending(S)[k] = i
         /\ \A k, m \in 1 .. Cardinality(S) : k < m => Descending(S)[k] > Descending(S)[m]
<1> DEFINE n == Cardinality(S)
           Above(i) == {j \in S : j >= i}
           rank == [i \in S |-> Cardinality(Above(i))]
<1>1. n \in Nat
  BY FS_CardinalityType
<1>2. ASSUME NEW i \in S
      PROVE  IsFiniteSet(Above(i)) /\ rank[i] \in 1 .. n
  <2>1. IsFiniteSet(Above(i)) /\ Cardinality(Above(i)) <= n
    BY FS_Subset
  <2>2. i \in Above(i)
    OBVIOUS
  <2>3. Cardinality(Above(i)) # 0 /\ Cardinality(Above(i)) \in Nat
    BY <2>1, <2>2, FS_EmptySet, FS_CardinalityType
  <2> QED BY <1>1, <2>1, <2>3
<1>3. ASSUME NEW i \in S, NEW j \in S, i > j
      PROVE  rank[i] < rank[j]
  <2>1. Above(i) \in SUBSET Above(j)
    <3>1. \A k \in S : k >= i => k >= j
      BY <1>3
    <3> QED BY <3>1
  <2>2. j \in Above(j) /\ j \notin Above(i)
    BY <1>3
  <2>3. Cardinality(Above(i)) <= Cardinality(Above(j))
    BY <1>2, <2>1, FS_Subset
  <2>4. Cardinality(Above(i)) # Cardinality(Above(j))
    BY <1>2, <2>1, <2>2, FS_Subset
  <2> QED BY <2>3, <2>4, <1>1, <1>2
<1>4. rank \in Injection(S, 1 .. n)
  <2>1. rank \in [S -> 1 .. n]
    BY <1>2
  <2>2. \A i, j \in S : rank[i] = rank[j] => i = j
    <3> SUFFICES ASSUME NEW i \in S, NEW j \in S, rank[i] = rank[j], i # j PROVE FALSE
      OBVIOUS
    <3>1. i > j \/ j > i
      OBVIOUS
    <3>2. rank[i] \in Nat /\ rank[j] \in Nat
      BY <1>1, <1>2
    <3> HIDE DEF rank
    <3> QED BY <1>3, <3>1, <3>2
  <2> HIDE DEF rank
  <2> QED BY <2>1, <2>2 DEF Injection, IsInjective
<1>5. rank \in Surjection(S, 1 .. n)
  <2>1. IsFiniteSet(1 .. n) /\ Cardinality(1 .. n) = n
    BY <1>1, FS_Interval
  <2> QED BY <1>4, <2>1, FS_Injection
<1>6. ASSUME NEW k \in 1 .. n
      PROVE  Descending(S)[k] \in S /\ rank[Descending(S)[k]] = k
  <2>1. \E i \in S : rank[i] = k
    BY <1>5 DEF Surjection
  <2>2. \E i \in S : Cardinality(Above(i)) = k
    BY <2>1
  <2>3. Descending(S)[k] = CHOOSE i \in S : Cardinality(Above(i)) = k
    BY DEF Descending
  <2> QED BY <2>2, <2>3
<1>7. DOMAIN Descending(S) = 1 .. n
  BY DEF Descending
<1>8. Descending(S) \in [1 .. n -> S]
  <2>1. Descending(S) = [k \in 1 .. n |-> Descending(S)[k]]
    BY DEF Descending
  <2> QED BY <2>1, <1>6
<1>9. ASSUME NEW i \in S
      PROVE  \E k \in 1 .. n : Descending(S)[k] = i
  <2>1. rank[i] \in 1 .. n
    BY <1>2
  <2>2. Descending(S)[rank[i]] = i
    BY <1>4, <1>6, <2>1 DEF Injection, IsInjective
  <2> QED BY <2>1, <2>2
<1>10. ASSUME NEW k \in 1 .. n, NEW m \in 1 .. n, k < m
       PROVE  Descending(S)[k] > Descending(S)[m]
  <2> DEFINE i == Descending(S)[k]
             j == Descending(S)[m]
  <2>1. i \in S /\ j \in S /\ rank[i] = k /\ rank[j] = m
    BY <1>6
  <2> HIDE DEF i, j, rank
  <2>2. i # j
    BY <2>1, <1>10
  <2>3. ~(j > i)
    BY <2>1, <1>3, <1>10
  <2>4. i \in Nat /\ j \in Nat
    BY <2>1
  <2>5. i > j
    BY <2>2, <2>3, <2>4
  <2> QED BY <2>5 DEF i, j
<1> QED BY <1>1, <1>8, <1>9, <1>10

\* The same, as a sequence.
COROLLARY DescendingSeq ==
  ASSUME NEW S \in SUBSET Nat, IsFiniteSet(S)
  PROVE  /\ Descending(S) \in Seq(S)
         /\ Len(Descending(S)) = Cardinality(S)
         /\ Range(Descending(S)) = S
         /\ IsInjective(Descending(S))
<1> DEFINE D == Descending(S)
           n == Cardinality(S)
<1>1. /\ n \in Nat
      /\ D \in [1 .. n -> S]
      /\ \A i \in S : \E k \in 1 .. n : D[k] = i
      /\ \A k, m \in 1 .. n : k < m => D[k] > D[m]
  BY DescendingLists
<1> HIDE DEF D, n
<1>2. D \in Seq(S) /\ Len(D) = n
  BY <1>1
<1>3. Range(D) = S
  BY <1>1 DEF Range
<1>4. \A k, m \in 1 .. n : D[k] = D[m] => k = m
  <2> SUFFICES ASSUME NEW k \in 1 .. n, NEW m \in 1 .. n, D[k] = D[m], k < m
               PROVE  FALSE
    BY <1>1
  <2>1. D[k] \in Nat /\ D[k] > D[m]
    BY <1>1
  <2> QED BY <2>1
<1>5. IsInjective(D)
  BY <1>1, <1>4 DEF IsInjective
<1> QED BY <1>2, <1>3, <1>5 DEF D, n

\* A prefix of a sequence.
LEMMA PrefixProperties ==
  ASSUME NEW S, NEW s \in Seq(S), NEW k \in 0 .. Len(s)
  PROVE  /\ SubSeq(s, 1, k) \in Seq(S)
         /\ Len(SubSeq(s, 1, k)) = k
         /\ \A i \in 1 .. k : SubSeq(s, 1, k)[i] = s[i]
         /\ Range(SubSeq(s, 1, k)) = {s[i] : i \in 1 .. k}
<1> DEFINE t == SubSeq(s, 1, k)
<1>1. \A i \in 1 .. k : s[i] \in S
  BY LenProperties
<1>2. t \in Seq(S) /\ Len(t) = k /\ \A i \in 1 .. k : t[i] = s[i]
  BY <1>1, SubSeqProperties
<1> HIDE DEF t
<1>3. DOMAIN t = 1 .. k
  BY <1>2
<1>4. Range(t) = {s[i] : i \in 1 .. k}
  BY <1>2, <1>3 DEF Range
<1> QED BY <1>2, <1>4 DEF t

\* A sequence is one over any set that holds its members.
LEMMA SeqOf ==
  ASSUME NEW S, NEW T, NEW s \in Seq(S), \A k \in 1 .. Len(s) : s[k] \in T
  PROVE  s \in Seq(T)
<1>1. Len(s) \in Nat /\ s \in [1 .. Len(s) -> S]
  BY LenProperties
<1>2. s \in [1 .. Len(s) -> T]
  BY <1>1
<1> QED BY <1>1, <1>2, SeqDef

\* A fresh page's bucket, once its first slot is popped, lists the others.
LEMMA FreshBucket ==
  ASSUME NEW p \in Nat
  PROVE  LET s == SubSeq(Descending(InPage(p)), 1, PageSize - 1)
         IN  s \in Seq(InPage(p)) /\ Range(s) = InPage(p) \ {p * PageSize}
<1> DEFINE S == InPage(p)
           D == Descending(S)
           first == p * PageSize
<1>1. first \in Nat /\ PageSize \in Nat \ {0} /\ PageSize - 1 \in Nat
  BY ElemFreeListAssumption
<1>2. S \in SUBSET Nat /\ IsFiniteSet(S) /\ Cardinality(S) = PageSize
  <2>1. \A a \in Nat : IsFiniteSet(a .. a + PageSize - 1) /\ Cardinality(a .. a + PageSize - 1) = PageSize
    BY <1>1, FS_Interval
  <2>2. S = first .. first + PageSize - 1
    BY DEF InPage
  <2> HIDE DEF first, S
  <2> QED BY <1>1, <2>1, <2>2
<1>3. first \in S /\ \A i \in S : first <= i
  <2> HIDE DEF first
  <2>1. S = first .. first + PageSize - 1
    BY DEF InPage, first
  <2> QED BY <1>1, <2>1
<1>4. /\ D \in Seq(S) /\ Len(D) = PageSize
      /\ \A i \in S : \E k \in 1 .. PageSize : D[k] = i
      /\ \A k \in 1 .. PageSize : D[k] \in S
      /\ \A k, m \in 1 .. PageSize : k < m => D[k] > D[m]
  <2>1. D \in Seq(S) /\ Len(D) = PageSize
    BY <1>2, DescendingSeq
  <2>2. /\ D \in [1 .. PageSize -> S]
        /\ \A i \in S : \E k \in 1 .. PageSize : D[k] = i
        /\ \A k, m \in 1 .. PageSize : k < m => D[k] > D[m]
    BY <1>2, DescendingLists
  <2> HIDE DEF D
  <2> QED BY <2>1, <2>2
<1> HIDE DEF D, S, first
<1>5. D[PageSize] = first
  <2>1. PICK k \in 1 .. PageSize : D[k] = first
    BY <1>3, <1>4
  <2>2. k = PageSize
    <3> SUFFICES ASSUME k < PageSize PROVE FALSE
      BY <1>1
    <3>1. D[k] > D[PageSize] /\ D[PageSize] \in S
      BY <1>1, <1>4
    <3>2. D[PageSize] \in Nat /\ first <= D[PageSize]
      BY <1>2, <1>3, <3>1
    <3> QED BY <1>1, <2>1, <3>1, <3>2
  <2> QED BY <2>1, <2>2
<1>6. \A k \in 1 .. PageSize - 1 : D[k] \in S /\ D[k] # first
  <2> TAKE k \in 1 .. PageSize - 1
  <2>1. D[k] \in S /\ D[k] > D[PageSize]
    BY <1>1, <1>4
  <2> QED BY <1>1, <1>2, <1>5, <2>1
<1>7. \A i \in S \ {first} : \E k \in 1 .. PageSize - 1 : D[k] = i
  BY <1>1, <1>4, <1>5
<1>8. /\ SubSeq(D, 1, PageSize - 1) \in Seq(S)
      /\ Range(SubSeq(D, 1, PageSize - 1)) = {D[k] : k \in 1 .. PageSize - 1}
  <2>1. PageSize - 1 \in 0 .. Len(D)
    BY <1>1, <1>4
  <2> QED BY <1>4, <2>1, PrefixProperties
<1>9. {D[k] : k \in 1 .. PageSize - 1} = S \ {first}
  BY <1>6, <1>7
<1> QED BY <1>8, <1>9 DEF D, S, first

-----------------------------------------------------------------------------
(* The invariant is the conjunction of what TLC checks: each part needs the *)
(* others to be inductive.                                                  *)

FreeListInv == TypeOK /\ HolesListed /\ StackOnce /\ CountsExact

\* What a pop of a bucket finds and leaves.
LEMMA PopFinds ==
  ASSUME NEW S, NEW q \in Seq(S), Genuine(q) # {}
  PROVE  /\ Found(q) \in free /\ Found(q) \in Range(q)
         /\ Popped(q) \in Seq(S)
         /\ Range(Popped(q)) \subseteq Range(q)
         /\ \A i \in free \cap Range(q) : i = Found(q) \/ i \in Range(Popped(q))
<1> DEFINE G == Genuine(q)
           m == Max(G)
<1>1. Len(q) \in Nat /\ DOMAIN q = 1 .. Len(q)
  BY LenProperties
<1>2. G \subseteq 1 .. Len(q) /\ \A k \in G : q[k] \in free
  BY <1>1 DEF Genuine
<1>3. m \in G /\ \A k \in G : k <= m
  <2>1. G \in SUBSET Nat /\ \A k \in G : k <= Len(q)
    BY <1>1, <1>2
  <2> QED BY <1>1, <2>1, GreatestExists
<1>4. \A k \in 1 .. Len(q) : q[k] \in free => k \in G
  BY <1>1 DEF Genuine
<1>5. Found(q) = q[m] /\ Popped(q) = SubSeq(q, 1, m - 1)
  BY DEF Found, Popped
<1> HIDE DEF G, m
<1>6. m \in 1 .. Len(q) /\ m - 1 \in 0 .. Len(q)
  BY <1>1, <1>2, <1>3
<1>7. Found(q) \in free /\ Found(q) \in Range(q)
  BY <1>1, <1>2, <1>3, <1>5 DEF Range
<1>8. Popped(q) \in Seq(S) /\ Range(Popped(q)) = {q[k] : k \in 1 .. m - 1}
  BY <1>5, <1>6, PrefixProperties
<1>9. {q[k] : k \in 1 .. m - 1} \subseteq Range(q)
  BY <1>1, <1>6 DEF Range
<1>10. ASSUME NEW i \in free \cap Range(q)
       PROVE  i = Found(q) \/ i \in Range(Popped(q))
  <2>1. PICK k \in 1 .. Len(q) : q[k] = i
    BY <1>1 DEF Range
  <2>2. k \in G /\ k <= m
    BY <1>3, <1>4, <2>1
  <2>3. k = m \/ k \in 1 .. m - 1
    BY <1>6, <2>1, <2>2
  <2> QED BY <1>5, <1>8, <2>1, <2>3
<1> QED BY <1>7, <1>8, <1>9, <1>10

\* A bucket with no free slot among its entries lists none.
LEMMA PopMisses ==
  ASSUME NEW q, Genuine(q) = {}
  PROVE  Popped(q) = <<>> /\ free \cap Range(q) = {}
BY DEF Genuine, Popped, Range

\* Where the topmost page with a hole is, and what lies above it.
LEMMA TopProperties ==
  ASSUME TypeOK, StackOnce
  PROVE  /\ Top \in 0 .. Len(stack)
         /\ Fruitful # {} => Top \in 1 .. Len(stack) /\ stack[Top] \in onStack
                             /\ Genuine(bucket[stack[Top]]) # {}
                             /\ stack[Top] \notin Spent
         /\ Fruitful = {} => Spent = onStack
         /\ \A p \in Spent : p \in onStack /\ Genuine(bucket[p]) = {}
         /\ SubSeq(stack, 1, Top) \in Seq(onStack \ Spent)
         /\ IsInjective(SubSeq(stack, 1, Top))
         /\ Range(SubSeq(stack, 1, Top)) = onStack \ Spent
<1> DEFINE n == Len(stack)
           t == SubSeq(stack, 1, Top)
<1>1. n \in Nat /\ DOMAIN stack = 1 .. n /\ stack \in Seq(0 .. pages - 1)
  BY LenProperties DEF TypeOK
<1>2. /\ Range(stack) = {stack[m] : m \in 1 .. n}
      /\ {stack[m] : m \in 1 .. n} = onStack
      /\ \A k, m \in 1 .. n : stack[k] = stack[m] => k = m
  BY <1>1 DEF StackOnce, Range, IsInjective
<1>3. /\ Fruitful \subseteq 1 .. n
      /\ \A m \in 1 .. n : m \in Fruitful <=> Genuine(bucket[stack[m]]) # {}
  BY <1>1 DEF Fruitful
<1>4. /\ Top \in 0 .. n
      /\ Fruitful # {} => Top \in Fruitful
      /\ \A m \in Fruitful : m <= Top
      /\ Fruitful = {} => Top = 0
  <2>1. CASE Fruitful = {}
    BY <1>1, <2>1 DEF Top
  <2>2. CASE Fruitful # {}
    <3>1. Fruitful \in SUBSET Nat /\ \A m \in Fruitful : m <= n
      BY <1>1, <1>3
    <3>2. Max(Fruitful) \in Fruitful /\ \A m \in Fruitful : m <= Max(Fruitful)
      BY <1>1, <2>2, <3>1, GreatestExists
    <3>3. Top = Max(Fruitful)
      BY <2>2 DEF Top
    <3>4. Top \in 1 .. n
      BY <1>3, <3>2, <3>3, Zenon
    <3>5. Top \in 0 .. n
      BY <1>1, <3>4
    <3> QED BY <2>2, <3>2, <3>3, <3>5, Zenon
  <2> QED BY <2>1, <2>2
<1>5. Spent = {stack[m] : m \in Top + 1 .. n}
  BY DEF Spent
<1>6. \A m \in Top + 1 .. n : m \in 1 .. n /\ m \notin Fruitful
  BY <1>1, <1>4
<1>7. \A p \in Spent : p \in onStack /\ Genuine(bucket[p]) = {}
  BY <1>2, <1>3, <1>5, <1>6
<1>8. t \in Seq(0 .. pages - 1) /\ Len(t) = Top /\ (\A k \in 1 .. Top : t[k] = stack[k])
      /\ Range(t) = {stack[k] : k \in 1 .. Top}
  BY <1>1, <1>4, PrefixProperties
<1>9. DOMAIN t = 1 .. Top
  BY <1>8, LenProperties
<1> HIDE DEF t, n
<1>10. IsInjective(t)
  <2>1. 1 .. Top \subseteq 1 .. n
    BY <1>1, <1>4
  <2> QED BY <1>2, <1>8, <1>9, <2>1 DEF IsInjective
<1>11. {stack[k] : k \in 1 .. Top} = onStack \ Spent
  <2>1. \A k \in 1 .. Top : k \in 1 .. n /\ k \notin Top + 1 .. n
    BY <1>1, <1>4
  <2>2. \A k \in 1 .. n : k \in 1 .. Top \/ k \in Top + 1 .. n
    BY <1>1, <1>4
  <2> QED BY <1>2, <1>5, <1>6, <2>1, <2>2
<1>12. t \in Seq(onStack \ Spent)
  <2>1. \A k \in 1 .. Top : t[k] \in onStack \ Spent
    BY <1>8, <1>11
  <2> QED BY <1>8, <1>9, <2>1, SeqOf
<1>13. Fruitful # {} => Top \in 1 .. n /\ stack[Top] \in onStack
                        /\ Genuine(bucket[stack[Top]]) # {} /\ stack[Top] \notin Spent
  <2> SUFFICES ASSUME Fruitful # {} PROVE Top \in 1 .. n /\ stack[Top] \in onStack
                        /\ Genuine(bucket[stack[Top]]) # {} /\ stack[Top] \notin Spent
    OBVIOUS
  <2>1. Top \in 1 .. n
    BY <1>3, <1>4
  <2>2. stack[Top] \in onStack /\ Genuine(bucket[stack[Top]]) # {}
    BY <1>2, <1>3, <1>4, <2>1
  <2> QED BY <1>7, <2>1, <2>2
<1>14. Fruitful = {} => Spent = onStack
  BY <1>1, <1>2, <1>4, <1>5
<1> QED BY <1>4, <1>7, <1>10, <1>8, <1>11, <1>12, <1>13, <1>14 DEF t, n

-----------------------------------------------------------------------------
(* The invariant is preserved, one action at a time.                       *)

\* What a step relies on, with the sets of the types at hand.
LEMMA InvFacts ==
  ASSUME FreeListInv
  PROVE  /\ pages \in Nat
         /\ free \subseteq Nat /\ IsFiniteSet(free) /\ Cardinality(free) \in Nat
         /\ \A i \in free : PageOf(i) \in 0 .. pages - 1
<1>1. pages \in Nat /\ free \subseteq Slots(pages)
  BY ElemFreeListAssumption DEF FreeListInv, TypeOK
<1>2. Slots(pages) = {i \in Nat : PageOf(i) < pages} /\ IsFiniteSet(Slots(pages))
  BY <1>1, SlotPage
<1>3. free \subseteq Nat /\ \A i \in free : PageOf(i) < pages
  BY <1>1, <1>2
<1>4. \A i \in free : PageOf(i) \in Nat
  BY <1>3, PageBounds
<1>5. \A i \in free : PageOf(i) \in 0 .. pages - 1
  BY <1>1, <1>3, <1>4
<1>6. IsFiniteSet(free) /\ Cardinality(free) \in Nat
  BY <1>1, <1>2, FS_Subset, FS_CardinalityType
<1> QED BY <1>1, <1>3, <1>5, <1>6

\* A bucket's free entry puts it among the pages a pop may use.
LEMMA GenuineEntry ==
  ASSUME NEW q
  PROVE  Genuine(q) # {} <=> free \cap Range(q) # {}
BY DEF Genuine, Range

\* Claiming a free slot keeps the counts.
LEMMA ClaimCounts ==
  ASSUME FreeListInv, NEW i \in free, Claim(i), pages' = pages
  PROVE  CountsExact' /\ freeCount' \in Nat /\ count' \in Nat
<1>1. IsFiniteSet(free) /\ Cardinality(free) \in Nat /\ pages \in Nat
  BY InvFacts
<1>2. Cardinality(free') = Cardinality(free) - 1 /\ Cardinality(free') \in Nat
  BY <1>1, FS_RemoveElement, FS_CardinalityType DEF Claim
<1>3. freeCount = Cardinality(free) /\ count + freeCount = pages * PageSize /\ count \in Nat
  BY DEF FreeListInv, CountsExact, TypeOK
<1>4. pages * PageSize \in Nat
  BY <1>1, ElemFreeListAssumption
<1>5. freeCount' = freeCount - 1 /\ count' = count + 1
  BY DEF Claim
<1>6. freeCount' = Cardinality(free') /\ count' + freeCount' = pages * PageSize /\ count' \in Nat
  BY <1>1, <1>2, <1>3, <1>4, <1>5
<1>7. CountsExact'
  BY <1>6 DEF CountsExact
<1> QED BY <1>2, <1>6, <1>7

\* Buckets that list every hole and only slots of their own page: those of
\* the state, and those alloc_near leaves after it drained its hint's bucket.
SoundBuckets(b) ==
  /\ b \in [0 .. pages - 1 -> Seq(Slots(pages))]
  /\ \A p \in 0 .. pages - 1 : Range(b[p]) \subseteq InPage(p)
  /\ \A i \in free : i \in Range(b[PageOf(i)])

\* The state's buckets are sound ...
LEMMA BucketSound ==
  ASSUME FreeListInv
  PROVE  SoundBuckets(bucket)
<1>1. bucket \in [0 .. pages - 1 -> Seq(Slots(pages))] /\ DOMAIN bucket = 0 .. pages - 1
  BY DEF FreeListInv, TypeOK
<1> QED BY <1>1 DEF FreeListInv, HolesListed, SoundBuckets

\* ... and stay so when one without a hole is emptied.
LEMMA DrainedSound ==
  ASSUME FreeListInv, NEW p \in 0 .. pages - 1, Genuine(bucket[p]) = {}
  PROVE  SoundBuckets([bucket EXCEPT ![p] = <<>>])
<1> DEFINE b == [bucket EXCEPT ![p] = <<>>]
<1>1. SoundBuckets(bucket)
  BY BucketSound
<1>2. b \in [0 .. pages - 1 -> Seq(Slots(pages))]
  BY <1>1, EmptySeq DEF SoundBuckets
<1>3. \A q \in 0 .. pages - 1 : b[q] = IF q = p THEN <<>> ELSE bucket[q]
  BY <1>1 DEF SoundBuckets
<1>4. Range(<<>>) = {}
  BY DEF Range
<1> HIDE DEF b
<1>5. \A q \in 0 .. pages - 1 : Range(b[q]) \subseteq InPage(q)
  BY <1>1, <1>3, <1>4 DEF SoundBuckets
<1>6. ASSUME NEW i \in free PROVE i \in Range(b[PageOf(i)])
  <2>1. PageOf(i) \in 0 .. pages - 1 /\ i \in Range(bucket[PageOf(i)])
    BY <1>1, InvFacts DEF SoundBuckets
  <2>2. PageOf(i) # p
    BY <2>1, GenuineEntry
  <2> QED BY <1>3, <2>1, <2>2
<1>7. SoundBuckets(b)
  BY <1>2, <1>5, <1>6 DEF SoundBuckets
<1> QED BY <1>7 DEF b

\* Popping some pages' buckets and claiming what one of them gave.
LEMMA PopKeepsBuckets ==
  ASSUME FreeListInv, NEW b, SoundBuckets(b), NEW top \in 0 .. pages - 1,
         NEW P, \A p \in P : Genuine(b[p]) = {},
         Genuine(b[top]) # {},
         Claim(Found(b[top])), pages' = pages,
         bucket' = [p \in DOMAIN b |-> IF p \in P \cup {top} THEN Popped(b[p]) ELSE b[p]]
  PROVE  /\ Found(b[top]) \in free \cap InPage(top)
         /\ SoundBuckets(bucket)'
         /\ DOMAIN bucket' = 0 .. pages - 1
<1> DEFINE got == Found(b[top])
<1>1. /\ b \in [0 .. pages - 1 -> Seq(Slots(pages))] /\ DOMAIN b = 0 .. pages - 1
      /\ \A p \in 0 .. pages - 1 : Range(b[p]) \subseteq InPage(p)
      /\ \A i \in free : i \in Range(b[PageOf(i)])
  BY DEF SoundBuckets
<1>2. /\ got \in free /\ got \in Range(b[top])
      /\ \A i \in free \cap Range(b[top]) : i = got \/ i \in Range(Popped(b[top]))
  BY <1>1, PopFinds
<1>3. ASSUME NEW p \in 0 .. pages - 1
      PROVE  Popped(b[p]) \in Seq(Slots(pages)) /\ Range(Popped(b[p])) \subseteq Range(b[p])
  <2>1. CASE Genuine(b[p]) = {}
    <3>1. Popped(b[p]) = <<>>
      BY <2>1, PopMisses
    <3>2. <<>> \in Seq(Slots(pages)) /\ Range(<<>>) = {}
      BY EmptySeq DEF Range
    <3> QED BY <3>1, <3>2
  <2>2. CASE Genuine(b[p]) # {}
    BY <1>1, <2>2, PopFinds
  <2> QED BY <2>1, <2>2
<1> HIDE DEF got
<1>4. \A p \in 0 .. pages - 1 :
        bucket'[p] = IF p \in P \cup {top} THEN Popped(b[p]) ELSE b[p]
  BY <1>1
<1>5. bucket' \in [0 .. pages - 1 -> Seq(Slots(pages))] /\ DOMAIN bucket' = 0 .. pages - 1
  BY <1>1, <1>3
<1>6. \A p \in 0 .. pages - 1 : Range(bucket'[p]) \subseteq InPage(p)
  BY <1>1, <1>3, <1>4
<1>7. free' = free \ {got}
  BY DEF Claim, got
<1>8. ASSUME NEW i \in free' PROVE i \in Range(bucket'[PageOf(i)])
  <2> DEFINE p == PageOf(i)
  <2>1. i \in free /\ i # got /\ p \in 0 .. pages - 1 /\ i \in Range(b[p])
    BY <1>1, <1>7, InvFacts
  <2> HIDE DEF p
  <2>2. CASE p = top
    BY <1>2, <1>4, <2>1, <2>2 DEF p
  <2>3. CASE p \in P
    BY <2>1, <2>3, GenuineEntry
  <2>4. CASE p # top /\ p \notin P
    BY <1>4, <2>1, <2>4 DEF p
  <2> QED BY <2>2, <2>3, <2>4
<1>9. SoundBuckets(bucket)'
  BY <1>5, <1>6, <1>8 DEF SoundBuckets, Slots
<1> QED BY <1>1, <1>2, <1>5, <1>9 DEF got

\* Put the invariant together for a step that keeps the pages.
LEMMA InvFromParts ==
  ASSUME FreeListInv, SoundBuckets(bucket)', DOMAIN bucket' = 0 .. pages' - 1,
         pages' \in 0 .. MaxPages, free' \subseteq Slots(pages'),
         stack' \in Seq(onStack'), onStack' \subseteq 0 .. pages' - 1,
         StackOnce', CountsExact', freeCount' \in Nat, count' \in Nat,
         \A i \in free' : PageOf(i) \in onStack'
  PROVE  FreeListInv'
<1>1. stack' \in Seq(0 .. pages' - 1)
  BY SeqMonotonic
<1>2. bucket' \in [0 .. pages' - 1 -> Seq(Slots(pages'))]
  BY DEF SoundBuckets, Slots
<1>3. TypeOK'
  BY <1>1, <1>2 DEF TypeOK, Slots
<1>4. HolesListed'
  BY DEF SoundBuckets, HolesListed, PageOf, InPage
<1> QED BY <1>3, <1>4 DEF FreeListInv

\* alloc() from a page on the stack takes one hole.
LEMMA AllocFoundStep ==
  ASSUME FreeListInv, NEW b, SoundBuckets(b), AllocFound(b)
  PROVE  /\ FreeListInv'
         /\ pages' = pages
         /\ \E i \in free : free' = free \ {i}
<1> DEFINE top == stack[Top]
<1>1. TypeOK /\ HolesListed /\ StackOnce
  BY DEF FreeListInv
<1>2. /\ Top \in 1 .. Len(stack) /\ top \in onStack /\ Genuine(bucket[top]) # {}
      /\ top \notin Spent
      /\ \A p \in Spent : p \in onStack /\ Genuine(bucket[p]) = {}
      /\ SubSeq(stack, 1, Top) \in Seq(onStack \ Spent)
      /\ IsInjective(SubSeq(stack, 1, Top))
      /\ Range(SubSeq(stack, 1, Top)) = onStack \ Spent
  BY <1>1, TopProperties DEF AllocFound
<1>3. /\ Claim(Found(b[top]))
      /\ bucket' = [p \in DOMAIN b |-> IF p \in Spent \cup {top} THEN Popped(b[p]) ELSE b[p]]
      /\ stack' = SubSeq(stack, 1, Top)
      /\ onStack' = onStack \ Spent
      /\ pages' = pages
  BY DEF AllocFound
<1> HIDE DEF top
<1>4. onStack \subseteq 0 .. pages - 1 /\ pages \in 0 .. MaxPages /\ free \subseteq Slots(pages)
  BY <1>1 DEF TypeOK
<1>5. \A p \in 0 .. pages - 1 : Genuine(b[p]) = {} <=> Genuine(bucket[p]) = {}
  <2> TAKE p \in 0 .. pages - 1
  <2>1. SoundBuckets(bucket)
    BY BucketSound
  <2>2. \A i \in free : i \in InPage(p) => PageOf(i) = p
    BY <1>4, PageUnique
  <2>3. free \cap Range(b[p]) = free \cap Range(bucket[p])
    BY <2>1, <2>2 DEF SoundBuckets
  <2> QED BY <2>3, GenuineEntry
<1>6. top \in 0 .. pages - 1 /\ Genuine(b[top]) # {} /\ \A p \in Spent : Genuine(b[p]) = {}
  BY <1>2, <1>4, <1>5
<1>7. /\ Found(b[top]) \in free \cap InPage(top)
      /\ SoundBuckets(bucket)' /\ DOMAIN bucket' = 0 .. pages - 1
  BY <1>3, <1>6, PopKeepsBuckets
<1>8. free' = free \ {Found(b[top])}
  BY <1>3 DEF Claim
<1>9. CountsExact' /\ freeCount' \in Nat /\ count' \in Nat
  BY <1>3, <1>7, ClaimCounts
<1>10. StackOnce'
  BY <1>2, <1>3 DEF StackOnce, IsInjective, Range
<1>11. ASSUME NEW i \in free' PROVE PageOf(i) \in onStack'
  <2>1. i \in free /\ PageOf(i) \in onStack /\ i \in Range(bucket[PageOf(i)])
    BY <1>1, <1>8 DEF HolesListed
  <2>2. PageOf(i) \notin Spent
    BY <1>2, <2>1, GenuineEntry
  <2> QED BY <1>3, <2>1, <2>2
<1>12. stack' \in Seq(onStack') /\ onStack' \subseteq 0 .. pages' - 1
  BY <1>2, <1>3, <1>4
<1>13. free' \subseteq Slots(pages') /\ pages' \in 0 .. MaxPages /\ DOMAIN bucket' = 0 .. pages' - 1
  BY <1>3, <1>4, <1>7, <1>8
<1>14. FreeListInv'
  BY <1>7, <1>9, <1>10, <1>11, <1>12, <1>13, InvFromParts
<1> QED BY <1>3, <1>7, <1>8, <1>14

\* alloc_near takes a hole of its hint's page.
LEMMA NearFoundStep ==
  ASSUME FreeListInv, NEW p \in 0 .. pages - 1, NearFound(p)
  PROVE  /\ FreeListInv'
         /\ pages' = pages
         /\ \E i \in free \cap InPage(p) : free' = free \ {i}
<1>1. TypeOK /\ HolesListed /\ StackOnce
  BY DEF FreeListInv
<1>2. /\ Genuine(bucket[p]) # {} /\ Claim(Found(bucket[p]))
      /\ bucket' = [bucket EXCEPT ![p] = Popped(bucket[p])]
      /\ pages' = pages /\ stack' = stack /\ onStack' = onStack
  BY DEF NearFound
<1>3. SoundBuckets(bucket) /\ DOMAIN bucket = 0 .. pages - 1
  BY <1>1, BucketSound DEF TypeOK
<1> DEFINE none == {}
<1>4. /\ \A q \in none : Genuine(bucket[q]) = {}
      /\ bucket' = [q \in DOMAIN bucket |-> IF q \in none \cup {p} THEN Popped(bucket[q])
                                                                  ELSE bucket[q]]
  BY <1>2, <1>3
<1> HIDE DEF none
<1>5. /\ Found(bucket[p]) \in free \cap InPage(p)
      /\ SoundBuckets(bucket)' /\ DOMAIN bucket' = 0 .. pages - 1
  BY <1>2, <1>3, <1>4, PopKeepsBuckets
<1>6. free' = free \ {Found(bucket[p])}
  BY <1>2 DEF Claim
<1>7. CountsExact' /\ freeCount' \in Nat /\ count' \in Nat
  BY <1>2, <1>5, ClaimCounts
<1>8. StackOnce' /\ stack' \in Seq(onStack')
  <2>1. stack \in Seq(0 .. pages - 1) /\ Range(stack) = onStack
    BY <1>1 DEF TypeOK, StackOnce
  <2>2. DOMAIN stack = 1 .. Len(stack)
    BY <2>1, LenProperties
  <2>3. \A k \in 1 .. Len(stack) : stack[k] \in onStack
    BY <2>1, <2>2 DEF Range
  <2>4. stack \in Seq(onStack)
    BY <2>1, <2>3, SeqOf
  <2> QED BY <1>1, <1>2, <2>4 DEF StackOnce
<1>9. \A i \in free' : PageOf(i) \in onStack'
  BY <1>1, <1>2, <1>6 DEF HolesListed
<1>10. /\ free' \subseteq Slots(pages') /\ pages' \in 0 .. MaxPages
       /\ DOMAIN bucket' = 0 .. pages' - 1 /\ onStack' \subseteq 0 .. pages' - 1
  BY <1>1, <1>2, <1>5, <1>6 DEF TypeOK
<1>11. FreeListInv'
  BY <1>5, <1>7, <1>8, <1>9, <1>10, InvFromParts
<1> QED BY <1>2, <1>5, <1>6, <1>11

\* alloc() adds a page only when there is no hole, and takes its first slot.
LEMMA AllocNewPageStep ==
  ASSUME FreeListInv, NEW b, SoundBuckets(b), AllocNewPage(b)
  PROVE  /\ FreeListInv'
         /\ free = {}
         /\ pages' = pages + 1
         /\ free' = InPage(pages) \ {pages * PageSize}
<1>1. TypeOK /\ HolesListed /\ StackOnce
  BY DEF FreeListInv
<1>2. /\ pages < MaxPages /\ pages' = pages + 1
      /\ bucket' = [p \in 0 .. pages |->
                      IF p = pages THEN SubSeq(Descending(InPage(p)), 1, PageSize - 1)
                      ELSE IF p \in Spent THEN <<>> ELSE b[p]]
      /\ stack' = <<pages>> /\ onStack' = (onStack \ Spent) \cup {pages}
      /\ free' = free \cup (InPage(pages) \ {pages * PageSize})
      /\ freeCount' = freeCount + PageSize - 1 /\ count' = count + 1
  BY DEF AllocNewPage
<1>3. Spent = onStack /\ \A p \in Spent : Genuine(bucket[p]) = {}
  BY <1>1, TopProperties DEF AllocNewPage
<1>4. free = {}
  <2> SUFFICES ASSUME NEW i \in free PROVE FALSE
    OBVIOUS
  <2>1. PageOf(i) \in onStack /\ i \in Range(bucket[PageOf(i)])
    BY <1>1 DEF HolesListed
  <2> QED BY <1>3, <2>1, GenuineEntry
<1>5. pages \in Nat /\ MaxPages \in Nat /\ PageSize \in Nat \ {0} /\ pages' \in 0 .. MaxPages
      /\ pages' - 1 = pages /\ pages * PageSize \in Nat
  BY <1>2, InvFacts, ElemFreeListAssumption
<1>6. InPage(pages) \subseteq Nat /\ \A i \in InPage(pages) : PageOf(i) = pages
  BY <1>5, PageUnique
<1>7. onStack' = {pages} /\ free' = InPage(pages) \ {pages * PageSize}
  BY <1>2, <1>3, <1>4
<1>8. /\ Slots(pages) \subseteq Slots(pages') /\ InPage(pages) \subseteq Slots(pages')
  <2>1. \A n \in Nat : Slots(n) = {i \in Nat : PageOf(i) < n}
    BY SlotPage
  <2>2. /\ Slots(pages) = {i \in Nat : PageOf(i) < pages}
        /\ Slots(pages') = {i \in Nat : PageOf(i) < pages + 1}
    BY <1>2, <1>5, <2>1
  <2>3. \A i \in Nat : PageOf(i) \in Nat
    BY PageBounds
  <2>4. \A i \in Nat : PageOf(i) < pages => PageOf(i) < pages + 1
    BY <1>5, <2>3
  <2>5. \A i \in InPage(pages) : i \in Nat /\ PageOf(i) < pages + 1
    BY <1>5, <1>6
  <2> QED BY <2>2, <2>4, <2>5
<1>9. DOMAIN bucket' = 0 .. pages' - 1
  BY <1>2, <1>5
<1> DEFINE fresh == SubSeq(Descending(InPage(pages)), 1, PageSize - 1)
<1>10. fresh \in Seq(InPage(pages)) /\ Range(fresh) = InPage(pages) \ {pages * PageSize}
  BY <1>5, FreshBucket
<1> HIDE DEF fresh
<1>11. ASSUME NEW p \in 0 .. pages
       PROVE  /\ bucket'[p] \in Seq(Slots(pages'))
              /\ Range(bucket'[p]) \subseteq InPage(p)
  <2>1. CASE p = pages
    <3>1. bucket'[p] = fresh
      BY <1>2, <2>1 DEF fresh
    <3>2. fresh \in Seq(Slots(pages'))
      BY <1>8, <1>10, SeqMonotonic
    <3> QED BY <1>10, <2>1, <3>1, <3>2
  <2>2. CASE p # pages /\ p \in Spent
    <3>1. bucket'[p] = <<>>
      BY <1>2, <2>2
    <3> QED BY <3>1, EmptySeq DEF Range
  <2>3. CASE p # pages /\ p \notin Spent
    <3>1. bucket'[p] = b[p]
      BY <1>2, <2>3
    <3>2. p \in 0 .. pages - 1
      BY <1>5, <2>3
    <3>3. b[p] \in Seq(Slots(pages)) /\ Range(b[p]) \subseteq InPage(p)
      BY <3>2 DEF SoundBuckets
    <3>4. b[p] \in Seq(Slots(pages'))
      BY <1>8, <3>3, SeqMonotonic
    <3> QED BY <3>1, <3>3, <3>4
  <2> QED BY <2>1, <2>2, <2>3
<1>12. \A i \in free' : i \in Range(bucket'[PageOf(i)]) /\ PageOf(i) \in onStack'
  <2>1. bucket'[pages] = fresh
    BY <1>2, <1>5 DEF fresh
  <2> QED BY <1>6, <1>7, <1>10, <2>1
<1>13. SoundBuckets(bucket)'
  <2>1. bucket' \in [0 .. pages -> Seq(Slots(pages'))]
    BY <1>2, <1>11
  <2>2. bucket' \in [0 .. pages' - 1 -> Seq(Slots(pages'))]
    BY <1>5, <2>1
  <2>3. \A p \in 0 .. pages' - 1 : Range(bucket'[p]) \subseteq InPage(p)
    BY <1>5, <1>11
  <2> QED BY <1>12, <2>2, <2>3 DEF SoundBuckets, Slots
<1>14. stack' \in Seq(onStack') /\ StackOnce'
  <2>1. stack' = <<pages>> /\ DOMAIN stack' = 1 .. 1 /\ stack'[1] = pages
    BY <1>2
  <2>2. stack' \in Seq({pages})
    BY <2>1
  <2>3. Range(stack') = {pages}
    BY <2>1 DEF Range
  <2>4. IsInjective(stack')
    BY <2>1 DEF IsInjective
  <2> QED BY <1>7, <2>2, <2>3, <2>4 DEF StackOnce
<1>15. CountsExact' /\ freeCount' \in Nat /\ count' \in Nat
  <2>1. IsFiniteSet(InPage(pages)) /\ Cardinality(InPage(pages)) = PageSize
        /\ pages * PageSize \in InPage(pages)
    <3> DEFINE first == pages * PageSize
    <3>1. first \in Nat
      BY <1>5
    <3> HIDE DEF first
    <3>2. \A a \in Nat : IsFiniteSet(a .. a + PageSize - 1)
                         /\ Cardinality(a .. a + PageSize - 1) = PageSize
      <4>1. PageSize \in Nat \ {0}
        BY <1>5
      <4> QED BY <4>1, FS_Interval
    <3>3. first \in first .. first + PageSize - 1
      BY <1>5, <3>1
    <3> QED BY <3>1, <3>2, <3>3, Zenon DEF first, InPage
  <2>2. Cardinality(free') = PageSize - 1
    BY <1>7, <2>1, FS_RemoveElement
  <2> DEFINE m == pages * PageSize
  <2>3. freeCount = 0 /\ count = m
    BY <1>4, <1>5, FS_EmptySet DEF FreeListInv, CountsExact, TypeOK
  <2>4. m \in Nat
    BY <1>5
  <2>5. pages' * PageSize = m + PageSize
    BY <1>2, <1>5
  <2> HIDE DEF m
  <2>6. freeCount' = PageSize - 1 /\ count' = m + 1
    BY <1>2, <1>5, <2>3
  <2>7. PageSize - 1 \in Nat /\ m + 1 \in Nat /\ (m + 1) + (PageSize - 1) = m + PageSize
    BY <1>5, <2>4
  <2> QED BY <2>2, <2>5, <2>6, <2>7 DEF CountsExact
<1>16. free' \subseteq Slots(pages') /\ onStack' \subseteq 0 .. pages' - 1
  <2>1. pages \in Nat /\ pages' = pages + 1
    BY <1>2, InvFacts
  <2>2. pages \in 0 .. pages' - 1
    BY <2>1
  <2> QED BY <1>7, <1>8, <2>2
<1>17. FreeListInv'
  BY <1>5, <1>9, <1>12, <1>13, <1>14, <1>15, <1>16, InvFromParts
<1> QED BY <1>2, <1>4, <1>7, <1>17

\* The stack lists the pages whose bit is set.
LEMMA StackIsSeq ==
  ASSUME FreeListInv
  PROVE  stack \in Seq(onStack) /\ DOMAIN stack = 1 .. Len(stack)
<1>1. stack \in Seq(0 .. pages - 1) /\ Range(stack) = onStack
  BY DEF FreeListInv, TypeOK, StackOnce
<1>2. DOMAIN stack = 1 .. Len(stack)
  BY <1>1, LenProperties
<1>3. \A k \in 1 .. Len(stack) : stack[k] \in onStack
  BY <1>1, <1>2 DEF Range
<1> QED BY <1>1, <1>2, <1>3, SeqOf

\* alloc(int) takes the hole it is given.
LEMMA AllocIndexStep ==
  ASSUME FreeListInv, NEW i \in free, AllocIndex(i)
  PROVE  FreeListInv' /\ pages' = pages /\ free' = free \ {i}
<1>1. TypeOK /\ HolesListed /\ StackOnce
  BY DEF FreeListInv
<1>2. /\ Claim(i) /\ free' = free \ {i} /\ pages' = pages
      /\ bucket' = bucket /\ stack' = stack /\ onStack' = onStack
  BY DEF AllocIndex, Claim
<1>3. CountsExact' /\ freeCount' \in Nat /\ count' \in Nat
  BY <1>2, ClaimCounts
<1>4. TypeOK'
  BY <1>1, <1>2, <1>3 DEF TypeOK, Slots
<1>5. HolesListed'
  BY <1>1, <1>2 DEF HolesListed, PageOf, InPage
<1>6. StackOnce'
  BY <1>1, <1>2 DEF StackOnce
<1> QED BY <1>2, <1>3, <1>4, <1>5, <1>6 DEF FreeListInv

\* What appending to a sequence does to its members.
LEMMA AppendRange ==
  ASSUME NEW S, NEW s \in Seq(S), NEW e \in S
  PROVE  /\ Append(s, e) \in Seq(S)
         /\ Range(Append(s, e)) = Range(s) \cup {e}
         /\ IsInjective(s) /\ e \notin Range(s) => IsInjective(Append(s, e))
<1> DEFINE t == Append(s, e)
           n == Len(s)
<1>1. n \in Nat /\ DOMAIN s = 1 .. n
  BY LenProperties
<1>2. /\ t \in Seq(S) /\ Len(t) = n + 1
      /\ \A k \in 1 .. n : t[k] = s[k]
      /\ t[n + 1] = e
  BY AppendProperties
<1>3. DOMAIN t = 1 .. n + 1
  BY <1>2, LenProperties
<1> HIDE DEF t, n
<1>4. 1 .. n + 1 = (1 .. n) \cup {n + 1} /\ n + 1 \notin 1 .. n
  BY <1>1
<1>5. Range(t) = Range(s) \cup {e}
  BY <1>1, <1>2, <1>3, <1>4 DEF Range
<1>6. IsInjective(s) /\ e \notin Range(s) => IsInjective(t)
  BY <1>1, <1>2, <1>3, <1>4 DEF Range, IsInjective
<1> QED BY <1>2, <1>5, <1>6 DEF t

\* release(int) makes one hole.
LEMMA ReleaseStep ==
  ASSUME FreeListInv, NEW i \in Live, Release(i)
  PROVE  FreeListInv' /\ pages' = pages /\ free' = free \cup {i}
<1> DEFINE p == PageOf(i)
<1>1. TypeOK /\ HolesListed /\ StackOnce
  BY DEF FreeListInv
<1>2. /\ free' = free \cup {i} /\ pages' = pages
      /\ freeCount' = freeCount + 1 /\ count' = count - 1
      /\ bucket' = [bucket EXCEPT ![p] = Append(bucket[p], i)]
      /\ stack' = IF p \in onStack THEN stack ELSE Append(stack, p)
      /\ onStack' = onStack \cup {p}
  BY DEF Release
<1>3. pages \in Nat /\ i \in Slots(pages) /\ i \notin free
  BY InvFacts DEF Live
<1>4. i \in Nat /\ p \in 0 .. pages - 1 /\ i \in InPage(p)
  <2>1. i \in Nat /\ p < pages
    BY <1>3, SlotPage
  <2>2. /\ p \in Nat /\ p * PageSize <= i /\ i < p * PageSize + PageSize
        /\ p * PageSize \in Nat /\ PageSize \in Nat
    BY <2>1, PageBounds, ElemFreeListAssumption
  <2> HIDE DEF p
  <2>3. p \in 0 .. pages - 1
    BY <1>3, <2>1, <2>2
  <2>4. i \in p * PageSize .. p * PageSize + PageSize - 1
    <3> DEFINE a == p * PageSize
    <3>1. a \in Nat /\ a <= i /\ i < a + PageSize /\ PageSize \in Nat
      BY <2>2
    <3> HIDE DEF a
    <3>2. i \in a .. a + PageSize - 1
      BY <2>1, <3>1
    <3> QED BY <3>2 DEF a
  <2> QED BY <2>1, <2>3, <2>4 DEF InPage
<1> HIDE DEF p
<1>5. SoundBuckets(bucket) /\ DOMAIN bucket = 0 .. pages - 1
  BY <1>1, BucketSound DEF TypeOK
<1>6. bucket[p] \in Seq(Slots(pages)) /\ Range(bucket[p]) \subseteq InPage(p)
  BY <1>4, <1>5 DEF SoundBuckets
<1>7. /\ Append(bucket[p], i) \in Seq(Slots(pages))
      /\ Range(Append(bucket[p], i)) = Range(bucket[p]) \cup {i}
  BY <1>3, <1>6, AppendRange
<1>8. /\ bucket' \in [0 .. pages - 1 -> Seq(Slots(pages))] /\ DOMAIN bucket' = 0 .. pages - 1
      /\ \A q \in 0 .. pages - 1 : bucket'[q] = IF q = p THEN Append(bucket[p], i) ELSE bucket[q]
  BY <1>2, <1>4, <1>5, <1>7 DEF SoundBuckets
<1>9. \A q \in 0 .. pages - 1 : Range(bucket'[q]) \subseteq InPage(q)
  BY <1>4, <1>5, <1>7, <1>8 DEF SoundBuckets
<1>10. ASSUME NEW j \in free'
       PROVE  j \in Range(bucket'[PageOf(j)]) /\ PageOf(j) \in onStack'
  <2>1. CASE j = i
    BY <1>2, <1>4, <1>7, <1>8, <2>1 DEF p
  <2>2. CASE j # i
    <3>1. /\ j \in free /\ PageOf(j) \in 0 .. pages - 1 /\ PageOf(j) \in onStack
          /\ j \in Range(bucket[PageOf(j)])
      BY <1>1, <1>2, <2>2, InvFacts DEF HolesListed
    <3> QED BY <1>2, <1>7, <1>8, <3>1
  <2> QED BY <2>1, <2>2
<1>11. SoundBuckets(bucket)'
  BY <1>2, <1>8, <1>9, <1>10 DEF SoundBuckets, Slots
<1>12. stack' \in Seq(onStack') /\ StackOnce'
  <2>1. stack \in Seq(onStack) /\ IsInjective(stack) /\ Range(stack) = onStack
    BY <1>1, StackIsSeq DEF StackOnce
  <2>2. stack \in Seq(onStack') /\ p \in onStack'
    BY <1>2, <2>1, SeqMonotonic
  <2>3. CASE p \in onStack
    BY <1>2, <2>1, <2>2, <2>3 DEF StackOnce
  <2>4. CASE p \notin onStack
    BY <1>2, <2>1, <2>2, <2>4, AppendRange DEF StackOnce
  <2> QED BY <2>3, <2>4
<1>13. CountsExact' /\ freeCount' \in Nat /\ count' \in Nat
  <2> DEFINE m == pages * PageSize
  <2>1. IsFiniteSet(free) /\ Cardinality(free) \in Nat
    BY InvFacts
  <2>2. freeCount = Cardinality(free) /\ count + freeCount = m /\ count \in Nat
    BY DEF FreeListInv, CountsExact, TypeOK
  <2>3. Cardinality(free') = Cardinality(free) + 1
    BY <1>2, <1>3, <2>1, FS_AddElement
  <2>4. IsFiniteSet(Slots(pages)) /\ Cardinality(Slots(pages)) = m /\ free' \subseteq Slots(pages)
    BY <1>1, <1>2, <1>3, SlotPage DEF TypeOK
  <2>5. Cardinality(free') <= m
    BY <2>4, FS_Subset
  <2> HIDE DEF m
  <2>6. freeCount' = Cardinality(free') /\ count' + freeCount' = m /\ count' \in Nat
    BY <1>2, <2>1, <2>2, <2>3, <2>5
  <2>7. pages' * PageSize = m
    BY <1>2 DEF m
  <2> QED BY <2>1, <2>3, <2>6, <2>7 DEF CountsExact
<1>14. /\ free' \subseteq Slots(pages') /\ pages' \in 0 .. MaxPages
       /\ DOMAIN bucket' = 0 .. pages' - 1 /\ onStack' \subseteq 0 .. pages' - 1
  BY <1>1, <1>2, <1>3, <1>4, <1>8 DEF TypeOK
<1>15. FreeListInv'
  BY <1>10, <1>11, <1>12, <1>13, <1>14, InvFromParts
<1> QED BY <1>2, <1>15

\* Rebuilding the structures for any free set of any number of pages.
LEMMA RebuildStep ==
  ASSUME FreeListInv, NEW n \in 0 .. MaxPages, NEW f \in SUBSET Slots(n),
         Rebuild(f, n), pages' = n, free' = f, count' \in Nat, CountsExact'
  PROVE  FreeListInv'
<1>1. /\ bucket' = [p \in 0 .. n - 1 |-> Descending(f \cap InPage(p))]
      /\ onStack' = {PageOf(i) : i \in f}
      /\ stack' = Descending({PageOf(i) : i \in f})
      /\ freeCount' = Cardinality(f)
  BY DEF Rebuild
<1>2. n \in Nat /\ n <= MaxPages
  BY ElemFreeListAssumption
<1>3. /\ Slots(n) = {i \in Nat : PageOf(i) < n} /\ IsFiniteSet(Slots(n))
  BY <1>2, SlotPage
<1>4. f \subseteq Nat /\ IsFiniteSet(f) /\ Cardinality(f) \in Nat
  BY <1>3, FS_Subset, FS_CardinalityType
<1>5. \A i \in f : PageOf(i) \in Nat /\ PageOf(i) \in 0 .. n - 1
  <2>1. \A i \in f : PageOf(i) \in Nat /\ PageOf(i) < n
    BY <1>3, <1>4, PageBounds
  <2> QED BY <1>2, <2>1
<1>6. \A i \in f : i \in InPage(PageOf(i))
  <2> TAKE i \in f
  <2>1. /\ PageOf(i) \in Nat /\ PageOf(i) * PageSize <= i
        /\ i < PageOf(i) * PageSize + PageSize /\ PageSize \in Nat
        /\ PageOf(i) * PageSize \in Nat
    BY <1>4, PageBounds, ElemFreeListAssumption
  <2> DEFINE a == PageOf(i) * PageSize
  <2>2. a \in Nat /\ a <= i /\ i < a + PageSize /\ PageSize \in Nat /\ i \in Nat
    BY <1>4, <2>1
  <2> HIDE DEF a
  <2>3. i \in a .. a + PageSize - 1
    BY <2>2
  <2> QED BY <2>3 DEF a, InPage
<1>7. ASSUME NEW p \in 0 .. n - 1
      PROVE  bucket'[p] \in Seq(Slots(n)) /\ Range(bucket'[p]) = f \cap InPage(p)
  <2>1. f \cap InPage(p) \in SUBSET Nat /\ IsFiniteSet(f \cap InPage(p))
    BY <1>4, FS_Intersection
  <2>2. /\ Descending(f \cap InPage(p)) \in Seq(f \cap InPage(p))
        /\ Range(Descending(f \cap InPage(p))) = f \cap InPage(p)
    BY <2>1, DescendingSeq
  <2>3. Descending(f \cap InPage(p)) \in Seq(Slots(n))
    BY <2>2, SeqMonotonic
  <2> QED BY <1>1, <2>2, <2>3
<1>8. DOMAIN bucket' = 0 .. n - 1
  BY <1>1
<1>9. bucket' \in [0 .. n - 1 -> Seq(Slots(n))]
  BY <1>1, <1>7
<1>10. \A i \in f : i \in Range(bucket'[PageOf(i)]) /\ PageOf(i) \in onStack'
  BY <1>1, <1>5, <1>6, <1>7
<1>11. SoundBuckets(bucket)'
  BY <1>7, <1>9, <1>10 DEF SoundBuckets, Slots
<1>12. onStack' \in SUBSET Nat /\ IsFiniteSet(onStack') /\ onStack' \subseteq 0 .. n - 1
  <2>1. onStack' \subseteq 0 .. n - 1 /\ onStack' \subseteq Nat
    BY <1>1, <1>5
  <2>2. IsFiniteSet(0 .. n - 1)
    BY <1>2, FS_Interval
  <2> QED BY <2>1, <2>2, FS_Subset
<1>13. stack' \in Seq(onStack') /\ StackOnce'
  BY <1>1, <1>12, DescendingSeq DEF StackOnce
<1>14. freeCount' \in Nat /\ \A i \in free' : PageOf(i) \in onStack'
  BY <1>1, <1>4, <1>10
<1> QED BY <1>8, <1>11, <1>12, <1>13, <1>14, InvFromParts

\* What FreeTrailingPages keeps.
LEMMA KeepProperties ==
  ASSUME FreeListInv, Keep < pages
  PROVE  /\ Keep \in 0 .. pages - 1
         /\ Live \subseteq Slots(Keep)
         /\ \A n \in 0 .. pages : Live \subseteq Slots(n) => Keep <= n
         /\ Slots(Keep) \subseteq Slots(pages)
<1> DEFINE N == {n \in 0 .. pages : Live \subseteq Slots(n)}
<1>1. pages \in Nat
  BY InvFacts
<1>2. pages \in N /\ N \in SUBSET Nat
  BY <1>1 DEF Live
<1>3. Keep \in N /\ \A n \in N : Keep <= n
  BY <1>2, LeastExists DEF Keep
<1>4. Keep \in 0 .. pages - 1
  BY <1>1, <1>3
<1>5. Slots(Keep) \subseteq Slots(pages)
  <2>1. \A n \in Nat : Slots(n) = {i \in Nat : PageOf(i) < n}
    BY SlotPage
  <2>2. /\ Slots(Keep) = {i \in Nat : PageOf(i) < Keep}
        /\ Slots(pages) = {i \in Nat : PageOf(i) < pages}
    BY <1>1, <1>4, <2>1
  <2>3. \A i \in Nat : PageOf(i) \in Nat /\ (PageOf(i) < Keep => PageOf(i) < pages)
    BY <1>1, <1>4, PageBounds
  <2> QED BY <2>2, <2>3
<1> QED BY <1>3, <1>4, <1>5

\* The live elements are the slots that are not free.
LEMMA LiveCount ==
  ASSUME FreeListInv
  PROVE  /\ IsFiniteSet(Live) /\ Cardinality(Live) \in Nat
         /\ count = Cardinality(Live)
         /\ free = Slots(pages) \ Live
<1> DEFINE m == pages * PageSize
           c == Cardinality(free)
<1>1. pages \in Nat /\ c \in Nat /\ IsFiniteSet(free) /\ free \subseteq Slots(pages)
  BY InvFacts DEF FreeListInv, TypeOK
<1>2. IsFiniteSet(Slots(pages)) /\ Cardinality(Slots(pages)) = m
  BY <1>1, SlotPage
<1>3. Slots(pages) \cap free = free
  BY <1>1
<1>4. IsFiniteSet(Live) /\ Cardinality(Live) = m - c
  BY <1>2, <1>3, FS_Difference DEF Live
<1>5. freeCount = c /\ count + freeCount = m /\ count \in Nat
  BY DEF FreeListInv, CountsExact, TypeOK
<1>6. m \in Nat
  BY <1>1, ElemFreeListAssumption
<1> HIDE DEF m, c
<1>7. count = m - c
  BY <1>1, <1>5, <1>6
<1> QED BY <1>1, <1>4, <1>5, <1>7 DEF Live

\* free_trailing_pages keeps every live slot.
LEMMA FreeTrailingStep ==
  ASSUME FreeListInv, FreeTrailingPages
  PROVE  FreeListInv' /\ pages' = Keep /\ free' = Slots(Keep) \ Live
<1>1. /\ Keep < pages /\ pages' = Keep /\ free' = free \cap Slots(Keep)
      /\ Rebuild(free \cap Slots(Keep), Keep) /\ count' = count
  BY DEF FreeTrailingPages
<1>2. Keep \in 0 .. pages - 1 /\ Live \subseteq Slots(Keep) /\ Slots(Keep) \subseteq Slots(pages)
  BY <1>1, KeepProperties
<1>3. free' = Slots(Keep) \ Live
  BY <1>1, <1>2 DEF Live
<1>4. pages \in 0 .. MaxPages /\ count \in Nat
  BY DEF FreeListInv, TypeOK
<1>5. Keep \in 0 .. MaxPages
  BY <1>2, <1>4, ElemFreeListAssumption
<1>6. CountsExact'
  <2> DEFINE m == Keep * PageSize
             c == Cardinality(Live)
  <2>1. IsFiniteSet(Slots(Keep)) /\ Cardinality(Slots(Keep)) = m
    BY <1>2, SlotPage
  <2>2. Slots(Keep) \cap Live = Live
    BY <1>2
  <2>3. Cardinality(free') = m - c
    BY <1>3, <2>1, <2>2, FS_Difference
  <2>4. c \in Nat /\ count = c
    BY LiveCount
  <2>5. m \in Nat /\ pages' * PageSize = m
    BY <1>1, <1>2, ElemFreeListAssumption
  <2>6. freeCount' = Cardinality(free')
    BY <1>1 DEF Rebuild
  <2> HIDE DEF m, c
  <2>7. count' + freeCount' = m
    BY <1>1, <2>3, <2>4, <2>5, <2>6
  <2> QED BY <2>5, <2>6, <2>7 DEF CountsExact
<1>7. FreeListInv'
  <2>1. free \cap Slots(Keep) \in SUBSET Slots(Keep)
    OBVIOUS
  <2> QED BY <1>1, <1>4, <1>5, <1>6, <2>1, RebuildStep
<1> QED BY <1>1, <1>3, <1>7

\* reorder keeps the number of holes.
LEMMA ReorderStep ==
  ASSUME FreeListInv, Reorder
  PROVE  /\ FreeListInv' /\ pages' = pages
         /\ free' \subseteq Slots(pages) /\ Cardinality(free') = Cardinality(free)
<1>1. PICK moved \in SUBSET Slots(pages) :
        /\ Cardinality(moved) = Cardinality(free) /\ free' = moved
        /\ Rebuild(moved, pages) /\ pages' = pages /\ count' = count
  BY DEF Reorder
<1>2. pages \in 0 .. MaxPages /\ count \in Nat
  BY DEF FreeListInv, TypeOK
<1>3. CountsExact'
  BY <1>1 DEF Rebuild, FreeListInv, CountsExact
<1>4. FreeListInv'
  BY <1>1, <1>2, <1>3, RebuildStep
<1> QED BY <1>1, <1>4

\* An empty domain satisfies the invariant.
LEMMA InitInv == Init => FreeListInv
<1> SUFFICES ASSUME Init PROVE FreeListInv
  OBVIOUS
<1>1. /\ pages = 0 /\ free = {} /\ bucket = <<>> /\ stack = <<>> /\ onStack = {}
      /\ freeCount = 0 /\ count = 0
  BY DEF Init
<1>2. 0 .. pages - 1 = {} /\ pages \in 0 .. MaxPages
  BY <1>1, ElemFreeListAssumption
<1>3. bucket \in [0 .. pages - 1 -> Seq(Slots(pages))]
  BY <1>1, <1>2
<1>4. TypeOK
  BY <1>1, <1>2, <1>3, EmptySeq DEF TypeOK
<1>5. HolesListed /\ StackOnce
  BY <1>1 DEF HolesListed, StackOnce, IsInjective, Range
<1>6. CountsExact
  BY <1>1, FS_EmptySet, ElemFreeListAssumption DEF CountsExact
<1> QED BY <1>4, <1>5, <1>6 DEF FreeListInv

-----------------------------------------------------------------------------
(* Every step is a step of SlotSet.                                        *)

\* Slots of one more page.
LEMMA OneMorePage ==
  ASSUME NEW n \in Nat
  PROVE  /\ Slots(n + 1) = Slots(n) \cup InPage(n)
         /\ n * PageSize \in InPage(n) /\ n * PageSize \notin Slots(n)
         /\ Slots(n) \cap InPage(n) = {}
<1> DEFINE a == n * PageSize
<1>1. a \in Nat /\ PageSize \in Nat \ {0} /\ (n + 1) * PageSize = a + PageSize
  BY ElemFreeListAssumption
<1>2. Slots(n + 1) = 0 .. a + PageSize - 1 /\ Slots(n) = 0 .. a - 1
      /\ InPage(n) = a .. a + PageSize - 1
  BY <1>1 DEF Slots, InPage
<1> HIDE DEF a
<1>3. /\ 0 .. a + PageSize - 1 = (0 .. a - 1) \cup (a .. a + PageSize - 1)
      /\ a \in a .. a + PageSize - 1 /\ a \notin 0 .. a - 1
      /\ (0 .. a - 1) \cap (a .. a + PageSize - 1) = {}
  BY <1>1
<1> QED BY <1>2, <1>3 DEF a

\* A hole given out is a slot that was not live.
LEMMA HoleStep ==
  ASSUME FreeListInv, NEW i \in free, pages' = pages, free' = free \ {i}
  PROVE  Slot!Next
<1>1. free \subseteq Slots(pages)
  BY DEF FreeListInv, TypeOK
<1>2. Live' = Slots(pages) \ (free \ {i})
  BY DEF Live, Slots
<1>3. i \in Slots(pages) \ Live /\ Live' = Live \cup {i}
  BY <1>1, <1>2 DEF Live
<1>4. Slot!AllocHole
  BY <1>3 DEF Slot!AllocHole, Slot!Slots, Slots
<1> QED BY <1>4 DEF Slot!Next

\* Storage grows when every slot is live, by one page of which one is live.
LEMMA GrowStep ==
  ASSUME FreeListInv, free = {}, pages' = pages + 1,
         free' = InPage(pages) \ {pages * PageSize}
  PROVE  Slot!Next
<1> DEFINE first == pages * PageSize
<1>1. pages \in Nat
  BY InvFacts
<1>2. /\ Slots(pages + 1) = Slots(pages) \cup InPage(pages)
      /\ first \in InPage(pages) /\ first \notin Slots(pages)
      /\ Slots(pages) \cap InPage(pages) = {}
  BY <1>1, OneMorePage
<1>3. Live = Slots(pages) /\ Live' = Slots(pages + 1) \ (InPage(pages) \ {first})
  BY DEF Live, Slots
<1> HIDE DEF first
<1>4. Live' = Live \cup {first} /\ first \in Slots(pages + 1) \ Live
  BY <1>2, <1>3
<1>5. Slot!AllocGrow
  BY <1>3, <1>4 DEF Slot!AllocGrow, Slot!Slots, Slots
<1> QED BY <1>5 DEF Slot!Next

\* alloc(), from whatever sound buckets it starts with.
LEMMA AnyAllocStep ==
  ASSUME FreeListInv, NEW b, SoundBuckets(b), AllocFound(b) \/ AllocNewPage(b)
  PROVE  FreeListInv' /\ Slot!Next
<1>1. CASE AllocFound(b)
  BY <1>1, AllocFoundStep, HoleStep
<1>2. CASE AllocNewPage(b)
  BY <1>2, AllocNewPageStep, GrowStep
<1> QED BY <1>1, <1>2

\* alloc_near, with and without a hole in its hint's page.
LEMMA AllocNearStep ==
  ASSUME FreeListInv, NEW hint \in Hints, AllocNear(hint)
  PROVE  FreeListInv' /\ Slot!Next
<1> DEFINE p == PageOf(hint)
<1>1. pages \in Nat /\ p \in Nat
  BY InvFacts, PageBounds, SlotPage, ElemFreeListAssumption DEF Hints
<1>2. CASE ~(p < pages)
  <2>1. AllocFound(bucket) \/ AllocNewPage(bucket)
    BY <1>2 DEF AllocNear, Alloc
  <2> QED BY <2>1, BucketSound, AnyAllocStep
<1>3. CASE p < pages
  <2>1. p \in 0 .. pages - 1 /\ (NearFound(p) \/ NearMissed(p))
    BY <1>1, <1>3 DEF AllocNear
  <2> HIDE DEF p
  <2>2. CASE NearFound(p)
    BY <2>1, <2>2, NearFoundStep, HoleStep
  <2>3. CASE NearMissed(p)
    <3> DEFINE b == [bucket EXCEPT ![p] = <<>>]
    <3>1. Genuine(bucket[p]) = {} /\ (AllocFound(b) \/ AllocNewPage(b))
      BY <2>3 DEF NearMissed
    <3>2. SoundBuckets(b)
      BY <2>1, <3>1, DrainedSound
    <3> HIDE DEF b
    <3> QED BY <3>1, <3>2, AnyAllocStep
  <2> QED BY <2>1, <2>2, <2>3
<1> QED BY <1>2, <1>3

\* Every step keeps the invariant and is one of SlotSet's.
LEMMA NextStep ==
  ASSUME FreeListInv, [Next]_vars
  PROVE  FreeListInv' /\ [Slot!Next]_<<pages, Live>>
<1>1. CASE Alloc
  BY <1>1, BucketSound, AnyAllocStep DEF Alloc
<1>2. ASSUME NEW hint \in Hints, AllocNear(hint)
      PROVE  FreeListInv' /\ Slot!Next
  BY <1>2, AllocNearStep
<1>3. ASSUME NEW i \in free, AllocIndex(i)
      PROVE  FreeListInv' /\ Slot!Next
  BY <1>3, AllocIndexStep, HoleStep
<1>4. ASSUME NEW i \in Live, Release(i)
      PROVE  FreeListInv' /\ Slot!Next
  <2>1. FreeListInv' /\ pages' = pages /\ free' = free \cup {i}
    BY <1>4, ReleaseStep
  <2>2. Live' = Live \ {i}
    BY <2>1 DEF Live, Slots
  <2>3. Slot!Release
    BY <2>1, <2>2 DEF Slot!Release
  <2> QED BY <2>1, <2>3 DEF Slot!Next
<1>5. CASE FreeTrailingPages
  <2>1. FreeListInv' /\ pages' = Keep /\ free' = Slots(Keep) \ Live
    BY <1>5, FreeTrailingStep
  <2>2. /\ Keep \in 0 .. pages - 1 /\ Live \subseteq Slots(Keep)
        /\ \A n \in 0 .. pages : Live \subseteq Slots(n) => Keep <= n
    BY <1>5, KeepProperties DEF FreeTrailingPages
  <2>3. Live' = Live
    BY <2>1, <2>2 DEF Live, Slots
  <2>4. Keep = 0 \/ ~(Live \subseteq Slots(Keep - 1))
    <3> SUFFICES ASSUME Keep # 0, Live \subseteq Slots(Keep - 1) PROVE FALSE
      OBVIOUS
    <3>1. pages \in Nat
      BY InvFacts
    <3>2. Keep - 1 \in 0 .. pages
      BY <2>2, <3>1
    <3> QED BY <2>2, <3>1, <3>2
  <2>5. Slot!Trim
    BY <2>1, <2>2, <2>3, <2>4 DEF Slot!Trim, Slot!Slots, Slots
  <2> QED BY <2>1, <2>5 DEF Slot!Next
<1>6. CASE Reorder
  <2>1. /\ FreeListInv' /\ pages' = pages
        /\ free' \subseteq Slots(pages) /\ Cardinality(free') = Cardinality(free)
    BY <1>6, ReorderStep
  <2>2. Live' = Slots(pages) \ free' /\ Live' \subseteq Slots(pages)
    BY <2>1 DEF Live, Slots
  <2>3. IsFiniteSet(Slots(pages)) /\ free \subseteq Slots(pages)
    BY InvFacts, SlotPage DEF FreeListInv, TypeOK
  <2>4. Slots(pages) \cap free' = free' /\ Slots(pages) \cap free = free
    BY <2>1, <2>3
  <2>5. Cardinality(Live') = Cardinality(Live)
    <3>1. Cardinality(Slots(pages) \ free') = Cardinality(Slots(pages)) - Cardinality(free')
      BY <2>3, <2>4, FS_Difference
    <3>2. Cardinality(Slots(pages) \ free) = Cardinality(Slots(pages)) - Cardinality(free)
      BY <2>3, <2>4, FS_Difference
    <3> QED BY <2>1, <2>2, <3>1, <3>2, Zenon DEF Live
  <2>6. Slot!Cardinality(Live') = Slot!Cardinality(Live)
    BY <2>5 DEF Slot!Cardinality, Cardinality
  <2>7. Slot!Permute
    BY <2>1, <2>2, <2>6 DEF Slot!Permute, Slot!Slots, Slots
  <2> QED BY <2>1, <2>7 DEF Slot!Next
<1>7. CASE UNCHANGED vars
  <2>1. FreeListInv'
    BY <1>7 DEF vars, FreeListInv, TypeOK, HolesListed, StackOnce, CountsExact, Slots, PageOf, InPage
  <2>2. UNCHANGED <<pages, Live>>
    BY <1>7 DEF vars, Live, Slots
  <2> QED BY <2>1, <2>2
<1> QED BY <1>1, <1>2, <1>3, <1>4, <1>5, <1>6, <1>7 DEF Next

-----------------------------------------------------------------------------

\* The invariant holds in every reachable state.
THEOREM FreeListInvariant == Spec => []FreeListInv
<1>1. FreeListInv /\ [Next]_vars => FreeListInv'
  BY NextStep
<1> QED BY InitInv, <1>1, PTL DEF Spec

\* Buckets and stack only ever name slots and pages that exist.
THEOREM TypesAlways == Spec => []TypeOK
<1>1. FreeListInv => TypeOK
  BY DEF FreeListInv
<1> QED BY FreeListInvariant, <1>1, PTL

\* No hole is ever lost to the stale entries that explicit claims, drained
\* hints and pops leave in buckets and stack, the stack holds the pages whose
\* bit is set, each once, and free_slots() and count agree with freemap.
THEOREM ListsAlwaysAgree == Spec => []ListsAgree
<1>1. FreeListInv => ListsAgree
  BY DEF FreeListInv, ListsAgree
<1> QED BY FreeListInvariant, <1>1, PTL

\* A hint is honoured whenever its page has a hole.
THEOREM HintHonouredAlways == Spec => HintHonoured
<1> DEFINE A == \A hint \in Hints :
                  LET holes == free \cap InPage(PageOf(hint)) IN
                    AllocNear(hint) /\ holes # {} => \E i \in holes : free' = free \ {i}
<1>1. FreeListInv => A
  <2> SUFFICES ASSUME FreeListInv, NEW hint \in Hints,
                      AllocNear(hint), free \cap InPage(PageOf(hint)) # {}
               PROVE  \E i \in free \cap InPage(PageOf(hint)) : free' = free \ {i}
    OBVIOUS
  <2> DEFINE p == PageOf(hint)
  <2>1. pages \in Nat /\ p \in Nat
    BY InvFacts, PageBounds, SlotPage, ElemFreeListAssumption DEF Hints
  <2>2. PICK i \in free : i \in InPage(p)
    OBVIOUS
  <2>3. PageOf(i) = p /\ p \in 0 .. pages - 1
    BY <2>1, <2>2, PageUnique, InvFacts
  <2>4. Genuine(bucket[p]) # {}
    BY <2>2, <2>3, GenuineEntry DEF FreeListInv, HolesListed
  <2>5. NearFound(p)
    <3>1. p < pages
      BY <2>1, <2>3
    <3> QED BY <2>4, <3>1 DEF AllocNear, NearMissed
  <2> HIDE DEF p
  <2>6. \E j \in free \cap InPage(p) : free' = free \ {j}
    BY <2>3, <2>5, NearFoundStep
  <2> QED BY <2>6 DEF p
<1>2. FreeListInv /\ [Next]_vars => [A]_vars
  BY <1>1
<1>3. []FreeListInv /\ [][Next]_vars => [][A]_vars
  <2> HIDE DEF A
  <2> QED BY <1>2, PTL
<1> QED BY <1>3, FreeListInvariant DEF Spec, HintHonoured

\* The allocator implements SlotSet: only slots that were not live are handed
\* out, storage grows only when no slot is free, and only whole trailing pages
\* without a live slot are given back.
THEOREM ImplementsSlotSet == Spec => SlotSpec
<1>1. Init => Slot!Init
  BY ElemFreeListAssumption DEF Init, Slot!Init, Live, Slots
<1>2. FreeListInv /\ [Next]_vars => [Slot!Next]_<<pages, Live>>
  BY NextStep
<1> QED BY <1>1, <1>2, FreeListInvariant, PTL DEF Spec, SlotSpec, Slot!Spec
=============================================================================
