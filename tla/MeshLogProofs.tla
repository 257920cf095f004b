--------------------------- MODULE MeshLogProofs ---------------------------
(***************************************************************************)
(* What holds of the undo log for any elements, columns, kernels and       *)
(* bounds, in two parts.                                                   *)
(*                                                                         *)
(* The stamps of the open step's topology chunk are sound.  That argument  *)
(* is about records and lists alone: what replay does to the mesh does not *)
(* matter, so IInv types only what the callbacks read of the open step.    *)
(*                                                                         *)
(* The log keeps its types, the save gate is honest, and what topology     *)
(* owns stays gated.  Here replay matters, for it moves rows and resets    *)
(* gates: its loops are run by NextIn, an induction on the index, and      *)
(* FullInv says of which chunk the gate may rely on at which moment.       *)
(***************************************************************************)
EXTENDS MeshLog, SequenceTheorems, FiniteSetTheorems, WellFoundedInduction, TLAPS

\* A list of anything.
Listed(s) == s \in Seq(Range(s))

-----------------------------------------------------------------------------
(* Lists.                                                                  *)

LEMMA ListFacts ==
  ASSUME NEW s, Listed(s)
  PROVE  /\ Len(s) \in Nat /\ DOMAIN s = 1 .. Len(s)
         /\ s = [k \in 1 .. Len(s) |-> s[k]]
<1>1. s \in Seq(Range(s))
  BY DEF Listed
<1> QED BY <1>1, LenProperties

LEMMA ListOf ==
  ASSUME NEW s, NEW n \in Nat, s = [k \in 1 .. n |-> s[k]]
  PROVE  Listed(s) /\ Len(s) = n
<1>1. DOMAIN s = 1 .. n
  BY Zenon
<1>2. \A k \in 1 .. n : s[k] \in Range(s)
  BY <1>1 DEF Range
<1>3. s \in [1 .. n -> Range(s)]
  BY <1>1, <1>2
<1>4. s \in Seq(Range(s))
  BY <1>3, SeqDef
<1> QED BY <1>3, <1>4 DEF Listed

\* A list is a sequence over any set that holds its items.
LEMMA ListIn ==
  ASSUME NEW s, Listed(s), NEW S, Range(s) \subseteq S
  PROVE  s \in Seq(S)
<1>1. Len(s) \in Nat /\ DOMAIN s = 1 .. Len(s) /\ s = [k \in 1 .. Len(s) |-> s[k]]
  BY ListFacts
<1>2. \A k \in 1 .. Len(s) : s[k] \in S
  BY <1>1 DEF Range
<1>3. s \in [1 .. Len(s) -> S]
  BY <1>1, <1>2
<1> QED BY <1>1, <1>3, SeqDef

LEMMA ExceptList ==
  ASSUME NEW s, Listed(s), NEW k, NEW x
  PROVE  Listed([s EXCEPT ![k] = x]) /\ Len([s EXCEPT ![k] = x]) = Len(s)
<1> DEFINE t == [s EXCEPT ![k] = x]
<1>1. Len(s) \in Nat /\ DOMAIN s = 1 .. Len(s)
  BY ListFacts
<1>2. t = [j \in 1 .. Len(s) |-> t[j]]
  BY <1>1
<1> HIDE DEF t
<1>3. Listed(t) /\ Len(t) = Len(s)
  BY <1>1, <1>2, ListOf
<1> QED BY <1>3 DEF t

LEMMA AppendList ==
  ASSUME NEW s, Listed(s), NEW x
  PROVE  /\ Listed(Append(s, x)) /\ Len(Append(s, x)) = Len(s) + 1
         /\ \A k \in 1 .. Len(s) : Append(s, x)[k] = s[k]
         /\ Append(s, x)[Len(s) + 1] = x
<1> DEFINE S == Range(s) \cup {x}
           t == Append(s, x)
<1>1. Len(s) \in Nat /\ DOMAIN s = 1 .. Len(s) /\ s = [k \in 1 .. Len(s) |-> s[k]]
  BY ListFacts
<1>2. s \in Seq(S)
  BY ListIn
<1>3. /\ t \in Seq(S) /\ Len(t) = Len(s) + 1
      /\ \A k \in 1 .. Len(s) : t[k] = s[k]
      /\ t[Len(s) + 1] = x
  BY <1>2, AppendProperties
<1> HIDE DEF S, t
<1>4. t = [k \in 1 .. Len(t) |-> t[k]] /\ Len(t) \in Nat
  BY <1>3, LenProperties
<1>5. Listed(t)
  BY <1>4, ListOf
<1> QED BY <1>3, <1>5 DEF t

LEMMA SubList ==
  ASSUME NEW s, Listed(s), NEW a \in 0 .. Len(s), NEW b \in a .. Len(s)
  PROVE  /\ Listed(SubSeq(s, a + 1, b)) /\ Len(SubSeq(s, a + 1, b)) = b - a
         /\ \A k \in 1 .. b - a : SubSeq(s, a + 1, b)[k] = s[a + k]
<1> DEFINE t == SubSeq(s, a + 1, b)
<1>1. Len(s) \in Nat /\ DOMAIN s = 1 .. Len(s)
  BY ListFacts
<1>2. \A k \in a + 1 .. b : s[k] \in Range(s)
  BY <1>1 DEF Range
<1>3. /\ t \in Seq(Range(s))
      /\ Len(t) = IF a + 1 <= b THEN b - (a + 1) + 1 ELSE 0
      /\ \A k \in 1 .. b - (a + 1) + 1 : t[k] = s[a + 1 + k - 1]
  BY <1>1, <1>2, SubSeqProperties
<1> HIDE DEF t
<1>4. Len(t) = b - a /\ \A k \in 1 .. b - a : t[k] = s[a + k]
  BY <1>1, <1>3
<1>5. t = [k \in 1 .. Len(t) |-> t[k]] /\ Len(t) \in Nat
  BY <1>3, LenProperties
<1>6. Listed(t)
  BY <1>5, ListOf
<1> QED BY <1>4, <1>6 DEF t

LEMMA RemoveList ==
  ASSUME NEW s, Listed(s), NEW k \in 1 .. Len(s)
  PROVE  /\ Listed(RemoveAt(s, k)) /\ Len(RemoveAt(s, k)) = Len(s) - 1
         /\ \A j \in 1 .. Len(s) - 1 : RemoveAt(s, k)[j] = IF j < k THEN s[j] ELSE s[j + 1]
<1> DEFINE a == SubSeq(s, 1, k - 1)
           b == SubSeq(s, k + 1, Len(s))
           n == Len(s)
<1>1. n \in Nat
  BY ListFacts
<1>2. Listed(a) /\ Len(a) = k - 1 /\ \A j \in 1 .. k - 1 : a[j] = s[j]
  <2>1. 0 \in 0 .. n /\ k - 1 \in 0 .. n
    BY <1>1
  <2>2. /\ Listed(SubSeq(s, 0 + 1, k - 1)) /\ Len(SubSeq(s, 0 + 1, k - 1)) = k - 1 - 0
        /\ \A j \in 1 .. k - 1 - 0 : SubSeq(s, 0 + 1, k - 1)[j] = s[0 + j]
    BY <2>1, SubList
  <2>3. 0 + 1 = 1 /\ k - 1 - 0 = k - 1 /\ \A j \in 1 .. k - 1 : 0 + j = j
    BY <1>1
  <2> QED BY <2>2, <2>3
<1>3. Listed(b) /\ Len(b) = n - k /\ \A j \in 1 .. n - k : b[j] = s[k + j]
  <2>1. k \in 0 .. n /\ n \in k .. n
    BY <1>1
  <2> QED BY <2>1, SubList
<1> DEFINE S == Range(a) \cup Range(b)
<1>4. a \in Seq(S) /\ b \in Seq(S)
  <2>1. Range(a) \subseteq S /\ Range(b) \subseteq S
    OBVIOUS
  <2> HIDE DEF a, b, S
  <2> QED BY <1>2, <1>3, <2>1, ListIn
<1> HIDE DEF a, b, S
<1>5. /\ a \o b \in Seq(S) /\ Len(a \o b) = Len(a) + Len(b)
      /\ \A j \in 1 .. Len(a) + Len(b) :
           (a \o b)[j] = IF j <= Len(a) THEN a[j] ELSE b[j - Len(a)]
  BY <1>4, ConcatProperties
<1> DEFINE t == a \o b
<1>6. RemoveAt(s, k) = t
  BY DEF RemoveAt, a, b
<1> HIDE DEF t
<1>7. t \in Seq(S) /\ Len(t) = n - 1
  BY <1>1, <1>2, <1>3, <1>5 DEF t
<1>8. \A j \in 1 .. n - 1 : t[j] = IF j < k THEN s[j] ELSE s[j + 1]
  <2> TAKE j \in 1 .. n - 1
  <2>1. t[j] = IF j <= k - 1 THEN a[j] ELSE b[j - (k - 1)]
    BY <1>1, <1>2, <1>3, <1>5 DEF t
  <2>2. CASE j < k
    BY <1>1, <1>2, <2>1, <2>2
  <2>3. CASE ~(j < k)
    <3>1. j - (k - 1) \in 1 .. n - k /\ k + (j - (k - 1)) = j + 1 /\ ~(j <= k - 1)
      BY <1>1, <2>3
    <3> QED BY <1>3, <2>1, <2>3, <3>1
  <2> QED BY <2>2, <2>3
<1>9. t = [j \in 1 .. Len(t) |-> t[j]] /\ Len(t) \in Nat
  BY <1>7, LenProperties
<1>10. Listed(t)
  BY <1>9, ListOf
<1> QED BY <1>6, <1>7, <1>8, <1>10

\* What is kept of a list are the items at the places K, each once.
LEMMA KeptOrder ==
  ASSUME NEW s, Listed(s), NEW K \in SUBSET DOMAIN s
  PROVE  /\ Listed(Kept(s, K)) /\ Cardinality(K) \in Nat
         /\ DOMAIN Kept(s, K) = 1 .. Cardinality(K)
         /\ \E f \in Bijection(1 .. Cardinality(K), K) :
              \A n \in 1 .. Cardinality(K) : Kept(s, K)[n] = s[f[n]]
<1> DEFINE N == Cardinality(K)
           Below(i) == {j \in K : j <= i}
           rank == [i \in K |-> Cardinality(Below(i))]
<1>1. IsFiniteSet(K) /\ N \in Nat /\ K \subseteq Nat
  <2>1. Len(s) \in Nat /\ DOMAIN s = 1 .. Len(s)
    BY ListFacts
  <2>2. IsFiniteSet(1 .. Len(s))
    BY <2>1, FS_Interval
  <2> QED BY <2>1, <2>2, FS_Subset, FS_CardinalityType
<1>2. ASSUME NEW i \in K
      PROVE  IsFiniteSet(Below(i)) /\ rank[i] \in 1 .. N
  <2>1. IsFiniteSet(Below(i)) /\ Cardinality(Below(i)) <= N
    BY <1>1, FS_Subset
  <2>2. i \in Below(i)
    BY <1>1
  <2>3. Cardinality(Below(i)) # 0 /\ Cardinality(Below(i)) \in Nat
    BY <2>1, <2>2, FS_EmptySet, FS_CardinalityType
  <2> QED BY <1>1, <2>1, <2>3
<1>3. ASSUME NEW i \in K, NEW j \in K, i < j
      PROVE  rank[i] # rank[j]
  <2>1. Below(i) \in SUBSET Below(j)
    <3>1. \A k \in K : k <= i => k <= j
      BY <1>1, <1>3
    <3> QED BY <3>1
  <2>2. j \in Below(j) /\ j \notin Below(i)
    BY <1>1, <1>3
  <2> QED BY <1>2, <2>1, <2>2, FS_Subset
<1>4. rank \in Injection(K, 1 .. N)
  <2>1. rank \in [K -> 1 .. N]
    BY <1>2
  <2>2. \A i, j \in K : i # j => i < j \/ j < i
    BY <1>1
  <2>3. \A i, j \in K : rank[i] = rank[j] => i = j
    <3> HIDE DEF rank
    <3> QED BY <1>3, <2>2
  <2> HIDE DEF rank
  <2> QED BY <2>1, <2>3 DEF Injection, IsInjective
<1>5. rank \in Surjection(K, 1 .. N)
  <2>1. IsFiniteSet(1 .. N) /\ Cardinality(1 .. N) = N
    BY <1>1, FS_Interval
  <2> QED BY <1>1, <1>4, <2>1, FS_Injection
<1> DEFINE f == [n \in 1 .. N |-> CHOOSE k \in K : Cardinality(Below(k)) = n]
<1>6. /\ \A n \in 1 .. N : f[n] \in K /\ rank[f[n]] = n
      /\ \A n \in 1 .. N : Kept(s, K)[n] = s[f[n]]
  <2>1. \A n \in 1 .. N : \E k \in K : rank[k] = n
    BY <1>5 DEF Surjection
  <2>2. \A n \in 1 .. N : \E k \in K : Cardinality(Below(k)) = n
    BY <2>1
  <2>3. \A n \in 1 .. N : f[n] \in K /\ Cardinality(Below(f[n])) = n
    BY <2>2
  <2>4. \A n \in 1 .. N : Kept(s, K)[n] = s[f[n]]
    BY DEF Kept
  <2> QED BY <2>3, <2>4
<1>7. DOMAIN Kept(s, K) = 1 .. N
  BY DEF Kept
<1>8. Kept(s, K) = [n \in 1 .. N |-> Kept(s, K)[n]]
  BY DEF Kept
<1>9. Listed(Kept(s, K))
  BY <1>1, <1>8, ListOf
<1>10. f \in Bijection(1 .. N, K)
  <2>1. f \in [1 .. N -> K]
    BY <1>6
  <2>2. \A k \in K : rank[k] \in 1 .. N
    BY <1>2
  <2>3. \A j, k \in K : rank[j] = rank[k] => j = k
    BY <1>4 DEF Injection, IsInjective
  <2> HIDE DEF rank, f
  <2>4. \A n, m \in 1 .. N : f[n] = f[m] => n = m
    BY <1>6
  <2>5. \A k \in K : \E n \in 1 .. N : f[n] = k
    BY <1>6, <2>2, <2>3
  <2> QED BY <2>1, <2>4, <2>5 DEF Bijection, Injection, Surjection, IsInjective
<1> HIDE DEF f
<1> QED BY <1>1, <1>6, <1>7, <1>9, <1>10

LEMMA KeptList ==
  ASSUME NEW s, Listed(s), NEW K \in SUBSET DOMAIN s
  PROVE  /\ Listed(Kept(s, K))
         /\ \A n \in DOMAIN Kept(s, K) : \E k \in K : Kept(s, K)[n] = s[k]
BY KeptOrder DEF Bijection, Injection

-----------------------------------------------------------------------------
(* The open step.                                                          *)

\* What the callbacks read of a chunk that takes records.
ActiveChunk(ch) ==
  /\ {"kind", "recs"} \subseteq DOMAIN ch /\ ch.kind = "topo"
  /\ Listed(ch.recs)
  /\ \A n \in DOMAIN ch.recs : {"idx", "what"} \subseteq DOMAIN ch.recs[n]

\* topo_chunk_ is nothing or a topology chunk of the step.
SoundEntry(e) ==
  /\ {"chunks", "topo"} \subseteq DOMAIN e /\ Listed(e.chunks)
  /\ \A k \in DOMAIN e.chunks : "kind" \in DOMAIN e.chunks[k]
  /\ e.topo # 0 => e.topo \in DOMAIN e.chunks /\ ActiveChunk(e.chunks[e.topo])

\* And what is stamped, the active chunk has a record of.
Covers(e, S) ==
  SoundEntry(e) /\ (e.topo # 0 => \A i \in S : Recorded(e.chunks[e.topo], i))

LEMMA NewEntrySound ==
  ASSUME NEW a
  PROVE  SoundEntry(NewEntry(a)) /\ NewEntry(a).topo = 0
<1>1. Listed(<<>>)
  BY EmptySeq DEF Listed
<1> QED BY <1>1 DEF NewEntry, SoundEntry

\* A sealed chunk and the items of the others keep their kind.
LEMMA FinalizedKeepsKind ==
  ASSUME NEW ch, NEW m, "kind" \in DOMAIN ch
  PROVE  /\ "kind" \in DOMAIN Finalized(ch, m) /\ Finalized(ch, m).kind = ch.kind
         /\ "kind" \in DOMAIN Refreshed(ch, m) /\ Refreshed(ch, m).kind = ch.kind
<1>1. "kind" \in DOMAIN Finalized(ch, m) /\ Finalized(ch, m).kind = ch.kind
  BY DEF Finalized
<1>2. "kind" \in DOMAIN Refreshed(ch, m) /\ Refreshed(ch, m).kind = ch.kind
  BY DEF Refreshed
<1> QED BY <1>1, <1>2

\* Sealing the active chunk.
LEMMA SealedChunks ==
  ASSUME NEW e, SoundEntry(e), NEW m
  PROVE  /\ Listed(Sealed(e, m)) /\ Len(Sealed(e, m)) = Len(e.chunks)
         /\ DOMAIN Sealed(e, m) = DOMAIN e.chunks
         /\ \A k \in DOMAIN e.chunks : "kind" \in DOMAIN Sealed(e, m)[k]
<1> DEFINE s == e.chunks
<1>1. Listed(s) /\ \A k \in DOMAIN s : "kind" \in DOMAIN s[k]
  BY DEF SoundEntry
<1>2. CASE e.topo = 0
  BY <1>1, <1>2 DEF Sealed
<1>3. CASE e.topo # 0
  <2> DEFINE x == Finalized(s[e.topo], m)
             t == [s EXCEPT ![e.topo] = x]
  <2>1. e.topo \in DOMAIN s
    BY <1>3 DEF SoundEntry
  <2>2. "kind" \in DOMAIN x
    BY <1>1, <2>1, FinalizedKeepsKind
  <2>3. Sealed(e, m) = t
    BY <1>3 DEF Sealed
  <2> HIDE DEF x, s
  <2>4. Listed(t) /\ Len(t) = Len(s)
    BY <1>1, ExceptList
  <2>5. DOMAIN t = DOMAIN s /\ \A k \in DOMAIN s : "kind" \in DOMAIN t[k]
    BY <1>1, <2>2
  <2> QED BY <2>3, <2>4, <2>5 DEF s
<1> QED BY <1>2, <1>3

LEMMA PushSound ==
  ASSUME NEW e, SoundEntry(e), NEW m, NEW S
  PROVE  /\ SoundEntry(PushTopoChunk(e, m)) /\ PushTopoChunk(e, m).topo # 0
         /\ Covers(PushTopoChunk(e, m), {})
<1> DEFINE s == Sealed(e, m)
           t == Append(s, NewTopo)
           p == PushTopoChunk(e, m)
           n == Len(e.chunks)
<1>1. n \in Nat /\ DOMAIN e.chunks = 1 .. n
  BY ListFacts DEF SoundEntry
<1>2. Listed(s) /\ Len(s) = n /\ \A k \in 1 .. n : "kind" \in DOMAIN s[k]
  BY <1>1, SealedChunks
<1> HIDE DEF s
<1>3. Listed(t) /\ Len(t) = n + 1 /\ (\A k \in 1 .. n : t[k] = s[k]) /\ t[n + 1] = NewTopo
  BY <1>2, AppendList
<1>4. {"chunks", "topo"} \subseteq DOMAIN p /\ p.chunks = t /\ p.topo = n + 1
  BY DEF PushTopoChunk, SoundEntry, s
<1> HIDE DEF t, p, n
<1>5. DOMAIN t = 1 .. n + 1
  BY <1>3, ListFacts
<1>6. Listed(<<>>)
  BY EmptySeq DEF Listed
<1>7. ActiveChunk(NewTopo)
  BY <1>6 DEF ActiveChunk, NewTopo
<1>8. \A k \in 1 .. n + 1 : "kind" \in DOMAIN t[k]
  BY <1>1, <1>2, <1>3, <1>7 DEF ActiveChunk
<1>9. SoundEntry(p) /\ p.topo # 0
  BY <1>1, <1>3, <1>4, <1>5, <1>7, <1>8 DEF SoundEntry
<1> QED BY <1>9 DEF Covers, p

LEMMA GetSound ==
  ASSUME NEW e, NEW S, Covers(e, S), NEW m
  PROVE  /\ GetTopoChunk(e, m).topo # 0
         /\ Covers(GetTopoChunk(e, m), IF e.topo = 0 THEN {} ELSE S)
<1>1. CASE e.topo = 0
  BY <1>1, PushSound DEF GetTopoChunk, Covers
<1>2. CASE e.topo # 0
  BY <1>2 DEF GetTopoChunk
<1> QED BY <1>1, <1>2

\* A record written into the active chunk.
LEMMA WriteSound ==
  ASSUME NEW e, SoundEntry(e), e.topo # 0, NEW recs, Listed(recs), NEW S,
         \A n \in DOMAIN recs : {"idx", "what"} \subseteq DOMAIN recs[n],
         \A i \in S : \E n \in DOMAIN recs : recs[n].idx = i
  PROVE  Covers([e EXCEPT !.chunks[e.topo].recs = recs], S)
<1> DEFINE s == e.chunks
           ch == s[e.topo]
           new == [ch EXCEPT !.recs = recs]
           t == [s EXCEPT ![e.topo] = new]
           w == [e EXCEPT !.chunks[e.topo].recs = recs]
<1>1. /\ {"chunks", "topo"} \subseteq DOMAIN e /\ Listed(s)
      /\ \A k \in DOMAIN s : "kind" \in DOMAIN s[k]
      /\ e.topo \in DOMAIN s /\ ActiveChunk(ch)
  BY DEF SoundEntry
<1>2. ActiveChunk(new) /\ new.recs = recs
  BY <1>1 DEF ActiveChunk
<1>3. w = [e EXCEPT !.chunks = t]
  OBVIOUS
<1>4. {"chunks", "topo"} \subseteq DOMAIN w /\ w.chunks = t /\ w.topo = e.topo
  BY <1>1, <1>3
<1> HIDE DEF w, new, s
<1>5. Listed(t)
  BY <1>1, ExceptList
<1>6. DOMAIN t = DOMAIN s /\ t[e.topo] = new
  BY <1>1
<1>7. \A k \in DOMAIN t : "kind" \in DOMAIN t[k]
  BY <1>1, <1>2 DEF ActiveChunk
<1> HIDE DEF t
<1>8. SoundEntry(w)
  BY <1>1, <1>2, <1>4, <1>5, <1>6, <1>7 DEF SoundEntry
<1>9. \A i \in S : Recorded(new, i)
  BY <1>2 DEF Recorded, ActiveChunk
<1>10. Covers(w, S)
  BY <1>4, <1>6, <1>8, <1>9 DEF Covers
<1> QED BY <1>10 DEF w

\* The three records.
LEMMA RecordSound ==
  ASSUME NEW e, NEW S, Covers(e, S), e.topo # 0, NEW i, NEW m
  PROVE  /\ Covers([e EXCEPT !.chunks[e.topo].recs = OnCreate(@, i)], S \cup {i})
         /\ Covers([e EXCEPT !.chunks[e.topo].recs = OnChange(@, i, m)], S \cup {i})
         /\ Covers([e EXCEPT !.chunks[e.topo].recs = OnKill(@, i, m)], S \ {i})
<1> DEFINE recs == e.chunks[e.topo].recs
           n == Len(recs)
           Fields(r) == {"idx", "what"} \subseteq DOMAIN r
           W(r) == [e EXCEPT !.chunks[e.topo].recs = r]
           Names(r, T) == \A j \in T : \E k \in DOMAIN r : r[k].idx = j
<1>1. SoundEntry(e) /\ Listed(recs) /\ (\A k \in DOMAIN recs : Fields(recs[k])) /\ Names(recs, S)
  BY DEF Covers, SoundEntry, ActiveChunk, Recorded
<1>2. n \in Nat /\ DOMAIN recs = 1 .. n
  BY <1>1, ListFacts
<1> HIDE DEF recs
<1>3. ASSUME NEW new, Listed(new), \A k \in DOMAIN new : Fields(new[k]), NEW T, Names(new, T)
      PROVE  Covers(W(new), T)
  <2>1. SoundEntry(e)
    BY <1>1
  <2>2. \A k \in DOMAIN new : {"idx", "what"} \subseteq DOMAIN new[k]
    BY <1>3
  <2>3. \A j \in T : \E k \in DOMAIN new : new[k].idx = j
    BY <1>3
  <2> QED BY <1>3, <2>1, <2>2, <2>3, WriteSound
<1> HIDE DEF W
<1>4. ASSUME NEW x, Fields(x), x.idx = i
      PROVE  /\ Listed(Append(recs, x)) /\ \A k \in DOMAIN Append(recs, x) : Fields(Append(recs, x)[k])
             /\ Names(Append(recs, x), S \cup {i})
  <2> DEFINE t == Append(recs, x)
  <2>1. /\ Listed(t) /\ Len(t) = n + 1
        /\ (\A k \in 1 .. n : t[k] = recs[k]) /\ t[n + 1] = x
    BY <1>1, AppendList
  <2> HIDE DEF t
  <2>2. DOMAIN t = 1 .. n + 1
    BY <2>1, ListFacts
  <2>3. \A k \in DOMAIN t : Fields(t[k])
    <3>1. \A k \in DOMAIN t : k \in 1 .. n \/ k = n + 1
      BY <1>2, <2>2
    <3> QED BY <1>1, <1>2, <1>4, <2>1, <3>1
  <2>4. Names(t, S \cup {i})
    <3>1. n + 1 \in DOMAIN t /\ \A k \in 1 .. n : k \in DOMAIN t
      BY <1>2, <2>2
    <3> QED BY <1>1, <1>2, <1>4, <2>1, <3>1
  <2> QED BY <2>1, <2>3, <2>4 DEF t
<1>5. Covers(W(OnCreate(recs, i)), S \cup {i})
  <2> DEFINE x == [idx |-> i, what |-> "created", body |-> DefaultRow]
  <2>1. Fields(x) /\ x.idx = i
    OBVIOUS
  <2> DEFINE y == Append(recs, x)
  <2>2. OnCreate(recs, i) = y
    BY DEF OnCreate
  <2> HIDE DEF x
  <2>3. Listed(y) /\ (\A k \in DOMAIN y : Fields(y[k])) /\ Names(y, S \cup {i})
    BY <1>4, <2>1
  <2> HIDE DEF y
  <2> QED BY <1>3, <2>2, <2>3
<1>6. Covers(W(OnChange(recs, i, m)), S \cup {i})
  <2>1. CASE Mapped(recs, i) # {}
    <3>1. Names(recs, S \cup {i})
      BY <1>1, <2>1 DEF Mapped
    <3>2. OnChange(recs, i, m) = recs
      BY <2>1 DEF OnChange
    <3> QED BY <1>1, <1>3, <3>1, <3>2
  <2>2. CASE Mapped(recs, i) = {}
    <3> DEFINE x == [idx |-> i, what |-> "changed", body |-> m.data[i]]
    <3>1. Fields(x) /\ x.idx = i
      OBVIOUS
    <3> DEFINE y == Append(recs, x)
    <3>2. OnChange(recs, i, m) = y
      BY <2>2 DEF OnChange
    <3> HIDE DEF x
    <3>3. Listed(y) /\ (\A k \in DOMAIN y : Fields(y[k])) /\ Names(y, S \cup {i})
      BY <1>4, <3>1
    <3> HIDE DEF y
    <3> QED BY <1>3, <3>2, <3>3
  <2> QED BY <2>1, <2>2
<1>7. Covers(W(OnKill(recs, i, m)), S \ {i})
  <2>1. CASE Mapped(recs, i) = {}
    <3> DEFINE x == [idx |-> i, what |-> "killed", body |-> m.data[i]]
    <3>1. Fields(x) /\ x.idx = i
      OBVIOUS
    <3> DEFINE y == Append(recs, x)
    <3>2. OnKill(recs, i, m) = y
      BY <2>1 DEF OnKill
    <3> HIDE DEF x
    <3>3. Listed(y) /\ (\A k \in DOMAIN y : Fields(y[k])) /\ Names(y, S \ {i})
      BY <1>4, <3>1
    <3> HIDE DEF y
    <3> QED BY <1>3, <3>2, <3>3
  <2>2. CASE Mapped(recs, i) # {}
    <3> DEFINE k == CHOOSE j \in Mapped(recs, i) : TRUE
    <3>1. k \in 1 .. n /\ recs[k].idx = i
      BY <1>2, <2>2 DEF Mapped
    <3>2. CASE recs[k].what = "created"
      <4> DEFINE t == RemoveAt(recs, k)
      <4>1. OnKill(recs, i, m) = t
        BY <2>2, <3>2 DEF OnKill
      <4> HIDE DEF k
      <4>2. /\ Listed(t) /\ Len(t) = n - 1
            /\ \A j \in 1 .. n - 1 : t[j] = IF j < k THEN recs[j] ELSE recs[j + 1]
        BY <1>1, <3>1, RemoveList
      <4> HIDE DEF t
      <4>3. DOMAIN t = 1 .. n - 1
        BY <4>2, ListFacts
      <4>4. \A j \in DOMAIN t : Fields(t[j])
        <5>1. \A j \in 1 .. n - 1 : j \in 1 .. n /\ j + 1 \in 1 .. n
          BY <1>2
        <5> QED BY <1>1, <1>2, <4>2, <4>3, <5>1
      <4>5. Names(t, S \ {i})
        <5> SUFFICES ASSUME NEW j \in S \ {i} PROVE \E l \in DOMAIN t : t[l].idx = j
          OBVIOUS
        <5>1. PICK l \in 1 .. n : recs[l].idx = j
          BY <1>1, <1>2
        <5>2. l # k
          BY <3>1, <5>1
        <5>3. CASE l < k
          <6>1. l \in 1 .. n - 1
            BY <1>2, <3>1, <5>3
          <6> QED BY <4>2, <4>3, <5>1, <5>3, <6>1
        <5>4. CASE l > k
          <6>1. l - 1 \in 1 .. n - 1 /\ ~(l - 1 < k) /\ (l - 1) + 1 = l
            BY <1>2, <3>1, <5>4
          <6> QED BY <4>2, <4>3, <5>1, <6>1
        <5> QED BY <1>2, <3>1, <5>2, <5>3, <5>4
      <4> QED BY <1>3, <4>1, <4>2, <4>4, <4>5
    <3>3. CASE recs[k].what # "created"
      <4> DEFINE x == [recs[k] EXCEPT !.what = "killed"]
                 t == [recs EXCEPT ![k] = x]
      <4>1. OnKill(recs, i, m) = t
        BY <2>2, <3>3 DEF OnKill
      <4> HIDE DEF k
      <4>2. Fields(recs[k])
        BY <1>1, <1>2, <3>1
      <4>3. Fields(x) /\ x.idx = recs[k].idx
        BY <4>2
      <4> HIDE DEF x
      <4>4. Listed(t)
        BY <1>1, ExceptList
      <4>5. /\ DOMAIN t = DOMAIN recs /\ t[k] = x
            /\ \A j \in DOMAIN t : j # k => t[j] = recs[j]
        BY <1>2, <3>1
      <4> HIDE DEF t
      <4>6. \A j \in DOMAIN t : Fields(t[j]) /\ t[j].idx = recs[j].idx
        BY <1>1, <4>3, <4>5
      <4>7. Names(t, S \ {i})
        BY <1>1, <4>5, <4>6
      <4> QED BY <1>3, <4>1, <4>4, <4>6, <4>7
    <3> QED BY <3>2, <3>3
  <2> QED BY <2>1, <2>2
<1> QED BY <1>5, <1>6, <1>7 DEF recs, W

\* A chunk that is not the active one is written to, and keeps its kind.
LEMMA StoreSound ==
  ASSUME NEW e, NEW S, Covers(e, S), NEW k \in DOMAIN e.chunks, e.chunks[k].kind = "elems",
         NEW x, "kind" \in DOMAIN x, x.kind = "elems"
  PROVE  /\ Covers([e EXCEPT !.chunks[k] = x], S)
         /\ k \in StoreOf([e EXCEPT !.chunks[k] = x])
<1> DEFINE s == e.chunks
           t == [s EXCEPT ![k] = x]
           w == [e EXCEPT !.chunks[k] = x]
<1>1. /\ {"chunks", "topo"} \subseteq DOMAIN e /\ Listed(s)
      /\ \A j \in DOMAIN s : "kind" \in DOMAIN s[j]
      /\ e.topo # 0 => /\ e.topo \in DOMAIN s /\ ActiveChunk(s[e.topo])
                       /\ \A i \in S : Recorded(s[e.topo], i)
  BY DEF Covers, SoundEntry
<1>2. {"chunks", "topo"} \subseteq DOMAIN w /\ w.chunks = t /\ w.topo = e.topo
  BY <1>1
<1>3. s[k].kind = "elems"
  OBVIOUS
<1>4. k \in DOMAIN s
  OBVIOUS
<1> HIDE DEF s, w
<1>5. Listed(t)
  BY <1>1, ExceptList
<1>6. DOMAIN t = DOMAIN s /\ t[k] = x /\ \A j \in DOMAIN s : j # k => t[j] = s[j]
  BY <1>4
<1> HIDE DEF t
<1>7. \A j \in DOMAIN t : "kind" \in DOMAIN t[j]
  BY <1>1, <1>6
<1>8. e.topo # 0 => e.topo # k
  BY <1>1, <1>3 DEF ActiveChunk
<1>9. e.topo # 0 => e.topo \in DOMAIN t /\ t[e.topo] = s[e.topo]
  BY <1>1, <1>6, <1>8
<1>10. SoundEntry(w)
  BY <1>1, <1>2, <1>5, <1>7, <1>9 DEF SoundEntry
<1>11. Covers(w, S)
  BY <1>1, <1>2, <1>9, <1>10 DEF Covers
<1>12. k \in StoreOf(w)
  BY <1>2, <1>4, <1>6 DEF StoreOf
<1> QED BY <1>11, <1>12 DEF w

LEMMA WithStoreSound ==
  ASSUME NEW e, NEW S, Covers(e, S)
  PROVE  Covers(WithStore(e), S) /\ StoreOf(WithStore(e)) # {}
<1>1. CASE StoreOf(e) # {}
  BY <1>1 DEF WithStore
<1>2. CASE StoreOf(e) = {}
  <2> DEFINE s == e.chunks
             t == Append(s, NewStore)
             w == WithStore(e)
             n == Len(s)
  <2>1. /\ {"chunks", "topo"} \subseteq DOMAIN e /\ Listed(s)
        /\ \A j \in DOMAIN s : "kind" \in DOMAIN s[j]
        /\ e.topo # 0 => /\ e.topo \in DOMAIN s /\ ActiveChunk(s[e.topo])
                         /\ \A i \in S : Recorded(s[e.topo], i)
    BY DEF Covers, SoundEntry
  <2>2. {"chunks", "topo"} \subseteq DOMAIN w /\ w.chunks = t /\ w.topo = e.topo
    BY <1>2, <2>1 DEF WithStore
  <2> HIDE DEF s, w
  <2>3. n \in Nat /\ DOMAIN s = 1 .. n
    BY <2>1, ListFacts
  <2>4. Listed(t) /\ Len(t) = n + 1 /\ (\A k \in 1 .. n : t[k] = s[k]) /\ t[n + 1] = NewStore
    BY <2>1, AppendList
  <2> HIDE DEF t
  <2>5. DOMAIN t = 1 .. n + 1
    BY <2>4, ListFacts
  <2>6. "kind" \in DOMAIN NewStore /\ NewStore.kind = "elems"
    BY DEF NewStore
  <2>7. \A j \in DOMAIN t : "kind" \in DOMAIN t[j]
    <3>1. \A j \in DOMAIN t : j \in 1 .. n \/ j = n + 1
      BY <2>3, <2>5
    <3> QED BY <2>1, <2>3, <2>4, <2>6, <3>1
  <2>8. e.topo # 0 => e.topo \in DOMAIN t /\ t[e.topo] = s[e.topo]
    BY <2>1, <2>3, <2>4, <2>5
  <2>9. Covers(w, S)
    BY <2>1, <2>2, <2>4, <2>7, <2>8 DEF Covers, SoundEntry
  <2>10. n + 1 \in StoreOf(w)
    BY <2>2, <2>3, <2>4, <2>5, <2>6 DEF StoreOf
  <2> QED BY <2>9, <2>10 DEF w
<1> QED BY <1>1, <1>2

LEMMA ColumnsSound ==
  ASSUME NEW e, NEW S, Covers(e, S), NEW cols
  PROVE  Covers(WithColumns(e, cols), S) /\ StoreOf(WithColumns(e, cols)) # {}
<1> DEFINE f == WithStore(e)
           k == CHOOSE j \in StoreOf(f) : TRUE
           x == [f.chunks[k] EXCEPT !.cols = @ \cup cols]
<1>1. Covers(f, S) /\ StoreOf(f) # {}
  BY WithStoreSound
<1>2. WithColumns(e, cols) = [f EXCEPT !.chunks[k] = x]
  BY DEF WithColumns
<1> HIDE DEF f
<1>3. k \in StoreOf(f)
  BY <1>1
<1> HIDE DEF k
<1>4. k \in DOMAIN f.chunks /\ f.chunks[k].kind = "elems"
  BY <1>3 DEF StoreOf
<1>5. "kind" \in DOMAIN f.chunks[k]
  BY <1>1, <1>4 DEF Covers, SoundEntry
<1>6. "kind" \in DOMAIN x /\ x.kind = "elems"
  BY <1>4, <1>5
<1> HIDE DEF x
<1> QED BY <1>1, <1>2, <1>4, <1>6, StoreSound

LEMMA CaptureSound ==
  ASSUME NEW e, NEW S, Covers(e, S), StoreOf(e) # {}, NEW m, NEW i
  PROVE  Covers(CaptureRow(e, m, i), S)
<1> DEFINE k == CHOOSE j \in StoreOf(e) : TRUE
           row == [idx |-> i, vals |-> Mix(e.chunks[k].cols, DefaultRow, m.data[i])]
           x == [e.chunks[k] EXCEPT !.rows = Append(@, row)]
<1>1. k \in StoreOf(e)
  OBVIOUS
<1>2. CaptureRow(e, m, i) = [e EXCEPT !.chunks[k] = x]
  BY DEF CaptureRow
<1> HIDE DEF k, row
<1>3. k \in DOMAIN e.chunks /\ e.chunks[k].kind = "elems"
  BY <1>1 DEF StoreOf
<1>4. "kind" \in DOMAIN e.chunks[k]
  BY <1>3 DEF Covers, SoundEntry
<1>5. "kind" \in DOMAIN x /\ x.kind = "elems"
  BY <1>3, <1>4
<1> HIDE DEF x
<1> QED BY <1>2, <1>3, <1>5, StoreSound

\* A finalized step, to which a reorder is then appended.
LEMMA FinalizedSound ==
  ASSUME NEW e, SoundEntry(e), ~e.finalized, NEW m, NEW ch, "kind" \in DOMAIN ch
  PROVE  LET f == FinalizedEntry(e, m)
         IN  Covers([f EXCEPT !.chunks = Append(@, ch)], {})
<1> DEFINE f == FinalizedEntry(e, m)
           s == e.chunks
           n == Len(s)
           t == [k \in DOMAIN s |-> Refreshed(Sealed(e, m)[k], m)]
           u == Append(t, ch)
           w == [f EXCEPT !.chunks = u]
<1>1. {"chunks", "topo"} \subseteq DOMAIN e /\ Listed(s)
  BY DEF SoundEntry
<1>2. n \in Nat /\ DOMAIN s = 1 .. n
  BY <1>1, ListFacts
<1>3. \A k \in DOMAIN s : "kind" \in DOMAIN t[k]
  <2>1. \A k \in DOMAIN s : "kind" \in DOMAIN Sealed(e, m)[k]
    BY SealedChunks
  <2> HIDE DEF s
  <2> QED BY <2>1, FinalizedKeepsKind
<1>4. {"chunks", "topo"} \subseteq DOMAIN f /\ f.chunks = t /\ f.topo = 0
  BY <1>1 DEF FinalizedEntry
<1> HIDE DEF s
<1>5. t = [k \in 1 .. n |-> t[k]]
  BY <1>2
<1>6. DOMAIN t = 1 .. n
  BY <1>2
<1> HIDE DEF t, f, n
<1>7. Listed(t) /\ Len(t) = n
  BY <1>2, <1>5, ListOf
<1>8. Listed(u) /\ Len(u) = n + 1 /\ (\A k \in 1 .. n : u[k] = t[k]) /\ u[n + 1] = ch
  BY <1>7, AppendList
<1> HIDE DEF u
<1>9. DOMAIN u = 1 .. n + 1
  BY <1>8, ListFacts
<1>10. \A k \in DOMAIN u : "kind" \in DOMAIN u[k]
  <2>1. \A k \in DOMAIN u : k \in 1 .. n \/ k = n + 1
    BY <1>2, <1>9
  <2> QED BY <1>2, <1>3, <1>6, <1>8, <2>1
<1>11. {"chunks", "topo"} \subseteq DOMAIN w /\ w.chunks = u /\ w.topo = 0
  BY <1>4
<1> HIDE DEF w
<1>12. Covers(w, {})
  BY <1>8, <1>10, <1>11 DEF Covers, SoundEntry
<1>13. w = [f EXCEPT !.chunks = Append(@, ch)]
  BY <1>4 DEF w, u
<1> QED BY <1>12, <1>13 DEF f

\* What a rollback leaves.
LEMMA KeptSound ==
  ASSUME NEW e, SoundEntry(e), NEW K \in SUBSET DOMAIN e.chunks
  PROVE  Covers([e EXCEPT !.topo = 0, !.chunks = Kept(@, K)], {})
<1> DEFINE t == Kept(e.chunks, K)
           w == [e EXCEPT !.topo = 0, !.chunks = Kept(@, K)]
<1>1. Listed(t) /\ \A n \in DOMAIN t : \E k \in K : t[n] = e.chunks[k]
  BY KeptList DEF SoundEntry
<1> HIDE DEF t
<1>2. {"chunks", "topo"} \subseteq DOMAIN w /\ w.chunks = t /\ w.topo = 0
  BY DEF SoundEntry, t
<1> HIDE DEF w
<1>3. \A n \in DOMAIN t : "kind" \in DOMAIN t[n]
  BY <1>1 DEF SoundEntry
<1>4. Covers(w, {})
  BY <1>1, <1>2, <1>3 DEF Covers, SoundEntry
<1> QED BY <1>4 DEF w

-----------------------------------------------------------------------------
(* The invariant and the actions.                                          *)

IInv ==
  /\ Listed(entries) /\ curStep \in 0 .. Len(entries)
  /\ maxUndo \in Int
  /\ "mode" \in DOMAIN client
  /\ Open => Len(entries) = curStep + 1 /\ Covers(cur, stamps)

LEMMA InvImplies == IInv => StampsSound
  BY DEF IInv, Covers, StampsSound, Editing

\* Fewer stamps are covered too.
LEMMA FewerCovered ==
  ASSUME NEW e, NEW S, Covers(e, S), NEW T, e.topo # 0 => T \subseteq S
  PROVE  Covers(e, T)
BY DEF Covers

\* The open step is replaced.
LEMMA OpenStep ==
  ASSUME IInv, NEW e, entries' = [entries EXCEPT ![curStep + 1] = e],
         UNCHANGED <<curStep, maxUndo>>, "mode" \in DOMAIN client', Open' => Open,
         Open => Covers(e, stamps')
  PROVE  IInv'
<1>1. Listed(entries') /\ Len(entries') = Len(entries)
  BY ExceptList DEF IInv
<1>2. curStep' \in 0 .. Len(entries') /\ maxUndo' \in Int
  BY <1>1 DEF IInv
<1>3. ASSUME Open' PROVE Len(entries') = curStep' + 1 /\ Covers(cur', stamps')
  <2>1. Open /\ Len(entries) = curStep + 1 /\ curStep \in Nat
    BY <1>3 DEF IInv
  <2>2. curStep + 1 \in DOMAIN entries
    BY <2>1, ListFacts DEF IInv
  <2>3. cur' = e
    BY <2>2 DEF cur
  <2> QED BY <1>1, <2>1, <2>3
<1> QED BY <1>1, <1>2, <1>3 DEF IInv

\* The log is left alone.
LEMMA LogKept ==
  ASSUME IInv, UNCHANGED <<entries, curStep, maxUndo, stamps>>,
         "mode" \in DOMAIN client', Open' => Open
  PROVE  IInv'
BY DEF IInv, cur

LEMMA TrimFacts ==
  ASSUME NEW es, Listed(es), NEW done \in 0 .. Len(es), NEW max \in Int
  PROVE  LET t == Trim(es, done, max)
         IN  /\ Listed(t.entries) /\ t.curStep \in 0 .. Len(t.entries)
             /\ Len(t.entries) - t.curStep = Len(es) - done
             /\ done < Len(es) => t.entries[t.curStep + 1] = es[done + 1]
<1> DEFINE N == Len(es)
           x == IF max < 0 \/ Len(es) <= max THEN 0 ELSE Len(es) - max
           n == IF x < done THEN x ELSE done
           sub == SubSeq(es, n + 1, Len(es))
           t == Trim(es, done, max)
<1>1. N \in Nat
  BY ListFacts
<1>2. n \in 0 .. done
  BY <1>1
<1>3. t.entries = sub /\ t.curStep = done - n
  BY DEF Trim
<1> HIDE DEF x, n, t
<1>4. n \in 0 .. N /\ N \in n .. N
  BY <1>1, <1>2
<1>5. Listed(sub) /\ Len(sub) = N - n /\ \A k \in 1 .. N - n : sub[k] = es[n + k]
  BY <1>4, SubList
<1> HIDE DEF sub
<1>6. done - n \in 0 .. N - n /\ (N - n) - (done - n) = N - done
  BY <1>1, <1>2
<1>7. done < N => sub[(done - n) + 1] = es[done + 1]
  <2> SUFFICES ASSUME done < N PROVE sub[(done - n) + 1] = es[done + 1]
    OBVIOUS
  <2>1. (done - n) + 1 \in 1 .. N - n /\ n + ((done - n) + 1) = done + 1
    BY <1>1, <1>2
  <2> QED BY <1>5, <2>1
<1> QED BY <1>3, <1>5, <1>6, <1>7 DEF t

LEMMA InitInv == ASSUME Init PROVE IInv
<1>1. entries = [k \in 1 .. 1 |-> entries[k]]
  BY DEF Init
<1>2. Listed(entries) /\ Len(entries) = 1
  BY <1>1, ListOf
<1>3. ~Open /\ "mode" \in DOMAIN client
  BY DEF Init, Closed, Open
<1> QED BY <1>2, <1>3 DEF IInv, Init

LEMMA BeginStepInv ==
  ASSUME IInv, NEW mode, BeginStep(mode)
  PROVE  IInv'
<1> DEFINE s == SubSeq(entries, 1, curStep)
           e == IF mode = "dyntopo" THEN PushTopoChunk(NewEntry(active), mesh) ELSE NewEntry(active)
<1>1. Listed(s) /\ Len(s) = curStep /\ curStep \in Nat
  <2>1. 0 \in 0 .. Len(entries) /\ curStep \in 0 .. Len(entries)
    BY ListFacts DEF IInv
  <2>2. Listed(SubSeq(entries, 0 + 1, curStep)) /\ Len(SubSeq(entries, 0 + 1, curStep)) = curStep - 0
    BY <2>1, SubList DEF IInv
  <2> QED BY <2>1, <2>2
<1>2. entries' = Append(s, e) /\ curStep' = curStep /\ maxUndo' = maxUndo
  BY DEF BeginStep
<1>3. Covers(e, stamps')
  <2>1. CASE mode = "dyntopo"
    BY <2>1, NewEntrySound, PushSound DEF BeginStep
  <2>2. CASE mode # "dyntopo"
    BY <2>2, NewEntrySound DEF Covers
  <2> QED BY <2>1, <2>2
<1> HIDE DEF s, e
<1>4. Listed(entries') /\ Len(entries') = curStep + 1 /\ entries'[curStep + 1] = e
  BY <1>1, <1>2, AppendList
<1>5. cur' = e
  BY <1>2, <1>4 DEF cur
<1>6. "mode" \in DOMAIN client'
  <2>1. \E style \in (IF mode \in Strokes THEN Styles ELSE {{}}) :
          client' = [Closed EXCEPT !.mode = mode, !.style = style]
    BY DEF BeginStep
  <2> QED BY <2>1 DEF Closed
<1>7. maxUndo' \in Int /\ curStep' \in 0 .. Len(entries') /\ Len(entries') = curStep' + 1
  BY <1>1, <1>2, <1>4 DEF IInv
<1> QED BY <1>3, <1>4, <1>5, <1>6, <1>7 DEF IInv

LEMMA EndStepInv ==
  ASSUME IInv, EndStep
  PROVE  IInv'
<1> DEFINE es == [entries EXCEPT ![curStep + 1] = FinalizedEntry(@, mesh)]
<1>1. Open /\ Listed(es) /\ Len(es) = curStep + 1 /\ curStep \in Nat
  <2>1. Open /\ Listed(entries) /\ Len(entries) = curStep + 1 /\ curStep \in Nat
    BY DEF IInv, EndStep, Open
  <2> DEFINE x == FinalizedEntry(entries[curStep + 1], mesh)
  <2>2. es = [entries EXCEPT ![curStep + 1] = x]
    OBVIOUS
  <2> HIDE DEF x, es
  <2> QED BY <2>1, <2>2, ExceptList
<1>2. entries' = Trim(es, curStep + 1, maxUndo).entries /\ curStep' = Trim(es, curStep + 1, maxUndo).curStep
  BY DEF EndStep
<1> HIDE DEF es
<1>3. curStep + 1 \in 0 .. Len(es) /\ maxUndo \in Int
  BY <1>1 DEF IInv
<1>4. Listed(entries') /\ curStep' \in 0 .. Len(entries')
  BY <1>1, <1>2, <1>3, TrimFacts
<1>5. ~Open' /\ "mode" \in DOMAIN client' /\ maxUndo' = maxUndo
  BY DEF EndStep, Closed, Open
<1> QED BY <1>3, <1>4, <1>5 DEF IInv

LEMMA CompactInv ==
  ASSUME IInv, NEW perm, Compact(perm)
  PROVE  IInv'
<1> DEFINE ch == [kind |-> "reorder", perm |-> perm]
           e == [FinalizedEntry(cur, mesh) EXCEPT !.chunks = Append(@, ch)]
<1>1. entries' = [entries EXCEPT ![curStep + 1] = e] /\ stamps' = {}
      /\ UNCHANGED <<curStep, maxUndo, client>>
  BY DEF Compact, SetCur
<1>2. ~cur.finalized
  BY DEF Compact, Idle
<1>3. "kind" \in DOMAIN ch
  OBVIOUS
<1>4. Open => Covers(e, {})
  BY <1>2, <1>3, FinalizedSound DEF IInv, Covers
<1> HIDE DEF e
<1>5. Open' => Open
  BY <1>1 DEF Open
<1>6. "mode" \in DOMAIN client'
  BY <1>1 DEF IInv
<1> QED BY <1>1, <1>4, <1>5, <1>6, OpenStep

LEMMA ReorderInv ==
  ASSUME IInv, NEW perm, ReorderForLocality(perm)
  PROVE  IInv'
<1> DEFINE s == SubSeq(entries, 1, curStep)
           e == [NewEntry(active) EXCEPT
                   !.chunks = <<[kind |-> "reorder", perm |-> perm]>>, !.finalized = TRUE]
           es == Append(s, e)
<1>1. Listed(s) /\ Len(s) = curStep /\ curStep \in Nat
  <2>1. 0 \in 0 .. Len(entries) /\ curStep \in 0 .. Len(entries)
    BY ListFacts DEF IInv
  <2>2. Listed(SubSeq(entries, 0 + 1, curStep)) /\ Len(SubSeq(entries, 0 + 1, curStep)) = curStep - 0
    BY <2>1, SubList DEF IInv
  <2> QED BY <2>1, <2>2
<1>2. /\ entries' = Trim(es, curStep + 1, maxUndo).entries
      /\ curStep' = Trim(es, curStep + 1, maxUndo).curStep
      /\ ~Open /\ UNCHANGED <<maxUndo, client>>
  BY DEF ReorderForLocality, Open
<1> HIDE DEF s, e
<1>3. Listed(es) /\ Len(es) = curStep + 1
  BY <1>1, AppendList
<1> HIDE DEF es
<1>4. curStep + 1 \in 0 .. Len(es) /\ maxUndo \in Int
  BY <1>1, <1>3 DEF IInv
<1>5. Listed(entries') /\ curStep' \in 0 .. Len(entries')
  BY <1>2, <1>3, <1>4, TrimFacts
<1>6. ~Open' /\ "mode" \in DOMAIN client'
  BY <1>2 DEF IInv, Open
<1> QED BY <1>2, <1>4, <1>5, <1>6 DEF IInv

LEMMA SetMaxUndoStepsInv ==
  ASSUME IInv, NEW n \in Limits, SetMaxUndoSteps(n)
  PROVE  IInv'
<1> DEFINE t == Trim(entries, curStep, n)
<1>1. n \in Int /\ maxUndo' = n
  BY MeshLogAssumption DEF SetMaxUndoSteps
<1>2. entries' = t.entries /\ curStep' = t.curStep /\ UNCHANGED <<stamps, client>>
  BY DEF SetMaxUndoSteps
<1>3. Listed(entries) /\ curStep \in 0 .. Len(entries) /\ Len(entries) \in Nat
  BY ListFacts DEF IInv
<1>4. /\ Listed(t.entries) /\ t.curStep \in 0 .. Len(t.entries)
      /\ Len(t.entries) - t.curStep = Len(entries) - curStep
      /\ curStep < Len(entries) => t.entries[t.curStep + 1] = entries[curStep + 1]
  BY <1>1, <1>3, TrimFacts
<1>5. Len(t.entries) \in Nat
  BY <1>4, ListFacts
<1> HIDE DEF t
<1>6. ASSUME Open' PROVE Len(entries') = curStep' + 1 /\ Covers(cur', stamps')
  <2>1. Open /\ Len(entries) = curStep + 1 /\ Covers(cur, stamps)
    BY <1>2, <1>6 DEF IInv, Open
  <2>2. Len(entries') = curStep' + 1
    BY <1>2, <1>3, <1>4, <1>5, <2>1
  <2>3. cur' = cur
    BY <1>2, <1>3, <1>4, <2>1 DEF cur
  <2> QED BY <1>2, <2>1, <2>2, <2>3
<1> QED BY <1>1, <1>2, <1>4, <1>6 DEF IInv

LEMMA FreeStepInv ==
  ASSUME IInv, FreeStep
  PROVE  IInv'
<1>1. Listed(entries) /\ curStep \in 1 .. Len(entries) /\ Len(entries) \in Nat
  BY ListFacts DEF IInv, FreeStep
<1>2. entries \in Seq(Range(entries)) /\ entries # <<>>
  BY <1>1, EmptySeq DEF Listed
<1>3. entries' = SubSeq(entries, 1 + 1, Len(entries))
  BY <1>2, TailIsSubSeq DEF FreeStep
<1>4. /\ Listed(entries') /\ Len(entries') = Len(entries) - 1
      /\ \A k \in 1 .. Len(entries) - 1 : entries'[k] = entries[1 + k]
  <2>1. 1 \in 0 .. Len(entries) /\ Len(entries) \in 1 .. Len(entries)
    BY <1>1
  <2> QED BY <1>1, <1>3, <2>1, SubList
<1>5. curStep' = curStep - 1 /\ UNCHANGED <<maxUndo, stamps, client>>
  BY DEF FreeStep
<1>6. ASSUME Open' PROVE Len(entries') = curStep' + 1 /\ Covers(cur', stamps')
  <2>1. Open /\ Len(entries) = curStep + 1 /\ Covers(cur, stamps)
    BY <1>5, <1>6 DEF IInv, Open
  <2>2. entries'[curStep] = entries[1 + curStep] /\ curStep - 1 + 1 = curStep /\ 1 + curStep = curStep + 1
    BY <1>1, <1>4, <2>1
  <2>3. cur' = cur
    BY <1>5, <2>2 DEF cur
  <2> QED BY <1>1, <1>4, <1>5, <2>1, <2>3
<1> QED BY <1>1, <1>4, <1>5, <1>6 DEF IInv

LEMMA TopoCreateInv ==
  ASSUME IInv, NEW i, NEW row, TopoCreate(i, row)
  PROVE  IInv'
<1> DEFINE e == GetTopoChunk(cur, mesh)
           w == [e EXCEPT !.chunks[e.topo].recs = OnCreate(@, i)]
<1>1. /\ entries' = [entries EXCEPT ![curStep + 1] = w]
      /\ stamps' = FreshStamps(cur) \cup {i} /\ UNCHANGED <<curStep, maxUndo>>
  BY DEF TopoCreate, SetCur
<1>2. Open /\ "mode" \in DOMAIN client'
  BY DEF TopoCreate, MayTouch, Dabbing, Open, IInv
<1>3. e.topo # 0 /\ Covers(e, FreshStamps(cur))
  BY <1>2, GetSound DEF IInv, FreshStamps
<1> HIDE DEF e
<1>4. Covers(w, FreshStamps(cur) \cup {i})
  BY <1>3, RecordSound
<1> HIDE DEF w
<1> QED BY <1>1, <1>2, <1>4, OpenStep

LEMMA TopoChangeInv ==
  ASSUME IInv, NEW i, NEW row, TopoChange(i, row)
  PROVE  IInv'
<1>1. Open /\ "mode" \in DOMAIN client' /\ UNCHANGED <<curStep, maxUndo>>
  BY DEF TopoChange, MayTouch, Dabbing, Open, IInv
<1>2. CASE i \in stamps
  <2>1. UNCHANGED <<entries, curStep, maxUndo, stamps>>
    BY <1>2 DEF TopoChange
  <2> QED BY <1>1, <2>1, LogKept
<1>3. CASE i \notin stamps
  <2> DEFINE e == GetTopoChunk(cur, mesh)
             w == [e EXCEPT !.chunks[e.topo].recs = OnChange(@, i, mesh)]
  <2>1. /\ entries' = [entries EXCEPT ![curStep + 1] = w]
        /\ stamps' = FreshStamps(cur) \cup {i}
    BY <1>3 DEF TopoChange, SetCur
  <2>2. e.topo # 0 /\ Covers(e, FreshStamps(cur))
    BY <1>1, GetSound DEF IInv, FreshStamps
  <2> HIDE DEF e
  <2>3. Covers(w, FreshStamps(cur) \cup {i})
    BY <2>2, RecordSound
  <2> HIDE DEF w
  <2> QED BY <1>1, <2>1, <2>3, OpenStep
<1> QED BY <1>2, <1>3

LEMMA TopoKillInv ==
  ASSUME IInv, NEW i, TopoKill(i)
  PROVE  IInv'
<1> DEFINE e == GetTopoChunk(cur, mesh)
           w == [e EXCEPT !.chunks[e.topo].recs = OnKill(@, i, mesh)]
<1>1. /\ entries' = [entries EXCEPT ![curStep + 1] = w]
      /\ stamps' = FreshStamps(cur) \ {i} /\ UNCHANGED <<curStep, maxUndo>>
  BY DEF TopoKill, SetCur
<1>2. Open /\ "mode" \in DOMAIN client'
  BY DEF TopoKill, MayTouch, Dabbing, Open, IInv
<1>3. e.topo # 0 /\ Covers(e, FreshStamps(cur))
  BY <1>2, GetSound DEF IInv, FreshStamps
<1> HIDE DEF e
<1>4. Covers(w, FreshStamps(cur) \ {i})
  BY <1>3, RecordSound
<1> HIDE DEF w
<1> QED BY <1>1, <1>2, <1>4, OpenStep

LEMMA SelectInv ==
  ASSUME IInv, NEW i, NEW v, Select(i, v)
  PROVE  IInv'
<1> DEFINE e == GetTopoChunk(cur, mesh)
           w == [e EXCEPT !.chunks[e.topo].recs = OnChange(@, i, mesh)]
<1>1. /\ entries' = [entries EXCEPT ![curStep + 1] = w]
      /\ stamps' = FreshStamps(cur) /\ UNCHANGED <<curStep, maxUndo, client>>
  BY DEF Select, SetCur
<1>2. Open /\ "mode" \in DOMAIN client'
  BY DEF Select, Open, IInv
<1>3. e.topo # 0 /\ Covers(e, FreshStamps(cur))
  BY <1>2, GetSound DEF IInv, FreshStamps
<1> HIDE DEF e
<1>4. Covers(w, FreshStamps(cur) \cup {i})
  BY <1>3, RecordSound
<1> HIDE DEF w
<1>5. Covers(w, FreshStamps(cur))
  BY <1>4, FewerCovered
<1> QED BY <1>1, <1>2, <1>5, OpenStep

LEMMA DeformInv ==
  ASSUME IInv, NEW i, NEW cols, NEW v, Deform(i, cols, v)
  PROVE  IInv'
<1> DEFINE e == WithColumns(cur, cols)
           w == IF NeedsData(mesh, i, cols) THEN CaptureRow(e, mesh, i) ELSE e
<1>1. /\ entries' = [entries EXCEPT ![curStep + 1] = w]
      /\ UNCHANGED <<curStep, maxUndo, stamps>>
  BY DEF Deform, SetCur
<1>2. Open /\ "mode" \in DOMAIN client'
  BY DEF Deform, Strokes, Dabbing, Open, IInv
<1>3. Covers(e, stamps) /\ StoreOf(e) # {}
  BY <1>2, ColumnsSound DEF IInv
<1> HIDE DEF e
<1>4. Covers(w, stamps)
  BY <1>3, CaptureSound
<1> HIDE DEF w
<1> QED BY <1>1, <1>2, <1>4, OpenStep

LEMMA CapturePreviewInv ==
  ASSUME IInv, NEW i, CapturePreview(i)
  PROVE  IInv'
<1> DEFINE e == WithColumns(cur, DataCols)
           w == CaptureRow(e, mesh, i)
<1>1. UNCHANGED <<curStep, maxUndo, stamps, client>>
  BY DEF CapturePreview
<1>2. "mode" \in DOMAIN client' /\ (Open' => Open)
  BY <1>1 DEF IInv, Open
<1>3. CASE NeedsData(mesh, i, AllFlags)
  <2>1. entries' = [entries EXCEPT ![curStep + 1] = w]
    BY <1>3 DEF CapturePreview, SetCur
  <2>2. Open => Covers(e, stamps) /\ StoreOf(e) # {}
    BY ColumnsSound DEF IInv
  <2> HIDE DEF e
  <2>3. Open => Covers(w, stamps)
    BY <2>2, CaptureSound
  <2> HIDE DEF w
  <2> QED BY <1>1, <1>2, <2>1, <2>3, OpenStep
<1>4. CASE ~NeedsData(mesh, i, AllFlags)
  <2>1. entries' = entries
    BY <1>4 DEF CapturePreview
  <2> QED BY <1>1, <1>2, <2>1, LogKept
<1> QED BY <1>3, <1>4

LEMMA SealInv ==
  ASSUME IInv, Seal
  PROVE  IInv'
<1> DEFINE w == PushTopoChunk(cur, mesh)
<1>1. /\ entries' = [entries EXCEPT ![curStep + 1] = w]
      /\ stamps' = {} /\ UNCHANGED <<curStep, maxUndo>>
  BY DEF Seal, SetCur
<1>2. Open /\ "mode" \in DOMAIN client'
  BY DEF Seal, Open, IInv
<1>3. Covers(w, {})
  BY <1>2, PushSound DEF IInv, Covers
<1> HIDE DEF w
<1> QED BY <1>1, <1>2, <1>3, OpenStep

LEMMA RollbackInv ==
  ASSUME IInv, RollbackPreviewDab
  PROVE  IInv'
<1> DEFINE K == DOMAIN cur.chunks \ PreviewChunks(cur)
           w == [cur EXCEPT !.topo = 0, !.chunks = Kept(@, K)]
<1>1. /\ entries' = [entries EXCEPT ![curStep + 1] = w]
      /\ stamps' = {} /\ UNCHANGED <<curStep, maxUndo, client>>
  BY DEF RollbackPreviewDab, SetCur
<1>2. "mode" \in DOMAIN client' /\ (Open' => Open)
  BY <1>1 DEF IInv, Open
<1>3. Open => SoundEntry(cur)
  BY DEF IInv, Covers
<1>4. K \in SUBSET DOMAIN cur.chunks
  OBVIOUS
<1> HIDE DEF K
<1>5. Open => Covers(w, {})
  BY <1>3, <1>4, KeptSound
<1> HIDE DEF w
<1> QED BY <1>1, <1>2, <1>5, OpenStep

\* Undo and redo replace a step while none is open.
LEMMA ReplayInv ==
  ASSUME IInv, Undo \/ Redo
  PROVE  IInv'
<1>1. ~Open /\ UNCHANGED <<maxUndo, stamps, client>>
  BY DEF Undo, Redo, Open
<1>2. Listed(entries) /\ Len(entries) \in Nat /\ DOMAIN entries = 1 .. Len(entries)
  BY ListFacts DEF IInv
<1>3. \E k, x : entries' = [entries EXCEPT ![k] = x]
  <2>1. CASE Undo
    <3>1. PICK r : entries' = [entries EXCEPT ![curStep].chunks = r.chunks, ![curStep].snap = active]
      BY <2>1 DEF Undo
    <3> DEFINE x == [[entries[curStep] EXCEPT !.chunks = r.chunks] EXCEPT !.snap = active]
    <3>2. curStep \in DOMAIN entries
      BY <1>2, <2>1 DEF Undo, IInv
    <3>3. entries' = [entries EXCEPT ![curStep] = x]
      BY <3>1, <3>2
    <3> QED BY <3>3
  <2>2. CASE Redo
    <3>1. PICK r : entries' = [entries EXCEPT ![curStep + 1].chunks = r.chunks,
                                              ![curStep + 1].snap = active]
      BY <2>2 DEF Redo
    <3> DEFINE x == [[entries[curStep + 1] EXCEPT !.chunks = r.chunks] EXCEPT !.snap = active]
    <3>2. curStep + 1 \in DOMAIN entries
      BY <1>2, <2>2 DEF Redo, IInv
    <3>3. entries' = [entries EXCEPT ![curStep + 1] = x]
      BY <3>1, <3>2
    <3> QED BY <3>3
  <2> QED BY <2>1, <2>2
<1>4. Listed(entries') /\ Len(entries') = Len(entries)
  <2>1. PICK k, x : entries' = [entries EXCEPT ![k] = x]
    BY <1>3
  <2>2. Listed([entries EXCEPT ![k] = x]) /\ Len([entries EXCEPT ![k] = x]) = Len(entries)
    BY <1>2, ExceptList
  <2> QED BY <2>1, <2>2
<1>5. curStep' \in 0 .. Len(entries')
  BY <1>2, <1>4 DEF Undo, Redo, IInv
<1> QED BY <1>1, <1>4, <1>5 DEF IInv, Open

LEMMA NextInv == ASSUME IInv, [Next]_vars PROVE IInv'
<1>1. CASE \E mode \in Modes : BeginStep(mode)
  BY <1>1, BeginStepInv
<1>2. CASE EndStep
  BY <1>2, EndStepInv
<1>3. CASE \E p \in Perms : Compact(p) \/ ReorderForLocality(p)
  BY <1>3, CompactInv, ReorderInv
<1>4. CASE \E n \in Limits : SetMaxUndoSteps(n)
  BY <1>4, SetMaxUndoStepsInv
<1>5. CASE FreeStep
  BY <1>5, FreeStepInv
<1>6. CASE \E i \in Elems, row \in Rows : TopoCreate(i, row) \/ TopoChange(i, row)
  BY <1>6, TopoCreateInv, TopoChangeInv
<1>7. CASE \E i \in Elems : TopoKill(i)
  BY <1>7, TopoKillInv
<1>8. CASE \E i \in Elems, v \in Vals : Drag(i, v)
  BY <1>8, LogKept DEF Drag, log, IInv, Open
<1>9. CASE \E i \in Elems, v \in Vals : Select(i, v)
  BY <1>9, SelectInv
<1>10. CASE \E i \in Elems, K \in Kernels, v \in Vals : Deform(i, K, v)
  BY <1>10, DeformInv
<1>11. CASE \E i \in Elems : CapturePreview(i)
  BY <1>11, CapturePreviewInv
<1>12. CASE \E i \in Elems \cup {NoElem} : SetActiveElem(i)
  BY <1>12, LogKept DEF SetActiveElem, IInv, Open
<1>13. CASE Seal
  BY <1>13, SealInv
<1>14. CASE BeginPreviewDab
  BY <1>14, LogKept DEF BeginPreviewDab, IInv, Open
<1>15. CASE RollbackPreviewDab
  BY <1>15, RollbackInv
<1>16. CASE CommitPreviewDab
  BY <1>16, LogKept DEF CommitPreviewDab, IInv, Open
<1>17. CASE Undo \/ Redo
  BY <1>17, ReplayInv
<1>18. CASE UNCHANGED vars
  BY <1>18, LogKept DEF vars, IInv, Open
<1>19. CASE \E i \in Elems :
              \/ \E row \in Rows : TopoCreate(i, row) \/ TopoChange(i, row)
              \/ TopoKill(i)
              \/ \E v \in Vals : Drag(i, v) \/ Select(i, v)
              \/ \E K \in Kernels, v \in Vals : Deform(i, K, v)
              \/ CapturePreview(i)
  BY <1>6, <1>7, <1>8, <1>9, <1>10, <1>11, <1>19
<1> QED BY <1>1, <1>2, <1>3, <1>4, <1>5, <1>12, <1>13, <1>14, <1>15, <1>16,
           <1>17, <1>18, <1>19 DEF Next

\* The callbacks, seals and rollbacks keep stamps and records together in any
\* step: the early return on a stamp (meshlog_topo.h) never loses a capture.
THEOREM StampsAlwaysSound == Spec => []StampsSound
<1>1. Init => IInv
  BY InitInv
<1>2. IInv /\ [Next]_vars => IInv'
  BY NextInv
<1>3. IInv => StampsSound
  BY InvImplies
<1> QED BY <1>1, <1>2, <1>3, PTL DEF Spec

-----------------------------------------------------------------------------
(* Loops.                                                                  *)

\* A set of numbers that holds 0 and is closed under the next holds them all.
LEMMA NextIn ==
  ASSUME NEW n \in Nat, NEW P, 0 \in P, \A k \in 1 .. n : k - 1 \in P => k \in P
  PROVE  \A k \in 0 .. n : k \in P
<1> DEFINE T == {k \in 0 .. n : k \notin P}
<1>1. SUFFICES ASSUME T # {} PROVE FALSE
  OBVIOUS
<1>2. T \subseteq Nat
  OBVIOUS
<1>3. PICK k \in T : \A j \in T : ~(<<j, k>> \in OpToRel(<, Nat))
  BY <1>1, <1>2, NatLessThanWellFounded, WFMin
<1>4. \A j \in T : ~(j < k)
  BY <1>2, <1>3 DEF OpToRel
<1>5. k \in 0 .. n /\ k \notin P
  OBVIOUS
<1>6. k \in 1 .. n /\ k - 1 \in 0 .. n /\ k - 1 < k
  BY <1>5
<1>7. k - 1 \in P
  BY <1>4, <1>6
<1> QED BY <1>5, <1>6, <1>7

\* A loop of n rounds over S from base, round k as the function g[k], and a run.
Rounds(n, S, g) == g \in [1 .. n -> [S -> S]]
IsRun(f, n, S, base, g) ==
  f \in [0 .. n -> S] /\ f[0] = base /\ \A k \in 1 .. n : f[k] = g[k][f[k - 1]]

\* There is one.
LEMMA RunExists ==
  ASSUME NEW n \in Nat, NEW S, NEW base \in S, NEW g, Rounds(n, S, g)
  PROVE  \E f : IsRun(f, n, S, base, g)
<1>0. g \in [1 .. n -> [S -> S]]
  BY DEF Rounds
<1> DEFINE Run(f, m) == f \in [0 .. m -> S] /\ f[0] = base
                        /\ \A k \in 1 .. m : f[k] = g[k][f[k - 1]]
           P == {m \in 0 .. n : \E f : Run(f, m)}
<1>1. 0 \in P
  <2>1. Run([k \in 0 .. 0 |-> base], 0)
    OBVIOUS
  <2> HIDE DEF Run
  <2> QED BY <2>1
<1>2. ASSUME NEW m \in 1 .. n, m - 1 \in P
      PROVE  m \in P
  <2>1. PICK f : Run(f, m - 1)
    BY <1>2
  <2> DEFINE h == [k \in 0 .. m |-> IF k = m THEN g[m][f[m - 1]] ELSE f[k]]
  <2>2. f[m - 1] \in S /\ g[m][f[m - 1]] \in S
    BY <1>0, <2>1
  <2>3. h \in [0 .. m -> S]
    <3>1. \A k \in 0 .. m : k # m => k \in 0 .. m - 1
      OBVIOUS
    <3> QED BY <2>1, <2>2, <3>1
  <2>4. h[0] = base
    BY <2>1
  <2>5. ASSUME NEW k \in 1 .. m PROVE h[k] = g[k][h[k - 1]]
    <3>1. k - 1 \in 0 .. m - 1 /\ k - 1 # m /\ k - 1 \in 0 .. m /\ k \in 0 .. m
      OBVIOUS
    <3>2. h[k - 1] = f[k - 1]
      BY <3>1
    <3>3. CASE k = m
      BY <3>2, <3>3
    <3>4. CASE k # m
      <4>1. k \in 1 .. m - 1 /\ h[k] = f[k]
        BY <3>4
      <4> QED BY <2>1, <3>2, <4>1
    <3> QED BY <3>3, <3>4
  <2> HIDE DEF h
  <2>6. Run(h, m)
    BY <2>3, <2>4, <2>5
  <2> QED BY <2>6
<1>3. n \in P
  <2> HIDE DEF P
  <2>1. \A k \in 0 .. n : k \in P
    BY <1>1, <1>2, NextIn
  <2> QED BY <2>1
<1> QED BY <1>3 DEF IsRun

\* And where it ends is one of S.
LEMMA RunEnds ==
  ASSUME NEW n \in Nat, NEW S, NEW base \in S, NEW g, Rounds(n, S, g),
         NEW f, f[0] = base, \A k \in 1 .. n : f[k - 1] \in S => f[k] = g[k][f[k - 1]]
  PROVE  f[n] \in S
<1> DEFINE P == {k \in 0 .. n : f[k] \in S}
<1>1. 0 \in P
  OBVIOUS
<1>2. \A k \in 1 .. n : k - 1 \in P => k \in P
  BY DEF Rounds
<1> HIDE DEF P
<1>3. \A k \in 0 .. n : k \in P
  BY <1>1, <1>2, NextIn
<1>4. n \in P
  BY <1>3
<1> QED BY <1>4 DEF P

\* Undoing the records of a chunk stays in a set that undoing one stays in.
LEMMA UndoRecordsIn ==
  ASSUME NEW n \in Nat, NEW S, NEW a \in S,
         \A b \in S, k \in 1 .. n : UndoRecord(b, k) \in S
  PROVE  Backward(UndoRecord, a, n) \in S
<1> DEFINE Round(b, k) == UndoRecord(b, n + 1 - k)
           g == [k \in 1 .. n |-> [b \in S |-> Round(b, k)]]
           F(acc) == [k \in 0 .. n |-> IF k = 0 THEN a
                        ELSE CHOOSE r \in {Round(x, k) : x \in {acc[k - 1]}} : TRUE]
           run == CHOOSE acc : acc = F(acc)
<1>1. Backward(UndoRecord, a, n) = run[n]
  BY DEF Backward, Forward, Bind
<1>2. \A b \in S, k \in 1 .. n : Round(b, k) \in S
  <2>1. \A k \in 1 .. n : n + 1 - k \in 1 .. n
    OBVIOUS
  <2> QED BY <2>1
<1> HIDE DEF Round
<1>3. Rounds(n, S, g)
  BY <1>2 DEF Rounds
<1>4. \A k \in 1 .. n, b \in S : g[k][b] = Round(b, k)
  OBVIOUS
<1>5. \A acc, k : (CHOOSE r \in {Round(x, k) : x \in {acc[k - 1]}} : TRUE) = Round(acc[k - 1], k)
  OBVIOUS
<1> HIDE DEF g
<1>6. \E acc : acc = F(acc)
  <2>1. PICK f : IsRun(f, n, S, a, g)
    BY <1>3, RunExists
  <2>2. f \in [0 .. n -> S] /\ f[0] = a /\ \A k \in 1 .. n : f[k] = Round(f[k - 1], k)
    BY <1>4, <2>1 DEF IsRun
  <2>3. f = F(f)
    BY <1>5, <2>2
  <2> QED BY <2>3
<1>7. run = F(run)
  BY <1>6
<1> HIDE DEF run
<1>8. run[0] = a /\ \A k \in 1 .. n : run[k] = Round(run[k - 1], k)
  BY <1>5, <1>7
<1>9. \A k \in 1 .. n : run[k - 1] \in S => run[k] = g[k][run[k - 1]]
  BY <1>4, <1>8
<1> QED BY <1>1, <1>3, <1>8, <1>9, RunEnds

\* The same of redoing them.
LEMMA RedoRecordsIn ==
  ASSUME NEW n \in Nat, NEW S, NEW a \in S,
         \A b \in S, k \in 1 .. n : RedoRecord(b, k) \in S
  PROVE  Forward(RedoRecord, a, n) \in S
<1> DEFINE Round(b, k) == RedoRecord(b, k)
           g == [k \in 1 .. n |-> [b \in S |-> Round(b, k)]]
           F(acc) == [k \in 0 .. n |-> IF k = 0 THEN a
                        ELSE CHOOSE r \in {Round(x, k) : x \in {acc[k - 1]}} : TRUE]
           run == CHOOSE acc : acc = F(acc)
<1>1. Forward(RedoRecord, a, n) = run[n]
  BY DEF Forward, Bind
<1>2. \A b \in S, k \in 1 .. n : Round(b, k) \in S
  <2>1. \A k \in 1 .. n : n + 1 - k \in 1 .. n
    OBVIOUS
  <2> QED BY <2>1
<1> HIDE DEF Round
<1>3. Rounds(n, S, g)
  BY <1>2 DEF Rounds
<1>4. \A k \in 1 .. n, b \in S : g[k][b] = Round(b, k)
  OBVIOUS
<1>5. \A acc, k : (CHOOSE r \in {Round(x, k) : x \in {acc[k - 1]}} : TRUE) = Round(acc[k - 1], k)
  OBVIOUS
<1> HIDE DEF g
<1>6. \E acc : acc = F(acc)
  <2>1. PICK f : IsRun(f, n, S, a, g)
    BY <1>3, RunExists
  <2>2. f \in [0 .. n -> S] /\ f[0] = a /\ \A k \in 1 .. n : f[k] = Round(f[k - 1], k)
    BY <1>4, <2>1 DEF IsRun
  <2>3. f = F(f)
    BY <1>5, <2>2
  <2> QED BY <2>3
<1>7. run = F(run)
  BY <1>6
<1> HIDE DEF run
<1>8. run[0] = a /\ \A k \in 1 .. n : run[k] = Round(run[k - 1], k)
  BY <1>5, <1>7
<1>9. \A k \in 1 .. n : run[k - 1] \in S => run[k] = g[k][run[k - 1]]
  BY <1>4, <1>8
<1> QED BY <1>1, <1>3, <1>8, <1>9, RunEnds

\* Of the rows of an element store, newest first.
LEMMA RowsBackIn ==
  ASSUME NEW n \in Nat, NEW S, NEW a \in S,
         \A b \in S, k \in 1 .. n : SwapRow(b, k) \in S
  PROVE  Backward(SwapRow, a, n) \in S
<1> DEFINE Round(b, k) == SwapRow(b, n + 1 - k)
           g == [k \in 1 .. n |-> [b \in S |-> Round(b, k)]]
           F(acc) == [k \in 0 .. n |-> IF k = 0 THEN a
                        ELSE CHOOSE r \in {Round(x, k) : x \in {acc[k - 1]}} : TRUE]
           run == CHOOSE acc : acc = F(acc)
<1>1. Backward(SwapRow, a, n) = run[n]
  BY DEF Backward, Forward, Bind
<1>2. \A b \in S, k \in 1 .. n : Round(b, k) \in S
  <2>1. \A k \in 1 .. n : n + 1 - k \in 1 .. n
    OBVIOUS
  <2> QED BY <2>1
<1> HIDE DEF Round
<1>3. Rounds(n, S, g)
  BY <1>2 DEF Rounds
<1>4. \A k \in 1 .. n, b \in S : g[k][b] = Round(b, k)
  OBVIOUS
<1>5. \A acc, k : (CHOOSE r \in {Round(x, k) : x \in {acc[k - 1]}} : TRUE) = Round(acc[k - 1], k)
  OBVIOUS
<1> HIDE DEF g
<1>6. \E acc : acc = F(acc)
  <2>1. PICK f : IsRun(f, n, S, a, g)
    BY <1>3, RunExists
  <2>2. f \in [0 .. n -> S] /\ f[0] = a /\ \A k \in 1 .. n : f[k] = Round(f[k - 1], k)
    BY <1>4, <2>1 DEF IsRun
  <2>3. f = F(f)
    BY <1>5, <2>2
  <2> QED BY <2>3
<1>7. run = F(run)
  BY <1>6
<1> HIDE DEF run
<1>8. run[0] = a /\ \A k \in 1 .. n : run[k] = Round(run[k - 1], k)
  BY <1>5, <1>7
<1>9. \A k \in 1 .. n : run[k - 1] \in S => run[k] = g[k][run[k - 1]]
  BY <1>4, <1>8
<1> QED BY <1>1, <1>3, <1>8, <1>9, RunEnds

\* And oldest first.
LEMMA RowsAheadIn ==
  ASSUME NEW n \in Nat, NEW S, NEW a \in S,
         \A b \in S, k \in 1 .. n : SwapRow(b, k) \in S
  PROVE  Forward(SwapRow, a, n) \in S
<1> DEFINE Round(b, k) == SwapRow(b, k)
           g == [k \in 1 .. n |-> [b \in S |-> Round(b, k)]]
           F(acc) == [k \in 0 .. n |-> IF k = 0 THEN a
                        ELSE CHOOSE r \in {Round(x, k) : x \in {acc[k - 1]}} : TRUE]
           run == CHOOSE acc : acc = F(acc)
<1>1. Forward(SwapRow, a, n) = run[n]
  BY DEF Forward, Bind
<1>2. \A b \in S, k \in 1 .. n : Round(b, k) \in S
  <2>1. \A k \in 1 .. n : n + 1 - k \in 1 .. n
    OBVIOUS
  <2> QED BY <2>1
<1> HIDE DEF Round
<1>3. Rounds(n, S, g)
  BY <1>2 DEF Rounds
<1>4. \A k \in 1 .. n, b \in S : g[k][b] = Round(b, k)
  OBVIOUS
<1>5. \A acc, k : (CHOOSE r \in {Round(x, k) : x \in {acc[k - 1]}} : TRUE) = Round(acc[k - 1], k)
  OBVIOUS
<1> HIDE DEF g
<1>6. \E acc : acc = F(acc)
  <2>1. PICK f : IsRun(f, n, S, a, g)
    BY <1>3, RunExists
  <2>2. f \in [0 .. n -> S] /\ f[0] = a /\ \A k \in 1 .. n : f[k] = Round(f[k - 1], k)
    BY <1>4, <2>1 DEF IsRun
  <2>3. f = F(f)
    BY <1>5, <2>2
  <2> QED BY <2>3
<1>7. run = F(run)
  BY <1>6
<1> HIDE DEF run
<1>8. run[0] = a /\ \A k \in 1 .. n : run[k] = Round(run[k - 1], k)
  BY <1>5, <1>7
<1>9. \A k \in 1 .. n : run[k - 1] \in S => run[k] = g[k][run[k - 1]]
  BY <1>4, <1>8
<1> QED BY <1>1, <1>3, <1>8, <1>9, RunEnds

-----------------------------------------------------------------------------
(* Types of what is replayed.  G is what the gates may hold.               *)

Mesh(G) == [live : SUBSET Elems, data : [Elems -> Rows], gate : [Elems -> G]]
SavedRow == [idx : Elems, vals : Rows]
TopoChunk == [kind : {"topo"}, recs : Seq(RecordType)]
StoreChunk ==
  [kind : {"elems"}, cols : SUBSET DataCols, rows : Seq(SavedRow), swapped : BOOLEAN]
ReorderChunk == [kind : {"reorder"}, perm : Perms]
Chunk == TopoChunk \cup StoreChunk \cup ReorderChunk

\* What undoing leaves of the gates: an element that lives after has its gate
\* reset, or it lived before with the gate it has.
GateKept(m, p) ==
  \A i \in p.live : p.gate[i] = NoStamp \/ (i \in m.live /\ p.gate[i] = m.gate[i])

LEMMA GateKeptTwice ==
  ASSUME NEW m, NEW p, NEW q, GateKept(m, p), GateKept(p, q)
  PROVE  GateKept(m, q)
BY DEF GateKept

LEMMA MixTyped ==
  ASSUME NEW cols, NEW a \in Rows, NEW b \in Rows
  PROVE  Mix(cols, a, b) \in Rows
BY DEF Mix, Rows

LEMMA DefaultTyped == DefaultRow \in Rows
BY MeshLogAssumption DEF DefaultRow, Rows

\* The mesh operations of LogReplay.
LEMMA AllocTyped ==
  ASSUME NEW G, NoStamp \in G, NEW m \in Mesh(G), NEW i \in Elems
  PROVE  /\ Alloc(m, i) \in Mesh(G)
         /\ Alloc(m, i).live = m.live \cup {i} /\ Alloc(m, i).gate[i] = NoStamp
         /\ \A j \in Elems : j # i => Alloc(m, i).gate[j] = m.gate[j]
                                      /\ Alloc(m, i).data[j] = m.data[j]
BY DefaultTyped DEF Alloc, Mesh

LEMMA ReleaseTyped ==
  ASSUME NEW G, NEW m \in Mesh(G), NEW i \in Elems
  PROVE  /\ Release(m, i) \in Mesh(G) /\ Release(m, i).live = m.live \ {i}
         /\ Release(m, i).gate = m.gate /\ Release(m, i).data = m.data
BY DEF Release, Mesh

LEMMA WriteToTyped ==
  ASSUME NEW G, NoStamp \in G, NEW m \in Mesh(G), NEW i \in Elems, NEW cols, NEW row \in Rows
  PROVE  /\ WriteTo(m, i, cols, row) \in Mesh(G) /\ WriteTo(m, i, cols, row).live = m.live
         /\ WriteTo(m, i, cols, row).gate[i] = NoStamp
         /\ \A j \in Elems : j # i => WriteTo(m, i, cols, row).gate[j] = m.gate[j]
<1> DEFINE x == Mix(cols, m.data[i], row)
<1>1. x \in Rows
  BY MixTyped DEF Mesh
<1>2. WriteTo(m, i, cols, row) = [m EXCEPT !.data[i] = x, !.gate[i] = NoStamp]
  BY DEF WriteTo
<1> HIDE DEF x
<1> DEFINE d == [m.data EXCEPT ![i] = x]
           g == [m.gate EXCEPT ![i] = NoStamp]
<1>3. d \in [Elems -> Rows] /\ g \in [Elems -> G]
  BY <1>1 DEF Mesh
<1>4. g[i] = NoStamp /\ \A j \in Elems : j # i => g[j] = m.gate[j]
  BY DEF Mesh
<1>5. WriteTo(m, i, cols, row) = [live |-> m.live, data |-> d, gate |-> g]
  BY <1>2 DEF Mesh
<1> HIDE DEF d, g
<1> QED BY <1>3, <1>4, <1>5 DEF Mesh

LEMMA RestoredTyped ==
  ASSUME NEW G, NoStamp \in G, NEW m \in Mesh(G), NEW e \in RecordType
  PROVE  Restored(m, e) \in Mesh(G) /\ GateKept(m, Restored(m, e))
<1> DEFINE a == Alloc(m, e.idx)
           w == WriteTo(a, e.idx, Cols, e.body)
<1>1. e.idx \in Elems /\ e.body \in Rows
  BY DEF RecordType
<1>2. /\ a \in Mesh(G) /\ a.live = m.live \cup {e.idx}
      /\ \A j \in Elems : j # e.idx => a.gate[j] = m.gate[j]
  BY <1>1, AllocTyped
<1> HIDE DEF a
<1>3. /\ w \in Mesh(G) /\ w.live = a.live /\ w.gate[e.idx] = NoStamp
      /\ \A j \in Elems : j # e.idx => w.gate[j] = a.gate[j]
  BY <1>1, <1>2, WriteToTyped
<1> HIDE DEF w
<1>4. GateKept(m, w)
  <2> SUFFICES ASSUME NEW i \in w.live, w.gate[i] # NoStamp
               PROVE  i \in m.live /\ w.gate[i] = m.gate[i]
    BY DEF GateKept
  <2>1. i \in Elems /\ i # e.idx /\ i \in m.live
    BY <1>2, <1>3 DEF Mesh
  <2> QED BY <1>2, <1>3, <2>1
<1>5. Restored(m, e) = w
  BY DEF Restored, w, a
<1> QED BY <1>3, <1>4, <1>5

-----------------------------------------------------------------------------
(* Topology chunks.                                                        *)

Replay(G, n) ==
  [mesh : Mesh(G), chunk : {ch \in TopoChunk : Len(ch.recs) = n}]

LEMMA SwapBodyTyped ==
  ASSUME NEW G, NEW n \in Nat, NEW a \in Replay(G, n), NEW k \in 1 .. n
  PROVE  /\ SwapBody(a, k) \in Replay(G, n)
         /\ GateKept(a.mesh, SwapBody(a, k).mesh)
<1> DEFINE s == a.chunk.recs
           r == s[k]
           i == r.idx
           t == [s EXCEPT ![k] = [r EXCEPT !.body = a.mesh.data[i]]]
           ch == [a.chunk EXCEPT !.recs = t]
           m == [a.mesh EXCEPT !.data = [@ EXCEPT ![i] = r.body]]
           new == [r EXCEPT !.body = a.mesh.data[i]]
<1>1. a.mesh \in Mesh(G) /\ a.chunk \in TopoChunk /\ Len(s) = n
  BY DEF Replay
<1>2. s \in Seq(RecordType)
  BY <1>1 DEF TopoChunk
<1>3. r \in RecordType
  BY <1>1, <1>2
<1>4. i \in Elems /\ r.body \in Rows
  BY <1>3 DEF RecordType
<1>5. a.mesh.data[i] \in Rows
  BY <1>1, <1>4 DEF Mesh
<1>6. new \in RecordType
  BY <1>3, <1>5 DEF RecordType
<1>7. t \in Seq(RecordType) /\ Len(t) = n
  <2>1. t = [s EXCEPT ![k] = new]
    OBVIOUS
  <2> HIDE DEF s, new, t
  <2> QED BY <1>1, <1>2, <1>6, <2>1
<1>8. SwapBody(a, k) = [mesh |-> m, chunk |-> ch]
  BY DEF SwapBody
<1> HIDE DEF t
<1>9. ch \in TopoChunk /\ Len(ch.recs) = n
  BY <1>1, <1>7 DEF TopoChunk
<1>10. m \in Mesh(G) /\ m.live = a.mesh.live /\ m.gate = a.mesh.gate
  BY <1>1, <1>4 DEF Mesh
<1> HIDE DEF m, ch
<1>11. [mesh |-> m, chunk |-> ch] \in Replay(G, n)
  BY <1>9, <1>10 DEF Replay
<1>12. GateKept(a.mesh, m)
  BY <1>10 DEF GateKept
<1> QED BY <1>8, <1>11, <1>12

LEMMA RecordTyped ==
  ASSUME NEW G, NoStamp \in G, NEW n \in Nat, NEW a \in Replay(G, n), NEW k \in 1 .. n
  PROVE  /\ UndoRecord(a, k) \in Replay(G, n) /\ GateKept(a.mesh, UndoRecord(a, k).mesh)
         /\ RedoRecord(a, k) \in Replay(G, n) /\ GateKept(a.mesh, RedoRecord(a, k).mesh)
<1> DEFINE e == a.chunk.recs[k]
<1>1. a.mesh \in Mesh(G) /\ a.chunk \in {ch \in TopoChunk : Len(ch.recs) = n}
      /\ a = [mesh |-> a.mesh, chunk |-> a.chunk]
  BY DEF Replay
<1>2. e \in RecordType
  BY <1>1 DEF TopoChunk
<1>3. e.idx \in Elems /\ e.what \in {"created", "changed", "killed"}
  BY <1>2 DEF RecordType
<1>4. ASSUME NEW m \in Mesh(G) PROVE [a EXCEPT !.mesh = m] \in Replay(G, n)
  BY <1>1 DEF Replay
<1>5. ASSUME NEW m PROVE [a EXCEPT !.mesh = m].mesh = m
  BY <1>1
<1>6. Release(a.mesh, e.idx) \in Mesh(G) /\ GateKept(a.mesh, Release(a.mesh, e.idx))
  BY <1>1, <1>3, ReleaseTyped DEF GateKept
<1>7. Restored(a.mesh, e) \in Mesh(G) /\ GateKept(a.mesh, Restored(a.mesh, e))
  BY <1>1, <1>2, RestoredTyped
<1>8. SwapBody(a, k) \in Replay(G, n) /\ GateKept(a.mesh, SwapBody(a, k).mesh)
  BY SwapBodyTyped
<1>9. CASE e.what = "created"
  <2>1. UndoRecord(a, k) = [a EXCEPT !.mesh = Release(a.mesh, e.idx)]
    BY <1>9 DEF UndoRecord
  <2>2. RedoRecord(a, k) = [a EXCEPT !.mesh = Restored(a.mesh, e)]
    BY <1>9 DEF RedoRecord
  <2> HIDE DEF e
  <2> QED BY <1>4, <1>5, <1>6, <1>7, <2>1, <2>2
<1>10. CASE e.what = "killed"
  <2>1. UndoRecord(a, k) = [a EXCEPT !.mesh = Restored(a.mesh, e)]
    BY <1>10 DEF UndoRecord
  <2>2. RedoRecord(a, k) = [a EXCEPT !.mesh = Release(a.mesh, e.idx)]
    BY <1>10 DEF RedoRecord
  <2> HIDE DEF e
  <2> QED BY <1>4, <1>5, <1>6, <1>7, <2>1, <2>2
<1>11. CASE e.what = "changed"
  <2>1. UndoRecord(a, k) = SwapBody(a, k) /\ RedoRecord(a, k) = SwapBody(a, k)
    BY <1>11 DEF UndoRecord, RedoRecord
  <2> QED BY <1>8, <2>1
<1> QED BY <1>3, <1>9, <1>10, <1>11

LEMMA TopoReplayTyped ==
  ASSUME NEW G, NoStamp \in G, NEW m \in Mesh(G), NEW ch \in TopoChunk
  PROVE  LET a == [mesh |-> m, chunk |-> ch]
             n == Len(ch.recs)
         IN  /\ Backward(UndoRecord, a, n) \in Replay(G, n)
             /\ GateKept(m, Backward(UndoRecord, a, n).mesh)
             /\ Forward(RedoRecord, a, n) \in Replay(G, n)
             /\ GateKept(m, Forward(RedoRecord, a, n).mesh)
<1> DEFINE a == [mesh |-> m, chunk |-> ch]
           n == Len(ch.recs)
           S == {b \in Replay(G, n) : GateKept(m, b.mesh)}
<1>1. n \in Nat
  BY DEF TopoChunk
<1>2. a \in Replay(G, n)
  BY DEF Replay
<1>3. a \in S
  BY <1>2 DEF GateKept
<1> HIDE DEF a, n
<1>4. \A b \in S, k \in 1 .. n : UndoRecord(b, k) \in S /\ RedoRecord(b, k) \in S
  <2> SUFFICES ASSUME NEW b \in S, NEW k \in 1 .. n
               PROVE  UndoRecord(b, k) \in S /\ RedoRecord(b, k) \in S
    OBVIOUS
  <2>1. b \in Replay(G, n) /\ GateKept(m, b.mesh)
    OBVIOUS
  <2>2. /\ UndoRecord(b, k) \in Replay(G, n) /\ GateKept(b.mesh, UndoRecord(b, k).mesh)
        /\ RedoRecord(b, k) \in Replay(G, n) /\ GateKept(b.mesh, RedoRecord(b, k).mesh)
    BY <1>1, <2>1, RecordTyped
  <2>3. GateKept(m, UndoRecord(b, k).mesh) /\ GateKept(m, RedoRecord(b, k).mesh)
    BY <2>1, <2>2, GateKeptTwice
  <2> QED BY <2>2, <2>3
<1> HIDE DEF S
<1>5. Backward(UndoRecord, a, n) \in S
  BY <1>1, <1>3, <1>4, UndoRecordsIn
<1>6. Forward(RedoRecord, a, n) \in S
  BY <1>1, <1>3, <1>4, RedoRecordsIn
<1> QED BY <1>5, <1>6 DEF S, a, n

-----------------------------------------------------------------------------
(* Element stores.                                                         *)

RowsReplay(G, n) ==
  [mesh : Mesh(G), chunk : {ch \in StoreChunk : Len(ch.rows) = n}]

LEMMA SwapRowTyped ==
  ASSUME NEW G, NEW n \in Nat, NEW a \in RowsReplay(G, n), NEW k \in 1 .. n
  PROVE  SwapRow(a, k) \in RowsReplay(G, n)
<1> DEFINE s == a.chunk.rows
           r == s[k]
           i == r.idx
           x == Mix(a.chunk.cols, a.mesh.data[i], r.vals)
           y == Mix(a.chunk.cols, r.vals, a.mesh.data[i])
           new == [r EXCEPT !.vals = y]
           t == [s EXCEPT ![k] = new]
           ch == [a.chunk EXCEPT !.rows = t]
           m == [a.mesh EXCEPT !.data = [@ EXCEPT ![i] = x]]
<1>1. a.mesh \in Mesh(G) /\ a.chunk \in StoreChunk /\ Len(s) = n
  BY DEF RowsReplay
<1>2. s \in Seq(SavedRow)
  BY <1>1 DEF StoreChunk
<1>3. r \in SavedRow
  BY <1>1, <1>2
<1>4. i \in Elems /\ r.vals \in Rows
  BY <1>3 DEF SavedRow
<1>5. a.mesh.data[i] \in Rows
  BY <1>1, <1>4 DEF Mesh
<1>6. SwapRow(a, k) = [mesh |-> m, chunk |-> ch]
  BY DEF SwapRow
<1>7. x \in Rows /\ y \in Rows
  BY <1>4, <1>5, MixTyped
<1> HIDE DEF x, y
<1>8. new \in SavedRow
  BY <1>3, <1>7 DEF SavedRow
<1> HIDE DEF new
<1>9. t \in Seq(SavedRow) /\ Len(t) = n
  <2> HIDE DEF s
  <2> QED BY <1>1, <1>2, <1>8
<1> HIDE DEF t
<1>10. ch \in StoreChunk /\ Len(ch.rows) = n
  BY <1>1, <1>9 DEF StoreChunk
<1>11. m \in Mesh(G)
  BY <1>1, <1>4, <1>7 DEF Mesh
<1> HIDE DEF m, ch
<1>12. [mesh |-> m, chunk |-> ch] \in RowsReplay(G, n)
  BY <1>10, <1>11 DEF RowsReplay
<1> QED BY <1>6, <1>12

LEMMA SwapRowsTyped ==
  ASSUME NEW G, NEW m \in Mesh(G), NEW ch \in StoreChunk
  PROVE  SwapRows([mesh |-> m, chunk |-> ch]) \in RowsReplay(G, Len(ch.rows))
<1> DEFINE a == [mesh |-> m, chunk |-> ch]
           b == [a EXCEPT !.chunk.swapped = ~@]
           n == Len(ch.rows)
           S == RowsReplay(G, n)
           c == [ch EXCEPT !.swapped = ~@]
<1>1. n \in Nat
  BY DEF StoreChunk
<1>2. b = [mesh |-> m, chunk |-> c]
  OBVIOUS
<1>3. c \in StoreChunk /\ c.rows = ch.rows
  BY DEF StoreChunk
<1> HIDE DEF c
<1>4. [mesh |-> m, chunk |-> c] \in S
  BY <1>3 DEF RowsReplay
<1>5. SwapRows(a) = IF ch.swapped THEN Forward(SwapRow, b, n) ELSE Backward(SwapRow, b, n)
  BY DEF SwapRows
<1> HIDE DEF b, n, a
<1>6. \A x \in S, k \in 1 .. n : SwapRow(x, k) \in S
  BY <1>1, SwapRowTyped
<1> HIDE DEF S
<1>7. b \in S
  BY <1>2, <1>4
<1>8. Forward(SwapRow, b, n) \in S
  BY <1>1, <1>6, <1>7, RowsAheadIn
<1>9. Backward(SwapRow, b, n) \in S
  BY <1>1, <1>6, <1>7, RowsBackIn
<1> QED BY <1>5, <1>8, <1>9 DEF S, n, a

-----------------------------------------------------------------------------
(* Reorders.                                                               *)

LEMMA AntiPerm ==
  ASSUME NEW p \in Perms
  PROVE  /\ AntiFunction(p) \in Perms
         /\ \A i \in Elems : AntiFunction(p)[p[i]] = i /\ p[AntiFunction(p)[i]] = i
<1> DEFINE q == AntiFunction(p)
<1>1. /\ p \in [Elems -> Elems]
      /\ \A i, j \in Elems : p[i] = p[j] => i = j
      /\ \A j \in Elems : \E i \in Elems : p[i] = j
  BY DEF Perms, Bijection, Injection, Surjection, IsInjective
<1>2. Range(p) = Elems
  BY <1>1 DEF Range
<1>3. q = [t \in Elems |-> CHOOSE s \in Elems : t \in Elems => p[s] = t]
  BY <1>1, <1>2 DEF AntiFunction, Inverse
<1> HIDE DEF q
<1>4. \A t \in Elems : q[t] \in Elems /\ p[q[t]] = t
  BY <1>1, <1>3
<1>5. q \in [Elems -> Elems]
  BY <1>3, <1>4
<1>6. \A i \in Elems : q[p[i]] = i
  BY <1>1, <1>4
<1>7. \A i, j \in Elems : q[i] = q[j] => i = j
  BY <1>4
<1>8. \A j \in Elems : \E i \in Elems : q[i] = j
  BY <1>1, <1>6
<1>9. q \in Perms
  BY <1>5, <1>7, <1>8 DEF Perms, Bijection, Injection, Surjection, IsInjective
<1> QED BY <1>4, <1>6, <1>9 DEF q

LEMMA PermuteTyped ==
  ASSUME NEW G, NEW m \in Mesh(G), NEW p \in Perms
  PROVE  Permute(m, p) \in Mesh(G)
<1> DEFINE q == AntiFunction(p)
<1>1. q \in [Elems -> Elems] /\ p \in [Elems -> Elems]
  BY AntiPerm DEF Perms, Bijection, Injection
<1>2. Permute(m, p) = [live |-> {p[i] : i \in m.live}, data |-> [i \in Elems |-> m.data[q[i]]],
                       gate |-> [i \in Elems |-> m.gate[q[i]]]]
  BY DEF Permute
<1> HIDE DEF q
<1>3. {p[i] : i \in m.live} \subseteq Elems
  BY <1>1 DEF Mesh
<1>4. /\ [i \in Elems |-> m.data[q[i]]] \in [Elems -> Rows]
      /\ [i \in Elems |-> m.gate[q[i]]] \in [Elems -> G]
  BY <1>1 DEF Mesh
<1> QED BY <1>2, <1>3, <1>4 DEF Mesh

-----------------------------------------------------------------------------
(* Chunks and steps.                                                       *)

LEMMA ChunkKinds ==
  ASSUME NEW ch \in Chunk
  PROVE  /\ ch.kind \in {"topo", "elems", "reorder"}
         /\ ch.kind = "topo" <=> ch \in TopoChunk
         /\ ch.kind = "elems" <=> ch \in StoreChunk
         /\ ch.kind = "reorder" <=> ch \in ReorderChunk
<1>1. \A x : /\ x \in TopoChunk => x.kind = "topo"
             /\ x \in StoreChunk => x.kind = "elems"
             /\ x \in ReorderChunk => x.kind = "reorder"
  BY DEF TopoChunk, StoreChunk, ReorderChunk
<1>2. ch \in TopoChunk \/ ch \in StoreChunk \/ ch \in ReorderChunk
  BY DEF Chunk
<1> QED BY <1>1, <1>2

\* Replaying a chunk keeps its type and its kind.
LEMMA UndoChunkTyped ==
  ASSUME NEW G, NoStamp \in G, NEW m \in Mesh(G), NEW ch \in Chunk
  PROVE  LET r == UndoChunk([mesh |-> m, chunk |-> ch])
         IN  /\ r.mesh \in Mesh(G) /\ r.chunk \in Chunk /\ r.chunk.kind = ch.kind
             /\ ch.kind = "topo" => GateKept(m, r.mesh)
<1> DEFINE a == [mesh |-> m, chunk |-> ch]
<1>1. CASE ch.kind = "topo"
  <2> DEFINE r == Backward(UndoRecord, a, Len(ch.recs))
  <2>1. UndoChunk(a) = r
    BY <1>1 DEF UndoChunk
  <2>2. ch \in TopoChunk
    BY <1>1, ChunkKinds
  <2>3. r \in Replay(G, Len(ch.recs)) /\ GateKept(m, r.mesh)
    BY <2>2, TopoReplayTyped
  <2> HIDE DEF r
  <2>4. r.mesh \in Mesh(G) /\ r.chunk \in TopoChunk
    BY <2>3 DEF Replay
  <2>5. r.chunk \in Chunk /\ r.chunk.kind = "topo"
    BY <2>4 DEF Chunk, TopoChunk
  <2> QED BY <1>1, <2>1, <2>3, <2>4, <2>5
<1>2. CASE ch.kind = "elems"
  <2> DEFINE r == SwapRows(a)
  <2>1. UndoChunk(a) = r
    BY <1>2 DEF UndoChunk
  <2>2. ch \in StoreChunk
    BY <1>2, ChunkKinds
  <2>3. r \in RowsReplay(G, Len(ch.rows))
    BY <2>2, SwapRowsTyped
  <2> HIDE DEF r
  <2>4. r.mesh \in Mesh(G) /\ r.chunk \in StoreChunk
    BY <2>3 DEF RowsReplay
  <2>5. r.chunk \in Chunk /\ r.chunk.kind = "elems"
    BY <2>4 DEF Chunk, StoreChunk
  <2> QED BY <1>2, <2>1, <2>4, <2>5
<1>3. CASE ch.kind = "reorder"
  <2> DEFINE q == AntiFunction(ch.perm)
  <2>1. UndoChunk(a) = [mesh |-> Permute(m, q), chunk |-> ch]
    BY <1>3 DEF UndoChunk
  <2>2. ch.perm \in Perms
    BY <1>3, ChunkKinds DEF ReorderChunk
  <2>3. q \in Perms
    BY <2>2, AntiPerm
  <2> HIDE DEF q
  <2>4. Permute(m, q) \in Mesh(G)
    BY <2>3, PermuteTyped
  <2> QED BY <1>3, <2>1, <2>4
<1>4. ch.kind \in {"topo", "elems", "reorder"}
  BY ChunkKinds
<1> QED BY <1>1, <1>2, <1>3, <1>4

LEMMA RedoChunkTyped ==
  ASSUME NEW G, NoStamp \in G, NEW m \in Mesh(G), NEW ch \in Chunk
  PROVE  LET r == RedoChunk([mesh |-> m, chunk |-> ch])
         IN  r.mesh \in Mesh(G) /\ r.chunk \in Chunk /\ r.chunk.kind = ch.kind
<1> DEFINE a == [mesh |-> m, chunk |-> ch]
<1>1. CASE ch.kind = "topo"
  <2> DEFINE r == Forward(RedoRecord, a, Len(ch.recs))
  <2>1. RedoChunk(a) = r
    BY <1>1 DEF RedoChunk
  <2>2. ch \in TopoChunk
    BY <1>1, ChunkKinds
  <2>3. r \in Replay(G, Len(ch.recs))
    BY <2>2, TopoReplayTyped
  <2> HIDE DEF r
  <2>4. r.mesh \in Mesh(G) /\ r.chunk \in TopoChunk
    BY <2>3 DEF Replay
  <2>5. r.chunk \in Chunk /\ r.chunk.kind = "topo"
    BY <2>4 DEF Chunk, TopoChunk
  <2> QED BY <1>1, <2>1, <2>4, <2>5
<1>2. CASE ch.kind = "elems"
  <2> DEFINE r == SwapRows(a)
  <2>1. RedoChunk(a) = r
    BY <1>2 DEF RedoChunk
  <2>2. ch \in StoreChunk
    BY <1>2, ChunkKinds
  <2>3. r \in RowsReplay(G, Len(ch.rows))
    BY <2>2, SwapRowsTyped
  <2> HIDE DEF r
  <2>4. r.mesh \in Mesh(G) /\ r.chunk \in StoreChunk
    BY <2>3 DEF RowsReplay
  <2>5. r.chunk \in Chunk /\ r.chunk.kind = "elems"
    BY <2>4 DEF Chunk, StoreChunk
  <2> QED BY <1>2, <2>1, <2>4, <2>5
<1>3. CASE ch.kind = "reorder"
  <2>1. RedoChunk(a) = [mesh |-> Permute(m, ch.perm), chunk |-> ch]
    BY <1>3 DEF RedoChunk
  <2>2. ch.perm \in Perms
    BY <1>3, ChunkKinds DEF ReorderChunk
  <2>3. Permute(m, ch.perm) \in Mesh(G)
    BY <2>2, PermuteTyped
  <2> QED BY <1>3, <2>1, <2>3
<1>4. ch.kind \in {"topo", "elems", "reorder"}
  BY ChunkKinds
<1> QED BY <1>1, <1>2, <1>3, <1>4

\* Of the chunks of a step, newest first.
LEMMA UndoStepIn ==
  ASSUME NEW n \in Nat, NEW S, NEW a \in S, Len(a.chunks) = n,
         \A b \in S, k \in 1 .. n : ReplayChunk(UndoChunk, b, k) \in S
  PROVE  UndoStep(a) \in S
<1> DEFINE Round(b, k) == ReplayChunk(UndoChunk, b, n + 1 - k)
           g == [k \in 1 .. n |-> [b \in S |-> Round(b, k)]]
           F(acc) == [k \in 0 .. n |-> IF k = 0 THEN a
                        ELSE CHOOSE r \in {Round(x, k) : x \in {acc[k - 1]}} : TRUE]
           run == CHOOSE acc : acc = F(acc)
<1>1. UndoStep(a) = run[n]
  BY DEF UndoStep, Backward, Forward, Bind
<1>2. \A b \in S, k \in 1 .. n : Round(b, k) \in S
  <2>1. \A k \in 1 .. n : n + 1 - k \in 1 .. n
    OBVIOUS
  <2> QED BY <2>1
<1> HIDE DEF Round
<1>3. Rounds(n, S, g)
  BY <1>2 DEF Rounds
<1>4. \A k \in 1 .. n, b \in S : g[k][b] = Round(b, k)
  OBVIOUS
<1>5. \A acc, k : (CHOOSE r \in {Round(x, k) : x \in {acc[k - 1]}} : TRUE) = Round(acc[k - 1], k)
  OBVIOUS
<1> HIDE DEF g
<1>6. \E acc : acc = F(acc)
  <2>1. PICK f : IsRun(f, n, S, a, g)
    BY <1>3, RunExists
  <2>2. f \in [0 .. n -> S] /\ f[0] = a /\ \A k \in 1 .. n : f[k] = Round(f[k - 1], k)
    BY <1>4, <2>1 DEF IsRun
  <2>3. f = F(f)
    BY <1>5, <2>2
  <2> QED BY <2>3
<1>7. run = F(run)
  BY <1>6
<1> HIDE DEF run
<1>8. run[0] = a /\ \A k \in 1 .. n : run[k] = Round(run[k - 1], k)
  BY <1>5, <1>7
<1>9. \A k \in 1 .. n : run[k - 1] \in S => run[k] = g[k][run[k - 1]]
  BY <1>4, <1>8
<1> QED BY <1>1, <1>3, <1>8, <1>9, RunEnds

\* And oldest first.
LEMMA RedoStepIn ==
  ASSUME NEW n \in Nat, NEW S, NEW a \in S, Len(a.chunks) = n,
         \A b \in S, k \in 1 .. n : ReplayChunk(RedoChunk, b, k) \in S
  PROVE  RedoStep(a) \in S
<1> DEFINE Round(b, k) == ReplayChunk(RedoChunk, b, k)
           g == [k \in 1 .. n |-> [b \in S |-> Round(b, k)]]
           F(acc) == [k \in 0 .. n |-> IF k = 0 THEN a
                        ELSE CHOOSE r \in {Round(x, k) : x \in {acc[k - 1]}} : TRUE]
           run == CHOOSE acc : acc = F(acc)
<1>1. RedoStep(a) = run[n]
  BY DEF RedoStep, Forward, Bind
<1>2. \A b \in S, k \in 1 .. n : Round(b, k) \in S
  <2>1. \A k \in 1 .. n : n + 1 - k \in 1 .. n
    OBVIOUS
  <2> QED BY <2>1
<1> HIDE DEF Round
<1>3. Rounds(n, S, g)
  BY <1>2 DEF Rounds
<1>4. \A k \in 1 .. n, b \in S : g[k][b] = Round(b, k)
  OBVIOUS
<1>5. \A acc, k : (CHOOSE r \in {Round(x, k) : x \in {acc[k - 1]}} : TRUE) = Round(acc[k - 1], k)
  OBVIOUS
<1> HIDE DEF g
<1>6. \E acc : acc = F(acc)
  <2>1. PICK f : IsRun(f, n, S, a, g)
    BY <1>3, RunExists
  <2>2. f \in [0 .. n -> S] /\ f[0] = a /\ \A k \in 1 .. n : f[k] = Round(f[k - 1], k)
    BY <1>4, <2>1 DEF IsRun
  <2>3. f = F(f)
    BY <1>5, <2>2
  <2> QED BY <2>3
<1>7. run = F(run)
  BY <1>6
<1> HIDE DEF run
<1>8. run[0] = a /\ \A k \in 1 .. n : run[k] = Round(run[k - 1], k)
  BY <1>5, <1>7
<1>9. \A k \in 1 .. n : run[k - 1] \in S => run[k] = g[k][run[k - 1]]
  BY <1>4, <1>8
<1> QED BY <1>1, <1>3, <1>8, <1>9, RunEnds

\* And of a preview's chunks, newest first.
LEMMA PopsIn ==
  ASSUME NEW n \in Nat, NEW S, NEW a \in S,
         \A b \in S, k \in 1 .. n : PopChunk(b, k) \in S
  PROVE  Backward(PopChunk, a, n) \in S
<1> DEFINE Round(b, k) == PopChunk(b, n + 1 - k)
           g == [k \in 1 .. n |-> [b \in S |-> Round(b, k)]]
           F(acc) == [k \in 0 .. n |-> IF k = 0 THEN a
                        ELSE CHOOSE r \in {Round(x, k) : x \in {acc[k - 1]}} : TRUE]
           run == CHOOSE acc : acc = F(acc)
<1>1. Backward(PopChunk, a, n) = run[n]
  BY DEF Backward, Forward, Bind
<1>2. \A b \in S, k \in 1 .. n : Round(b, k) \in S
  <2>1. \A k \in 1 .. n : n + 1 - k \in 1 .. n
    OBVIOUS
  <2> QED BY <2>1
<1> HIDE DEF Round
<1>3. Rounds(n, S, g)
  BY <1>2 DEF Rounds
<1>4. \A k \in 1 .. n, b \in S : g[k][b] = Round(b, k)
  OBVIOUS
<1>5. \A acc, k : (CHOOSE r \in {Round(x, k) : x \in {acc[k - 1]}} : TRUE) = Round(acc[k - 1], k)
  OBVIOUS
<1> HIDE DEF g
<1>6. \E acc : acc = F(acc)
  <2>1. PICK f : IsRun(f, n, S, a, g)
    BY <1>3, RunExists
  <2>2. f \in [0 .. n -> S] /\ f[0] = a /\ \A k \in 1 .. n : f[k] = Round(f[k - 1], k)
    BY <1>4, <2>1 DEF IsRun
  <2>3. f = F(f)
    BY <1>5, <2>2
  <2> QED BY <2>3
<1>7. run = F(run)
  BY <1>6
<1> HIDE DEF run
<1>8. run[0] = a /\ \A k \in 1 .. n : run[k] = Round(run[k - 1], k)
  BY <1>5, <1>7
<1>9. \A k \in 1 .. n : run[k - 1] \in S => run[k] = g[k][run[k - 1]]
  BY <1>4, <1>8
<1> QED BY <1>1, <1>3, <1>8, <1>9, RunEnds

StepReplay(G, cs) ==
  [mesh : Mesh(G),
   chunks : {t \in Seq(Chunk) : /\ Len(t) = Len(cs)
                                /\ \A k \in 1 .. Len(cs) : t[k].kind = cs[k].kind}]

\* Replaying a step keeps the number of its chunks and their kinds.
LEMMA StepTyped ==
  ASSUME NEW G, NoStamp \in G, NEW m \in Mesh(G), NEW cs \in Seq(Chunk)
  PROVE  /\ UndoStep([mesh |-> m, chunks |-> cs]) \in StepReplay(G, cs)
         /\ RedoStep([mesh |-> m, chunks |-> cs]) \in StepReplay(G, cs)
<1> DEFINE a == [mesh |-> m, chunks |-> cs]
           n == Len(cs)
           S == StepReplay(G, cs)
<1>1. n \in Nat /\ Len(a.chunks) = n
  OBVIOUS
<1>2. a \in S
  BY DEF StepReplay
<1>3. ASSUME NEW b \in S, NEW k \in 1 .. n, NEW r, r.mesh \in Mesh(G), r.chunk \in Chunk,
             r.chunk.kind = b.chunks[k].kind
      PROVE  [mesh |-> r.mesh, chunks |-> [b.chunks EXCEPT ![k] = r.chunk]] \in S
  <2> DEFINE x == r.chunk
             t == [b.chunks EXCEPT ![k] = x]
  <2>1. /\ b.chunks \in Seq(Chunk) /\ Len(b.chunks) = n
        /\ \A j \in 1 .. n : b.chunks[j].kind = cs[j].kind
    BY DEF StepReplay
  <2>2. x \in Chunk /\ x.kind = b.chunks[k].kind
    BY <1>3
  <2> HIDE DEF x
  <2>3. t \in Seq(Chunk) /\ Len(t) = n
    BY <1>1, <2>1, <2>2
  <2>4. \A j \in 1 .. n : t[j].kind = cs[j].kind
    BY <1>1, <2>1, <2>2
  <2> HIDE DEF t
  <2>5. [mesh |-> r.mesh, chunks |-> t] \in S
    BY <1>3, <2>3, <2>4 DEF StepReplay
  <2> QED BY <2>5 DEF t, x
<1>4. ASSUME NEW b \in S, NEW k \in 1 .. n
      PROVE  ReplayChunk(UndoChunk, b, k) \in S /\ ReplayChunk(RedoChunk, b, k) \in S
  <2> DEFINE c == [mesh |-> b.mesh, chunk |-> b.chunks[k]]
             u == UndoChunk(c)
             v == RedoChunk(c)
  <2>1. b.mesh \in Mesh(G) /\ b.chunks[k] \in Chunk
    BY <1>1 DEF StepReplay
  <2>2. u.mesh \in Mesh(G) /\ u.chunk \in Chunk /\ u.chunk.kind = b.chunks[k].kind
    BY <2>1, UndoChunkTyped
  <2>3. v.mesh \in Mesh(G) /\ v.chunk \in Chunk /\ v.chunk.kind = b.chunks[k].kind
    BY <2>1, RedoChunkTyped
  <2>4. ReplayChunk(UndoChunk, b, k)
          = [mesh |-> u.mesh, chunks |-> [b.chunks EXCEPT ![k] = u.chunk]]
    BY DEF ReplayChunk, Bind
  <2>5. ReplayChunk(RedoChunk, b, k)
          = [mesh |-> v.mesh, chunks |-> [b.chunks EXCEPT ![k] = v.chunk]]
    BY DEF ReplayChunk, Bind
  <2> HIDE DEF S, u, v
  <2>6. [mesh |-> u.mesh, chunks |-> [b.chunks EXCEPT ![k] = u.chunk]] \in S
    BY <1>3, <2>2
  <2>7. [mesh |-> v.mesh, chunks |-> [b.chunks EXCEPT ![k] = v.chunk]] \in S
    BY <1>3, <2>3
  <2> QED BY <2>4, <2>5, <2>6, <2>7
<1> HIDE DEF S, a, n
<1>5. UndoStep(a) \in S
  BY <1>1, <1>2, <1>4, UndoStepIn
<1>6. RedoStep(a) \in S
  BY <1>1, <1>2, <1>4, RedoStepIn
<1> QED BY <1>5, <1>6 DEF S, a

-----------------------------------------------------------------------------
(* What a step holds of an element.                                        *)

EntryType ==
  [chunks : Seq(Chunk), topo : Nat, finalized : BOOLEAN, snap : Elems \cup {NoElem}]

GoodEntry(e) ==
  /\ e \in EntryType
  /\ \A j, k \in StoreOf(e) : j = k
  /\ e.topo # 0 => ~e.finalized /\ e.topo \in DOMAIN e.chunks /\ e.chunks[e.topo].kind = "topo"

\* A chunk holds the pre-step value of a column of an element.
Evidence(ch, i, c) ==
  \/ Recorded(ch, i)
  \/ ch.kind = "elems" /\ c \in ch.cols /\ \E n \in DOMAIN ch.rows : ch.rows[n].idx = i

\* f holds what e holds of the elements S, in the same chunks.
Keeps(e, f, S) ==
  \A k \in DOMAIN e.chunks :
    /\ k \in DOMAIN f.chunks /\ f.chunks[k].kind = e.chunks[k].kind
    /\ \A i \in S, c \in DataCols : Evidence(e.chunks[k], i, c) => Evidence(f.chunks[k], i, c)

\* f has no records that e has not, but for those of T in the active chunk.
Adds(e, f, T) ==
  \A k \in DOMAIN f.chunks : \A i : Recorded(f.chunks[k], i) =>
    \/ k \in DOMAIN e.chunks /\ Recorded(e.chunks[k], i)
    \/ k = f.topo /\ i \in T

LEMMA KeepsTwice ==
  ASSUME NEW e, NEW f, NEW g, NEW S, Keeps(e, f, S), Keeps(f, g, S)
  PROVE  Keeps(e, g, S)
BY DEF Keeps

LEMMA AddsTwice ==
  ASSUME NEW e, NEW f, NEW g, NEW S, NEW T, Adds(e, f, S), Adds(f, g, T),
         S = {} \/ g.topo = f.topo
  PROVE  Adds(e, g, S \cup T)
BY DEF Adds

LEMMA EntryFields ==
  ASSUME NEW e, GoodEntry(e)
  PROVE  /\ e.chunks \in Seq(Chunk) /\ Len(e.chunks) \in Nat /\ DOMAIN e.chunks = 1 .. Len(e.chunks)
         /\ \A k \in DOMAIN e.chunks : e.chunks[k] \in Chunk
         /\ e.topo \in Nat /\ e.finalized \in BOOLEAN /\ e.snap \in Elems \cup {NoElem}
BY DEF GoodEntry, EntryType

\* An entry whose chunks have the kinds of another's.
LEMMA EntryLike ==
  ASSUME NEW e, GoodEntry(e), NEW cs \in Seq(Chunk), Len(cs) = Len(e.chunks),
         \A k \in 1 .. Len(cs) : cs[k].kind = e.chunks[k].kind
  PROVE  /\ GoodEntry([e EXCEPT !.chunks = cs])
         /\ [e EXCEPT !.chunks = cs].chunks = cs /\ [e EXCEPT !.chunks = cs].topo = e.topo
         /\ [e EXCEPT !.chunks = cs].finalized = e.finalized
         /\ StoreOf([e EXCEPT !.chunks = cs]) = StoreOf(e)
<1> DEFINE f == [e EXCEPT !.chunks = cs]
<1>1. f \in EntryType /\ f.chunks = cs /\ f.topo = e.topo /\ f.finalized = e.finalized
  BY DEF GoodEntry, EntryType
<1>2. DOMAIN cs = DOMAIN e.chunks /\ \A k \in DOMAIN cs : cs[k].kind = e.chunks[k].kind
  BY EntryFields
<1> HIDE DEF f
<1>3. StoreOf(f) = StoreOf(e)
  BY <1>1, <1>2 DEF StoreOf
<1>4. GoodEntry(f)
  BY <1>1, <1>2, <1>3 DEF GoodEntry
<1> QED BY <1>1, <1>3, <1>4 DEF f

\* And one with a chunk more that is no second store.
LEMMA EntryMore ==
  ASSUME NEW e, GoodEntry(e), NEW ch \in Chunk, ch.kind = "elems" => StoreOf(e) = {}
  PROVE  LET f == [e EXCEPT !.chunks = Append(@, ch)]
         IN  /\ GoodEntry(f) /\ f.topo = e.topo /\ f.finalized = e.finalized
             /\ Len(f.chunks) = Len(e.chunks) + 1 /\ f.chunks[Len(e.chunks) + 1] = ch
             /\ \A k \in 1 .. Len(e.chunks) : f.chunks[k] = e.chunks[k]
<1> DEFINE n == Len(e.chunks)
           cs == Append(e.chunks, ch)
           f == [e EXCEPT !.chunks = Append(@, ch)]
<1>1. e.chunks \in Seq(Chunk) /\ n \in Nat /\ DOMAIN e.chunks = 1 .. n
  BY EntryFields
<1>2. /\ cs \in Seq(Chunk) /\ Len(cs) = n + 1 /\ cs[n + 1] = ch
      /\ (\A k \in 1 .. n : cs[k] = e.chunks[k]) /\ DOMAIN cs = 1 .. n + 1
  BY <1>1
<1> HIDE DEF cs, n
<1>3. f \in EntryType /\ f.chunks = cs /\ f.topo = e.topo /\ f.finalized = e.finalized
  BY <1>2 DEF GoodEntry, EntryType, cs
<1> HIDE DEF f
<1>4. \A k \in StoreOf(f) : k \in StoreOf(e) \/ (k = n + 1 /\ ch.kind = "elems")
  BY <1>1, <1>2, <1>3 DEF StoreOf
<1>5. \A j, k \in StoreOf(f) : j = k
  BY <1>4 DEF GoodEntry
<1>6. f.topo # 0 => f.topo \in DOMAIN cs /\ cs[f.topo].kind = "topo" /\ ~f.finalized
  BY <1>1, <1>2, <1>3 DEF GoodEntry
<1>7. GoodEntry(f)
  BY <1>3, <1>5, <1>6 DEF GoodEntry
<1> QED BY <1>2, <1>3, <1>7 DEF f, n

\* Refreshing what was created keeps the elements a chunk has records of.
LEMMA RefreshTyped ==
  ASSUME NEW G, NEW m \in Mesh(G), NEW ch \in Chunk
  PROVE  /\ ch.kind = "topo" => /\ Finalized(ch, m) \in Chunk /\ Finalized(ch, m).kind = "topo"
                                /\ \A i : Recorded(Finalized(ch, m), i) <=> Recorded(ch, i)
         /\ Refreshed(ch, m) \in Chunk /\ Refreshed(ch, m).kind = ch.kind
<1> DEFINE A(r) == IF r.what = "created" THEN [r EXCEPT !.body = m.data[r.idx]] ELSE r
           B(r) == IF r.what = "created" /\ r.idx \in m.live
                   THEN [r EXCEPT !.body = Mix(DataCols, @, m.data[r.idx])] ELSE r
<1>1. ASSUME NEW r \in RecordType
      PROVE  A(r) \in RecordType /\ A(r).idx = r.idx /\ B(r) \in RecordType /\ B(r).idx = r.idx
  <2> DEFINE x == m.data[r.idx]
             y == Mix(DataCols, r.body, m.data[r.idx])
  <2>1. r.idx \in Elems /\ r.body \in Rows
    BY DEF RecordType
  <2>2. x \in Rows
    BY <2>1 DEF Mesh
  <2>3. y \in Rows
    BY <2>1, <2>2, MixTyped
  <2>4. A(r) = IF r.what = "created" THEN [r EXCEPT !.body = x] ELSE r
    OBVIOUS
  <2>5. B(r) = IF r.what = "created" /\ r.idx \in m.live THEN [r EXCEPT !.body = y] ELSE r
    OBVIOUS
  <2> HIDE DEF x, y, A, B
  <2> QED BY <2>1, <2>2, <2>3, <2>4, <2>5 DEF RecordType
<1>2. CASE ch.kind = "topo"
  <2> DEFINE s == ch.recs
             a == [k \in DOMAIN s |-> A(s[k])]
             b == [k \in DOMAIN s |-> B(s[k])]
  <2>1. Finalized(ch, m) = [ch EXCEPT !.recs = a] /\ Refreshed(ch, m) = [ch EXCEPT !.recs = b]
    BY <1>2 DEF Finalized, Refreshed
  <2>2. ch \in TopoChunk
    BY <1>2, ChunkKinds
  <2>3. s \in Seq(RecordType) /\ Len(s) \in Nat /\ DOMAIN s = 1 .. Len(s)
    BY <2>2 DEF TopoChunk
  <2> HIDE DEF A, B, s
  <2>4. /\ a \in [1 .. Len(s) -> RecordType] /\ b \in [1 .. Len(s) -> RecordType]
        /\ \A k \in DOMAIN s : a[k].idx = s[k].idx
    BY <1>1, <2>3
  <2>5. a \in Seq(RecordType) /\ b \in Seq(RecordType)
    BY <2>3, <2>4, SeqDef
  <2>6. DOMAIN a = DOMAIN s
    BY <2>3
  <2> HIDE DEF a, b
  <2>7. /\ [ch EXCEPT !.recs = a] \in TopoChunk /\ [ch EXCEPT !.recs = a].recs = a
        /\ [ch EXCEPT !.recs = b] \in TopoChunk
    BY <2>2, <2>5 DEF TopoChunk
  <2>8. \A x \in TopoChunk : x \in Chunk /\ x.kind = "topo"
    BY DEF TopoChunk, Chunk
  <2>9. \A i : Recorded([ch EXCEPT !.recs = a], i) <=> Recorded(ch, i)
    BY <1>2, <2>4, <2>6, <2>7, <2>8 DEF Recorded, s
  <2> QED BY <1>2, <2>1, <2>7, <2>8, <2>9
<1>3. CASE ch.kind # "topo"
  BY <1>3 DEF Refreshed
<1> QED BY <1>2, <1>3

LEMMA SealedTyped ==
  ASSUME NEW G, NEW m \in Mesh(G), NEW e, GoodEntry(e)
  PROVE  LET s == Sealed(e, m)
         IN  /\ s \in Seq(Chunk) /\ Len(s) = Len(e.chunks)
             /\ \A k \in 1 .. Len(e.chunks) :
                  /\ s[k].kind = e.chunks[k].kind
                  /\ \A i : Recorded(s[k], i) <=> Recorded(e.chunks[k], i)
                  /\ k # e.topo => s[k] = e.chunks[k]
<1>1. CASE e.topo = 0
  <2>1. Sealed(e, m) = e.chunks
    BY <1>1 DEF Sealed
  <2> QED BY <2>1, EntryFields
<1>2. CASE e.topo # 0
  <2> DEFINE x == Finalized(e.chunks[e.topo], m)
             s == [e.chunks EXCEPT ![e.topo] = x]
  <2>1. /\ e.chunks \in Seq(Chunk) /\ Len(e.chunks) \in Nat /\ e.topo \in 1 .. Len(e.chunks)
        /\ e.chunks[e.topo] \in Chunk /\ e.chunks[e.topo].kind = "topo"
    BY <1>2, EntryFields DEF GoodEntry
  <2>2. /\ x \in Chunk /\ x.kind = "topo"
        /\ \A i : Recorded(x, i) <=> Recorded(e.chunks[e.topo], i)
    BY <2>1, RefreshTyped
  <2>3. Sealed(e, m) = s
    BY <1>2 DEF Sealed
  <2> HIDE DEF x
  <2>4. /\ s \in Seq(Chunk) /\ Len(s) = Len(e.chunks) /\ s[e.topo] = x
        /\ \A k \in 1 .. Len(e.chunks) : k # e.topo => s[k] = e.chunks[k]
    BY <2>1, <2>2
  <2> HIDE DEF s
  <2> QED BY <2>1, <2>2, <2>3, <2>4
<1> QED BY <1>1, <1>2

LEMMA EmptyTopo == NewTopo \in Chunk /\ NewTopo.kind = "topo" /\ \A i : ~Recorded(NewTopo, i)
<1>1. <<>> \in Seq(RecordType) /\ DOMAIN <<>> = {}
  OBVIOUS
<1>2. NewTopo \in TopoChunk
  BY <1>1 DEF NewTopo, TopoChunk
<1> QED BY <1>1, <1>2 DEF Chunk, NewTopo, Recorded

LEMMA PushTyped ==
  ASSUME NEW G, NEW m \in Mesh(G), NEW e, GoodEntry(e), ~e.finalized
  PROVE  LET p == PushTopoChunk(e, m)
         IN  /\ GoodEntry(p) /\ ~p.finalized /\ Len(p.chunks) = Len(e.chunks) + 1
             /\ p.topo = Len(e.chunks) + 1 /\ p.chunks[p.topo] = NewTopo
             /\ Keeps(e, p, Elems) /\ Adds(e, p, {})
<1> DEFINE s == Sealed(e, m)
           n == Len(e.chunks)
           f == [e EXCEPT !.chunks = s]
           g == [f EXCEPT !.chunks = Append(@, NewTopo)]
           p == PushTopoChunk(e, m)
<1>1. /\ s \in Seq(Chunk) /\ Len(s) = n /\ n \in Nat
      /\ \A k \in 1 .. n : /\ s[k].kind = e.chunks[k].kind
                           /\ \A i : Recorded(s[k], i) <=> Recorded(e.chunks[k], i)
                           /\ k # e.topo => s[k] = e.chunks[k]
  BY SealedTyped, EntryFields
<1> HIDE DEF s
<1>2. GoodEntry(f) /\ f.chunks = s /\ f.topo = e.topo /\ ~f.finalized
  BY <1>1, EntryLike
<1>3. /\ GoodEntry(g) /\ g.topo = e.topo /\ ~g.finalized
      /\ Len(g.chunks) = n + 1 /\ g.chunks[n + 1] = NewTopo
      /\ \A k \in 1 .. n : g.chunks[k] = s[k]
  <2> HIDE DEF f
  <2> QED BY <1>1, <1>2, EntryMore, EmptyTopo
<1>4. p = [g EXCEPT !.topo = n + 1]
  BY DEF PushTopoChunk, s, GoodEntry, EntryType
<1> HIDE DEF g, f
<1>5. /\ p \in EntryType /\ p.chunks = g.chunks /\ p.topo = n + 1 /\ ~p.finalized
  BY <1>1, <1>3, <1>4 DEF GoodEntry, EntryType
<1>6. DOMAIN g.chunks = 1 .. n + 1 /\ DOMAIN e.chunks = 1 .. n
  BY <1>3, EntryFields
<1> HIDE DEF p
<1>7. GoodEntry(p)
  <2>1. StoreOf(p) = StoreOf(g)
    BY <1>5 DEF StoreOf
  <2> QED BY <1>1, <1>3, <1>5, <1>6, <2>1, EmptyTopo DEF GoodEntry
<1>8. Keeps(e, p, Elems)
  <2> SUFFICES ASSUME NEW k \in 1 .. n
               PROVE  /\ k \in DOMAIN p.chunks /\ p.chunks[k].kind = e.chunks[k].kind
                      /\ \A i \in Elems, c \in DataCols :
                           Evidence(e.chunks[k], i, c) => Evidence(p.chunks[k], i, c)
    BY <1>6 DEF Keeps
  <2>1. p.chunks[k] = s[k] /\ s[k].kind = e.chunks[k].kind /\ k \in DOMAIN p.chunks
    BY <1>1, <1>3, <1>5, <1>6
  <2>2. CASE k # e.topo
    BY <1>1, <2>1, <2>2
  <2>3. CASE k = e.topo
    <3>1. e.chunks[k].kind = "topo"
      BY <1>6, <2>3 DEF GoodEntry
    <3> QED BY <1>1, <2>1, <3>1 DEF Evidence
  <2> QED BY <2>2, <2>3
<1>9. Adds(e, p, {})
  <2>1. \A k \in 1 .. n + 1 : k \in 1 .. n \/ k = n + 1
    BY <1>1
  <2> QED BY <1>1, <1>3, <1>5, <1>6, <2>1, EmptyTopo DEF Adds
<1> QED BY <1>3, <1>5, <1>7, <1>8, <1>9 DEF p

LEMMA GetTyped ==
  ASSUME NEW G, NEW m \in Mesh(G), NEW e, GoodEntry(e), ~e.finalized
  PROVE  LET g == GetTopoChunk(e, m)
         IN  /\ GoodEntry(g) /\ ~g.finalized /\ g.topo # 0
             /\ g.topo = e.topo \/ g.topo = Len(e.chunks) + 1
             /\ Keeps(e, g, Elems) /\ Adds(e, g, {})
<1>1. CASE e.topo = 0
  <2> DEFINE p == PushTopoChunk(e, m)
  <2>1. GetTopoChunk(e, m) = p
    BY <1>1 DEF GetTopoChunk
  <2>2. /\ GoodEntry(p) /\ ~p.finalized /\ p.topo = Len(e.chunks) + 1
        /\ Keeps(e, p, Elems) /\ Adds(e, p, {})
    BY PushTyped
  <2>3. Len(e.chunks) + 1 # 0
    BY EntryFields
  <2> HIDE DEF p
  <2> QED BY <2>1, <2>2, <2>3
<1>2. CASE e.topo # 0
  <2>1. GetTopoChunk(e, m) = e
    BY <1>2 DEF GetTopoChunk
  <2> QED BY <1>2, <2>1 DEF Keeps, Adds
<1> QED BY <1>1, <1>2

-----------------------------------------------------------------------------
(* Records and rows written into an entry.                                 *)

\* The records that follow one another in the active chunk: s has those of r
\* for the elements S, and others only of T.
Follows(r, s, S, T) ==
  /\ s \in Seq(RecordType)
  /\ \A i \in S : (\E n \in DOMAIN r : r[n].idx = i) => \E n \in DOMAIN s : s[n].idx = i
  /\ \A n \in DOMAIN s : s[n].idx \in T \/ \E k \in DOMAIN r : r[k].idx = s[n].idx

LEMMA AppendFollows ==
  ASSUME NEW r \in Seq(RecordType), NEW x \in RecordType, NEW S, NEW T, x.idx \in T
  PROVE  /\ Follows(r, Append(r, x), S, T)
         /\ \E n \in DOMAIN Append(r, x) : Append(r, x)[n].idx = x.idx
<1> DEFINE s == Append(r, x)
<1>1. /\ s \in Seq(RecordType) /\ Len(r) \in Nat /\ DOMAIN r = 1 .. Len(r)
      /\ DOMAIN s = 1 .. Len(r) + 1 /\ s[Len(r) + 1] = x
      /\ \A n \in 1 .. Len(r) : s[n] = r[n]
  OBVIOUS
<1> HIDE DEF s
<1>2. \A n \in DOMAIN s : n \in DOMAIN r \/ n = Len(r) + 1
  BY <1>1
<1>3. Len(r) + 1 \in DOMAIN s /\ \A n \in DOMAIN r : n \in DOMAIN s /\ s[n] = r[n]
  BY <1>1
<1>4. \A i \in S : (\E n \in DOMAIN r : r[n].idx = i) => \E n \in DOMAIN s : s[n].idx = i
  BY <1>3
<1>5. \A n \in DOMAIN s : s[n].idx \in T \/ \E k \in DOMAIN r : r[k].idx = s[n].idx
  BY <1>1, <1>2
<1>6. Follows(r, s, S, T)
  BY <1>1, <1>4, <1>5 DEF Follows
<1>7. \E n \in DOMAIN s : s[n].idx = x.idx
  BY <1>1, <1>3
<1> QED BY <1>6, <1>7 DEF s

LEMMA CreateFollows ==
  ASSUME NEW r \in Seq(RecordType), NEW i \in Elems
  PROVE  /\ Follows(r, OnCreate(r, i), Elems, {i})
         /\ \E n \in DOMAIN OnCreate(r, i) : OnCreate(r, i)[n].idx = i
<1> DEFINE x == [idx |-> i, what |-> "created", body |-> DefaultRow]
<1>1. x \in RecordType /\ x.idx = i
  BY DefaultTyped DEF RecordType
<1>2. OnCreate(r, i) = Append(r, x)
  BY DEF OnCreate
<1> HIDE DEF x
<1> QED BY <1>1, <1>2, AppendFollows

LEMMA ChangeFollows ==
  ASSUME NEW G, NEW m \in Mesh(G), NEW r \in Seq(RecordType), NEW i \in Elems
  PROVE  /\ Follows(r, OnChange(r, i, m), Elems, {i})
         /\ \E n \in DOMAIN OnChange(r, i, m) : OnChange(r, i, m)[n].idx = i
<1>1. CASE Mapped(r, i) # {}
  BY <1>1 DEF OnChange, Mapped, Follows
<1>2. CASE Mapped(r, i) = {}
  <2> DEFINE x == [idx |-> i, what |-> "changed", body |-> m.data[i]]
  <2>1. x \in RecordType /\ x.idx = i
    BY DEF RecordType, Mesh
  <2>2. OnChange(r, i, m) = Append(r, x)
    BY <1>2 DEF OnChange
  <2> HIDE DEF x
  <2> QED BY <2>1, <2>2, AppendFollows
<1> QED BY <1>1, <1>2

LEMMA KillFollows ==
  ASSUME NEW G, NEW m \in Mesh(G), NEW r \in Seq(RecordType), NEW i \in Elems
  PROVE  Follows(r, OnKill(r, i, m), Elems \ {i}, {i})
<1>0. Len(r) \in Nat /\ DOMAIN r = 1 .. Len(r)
  OBVIOUS
<1>1. CASE Mapped(r, i) = {}
  <2> DEFINE x == [idx |-> i, what |-> "killed", body |-> m.data[i]]
  <2>1. x \in RecordType /\ x.idx = i
    BY DEF RecordType, Mesh
  <2>2. OnKill(r, i, m) = Append(r, x)
    BY <1>1 DEF OnKill
  <2> HIDE DEF x
  <2> QED BY <2>1, <2>2, AppendFollows
<1>2. CASE Mapped(r, i) # {}
  <2> DEFINE k == CHOOSE j \in Mapped(r, i) : TRUE
  <2>1. k \in 1 .. Len(r) /\ r[k].idx = i
    BY <1>0, <1>2 DEF Mapped
  <2>2. CASE r[k].what = "created"
    <3> DEFINE s == RemoveAt(r, k)
    <3>1. OnKill(r, i, m) = s
      BY <1>2, <2>2 DEF OnKill
    <3> HIDE DEF k
    <3>2. Listed(r)
      BY <1>0, ListOf
    <3>3. /\ Listed(s) /\ Len(s) = Len(r) - 1
          /\ \A j \in 1 .. Len(r) - 1 : s[j] = IF j < k THEN r[j] ELSE r[j + 1]
      BY <2>1, <3>2, RemoveList
    <3> HIDE DEF s
    <3>4. DOMAIN s = 1 .. Len(r) - 1
      BY <3>3, ListFacts
    <3>5. \A j \in DOMAIN s : \E l \in DOMAIN r : s[j] = r[l]
      <4>1. \A j \in 1 .. Len(r) - 1 : j \in 1 .. Len(r) /\ j + 1 \in 1 .. Len(r)
        BY <1>0
      <4> QED BY <1>0, <3>3, <3>4, <4>1
    <3>6. s \in Seq(RecordType)
      <4>1. \A j \in DOMAIN s : s[j] \in RecordType
        BY <1>0, <3>5
      <4>2. Range(s) \subseteq RecordType
        BY <4>1 DEF Range
      <4> QED BY <3>3, <4>2, ListIn
    <3>7. ASSUME NEW j \in Elems \ {i}, NEW l \in 1 .. Len(r), r[l].idx = j
          PROVE  \E n \in DOMAIN s : s[n].idx = j
      <4>1. l # k
        BY <2>1, <3>7
      <4>2. CASE l < k
        <5>1. l \in 1 .. Len(r) - 1
          BY <1>0, <2>1, <4>2
        <5> QED BY <3>3, <3>4, <3>7, <4>2, <5>1
      <4>3. CASE l > k
        <5>1. l - 1 \in 1 .. Len(r) - 1 /\ ~(l - 1 < k) /\ (l - 1) + 1 = l
          BY <1>0, <2>1, <4>3
        <5> QED BY <3>3, <3>4, <3>7, <5>1
      <4> QED BY <2>1, <4>1, <4>2, <4>3
    <3>8. Follows(r, s, Elems \ {i}, {i})
      BY <1>0, <3>5, <3>6, <3>7 DEF Follows
    <3> QED BY <3>1, <3>8
  <2>3. CASE r[k].what # "created"
    <3> DEFINE x == [r[k] EXCEPT !.what = "killed"]
               s == [r EXCEPT ![k] = x]
    <3>1. OnKill(r, i, m) = s
      BY <1>2, <2>3 DEF OnKill
    <3> HIDE DEF k
    <3>2. r[k] \in RecordType
      BY <2>1
    <3>3. x \in RecordType /\ x.idx = r[k].idx
      BY <3>2 DEF RecordType
    <3> HIDE DEF x
    <3>4. /\ s \in Seq(RecordType) /\ DOMAIN s = DOMAIN r
          /\ \A j \in DOMAIN s : s[j].idx = r[j].idx
      BY <2>1, <3>3
    <3> HIDE DEF s
    <3>5. Follows(r, s, Elems \ {i}, {i})
      BY <3>4 DEF Follows
    <3> QED BY <3>1, <3>5
  <2> QED BY <2>2, <2>3
<1> QED BY <1>1, <1>2

\* The active chunk's records replaced.
LEMMA RecordsTyped ==
  ASSUME NEW e, GoodEntry(e), e.topo # 0, NEW recs, NEW S, NEW T,
         Follows(e.chunks[e.topo].recs, recs, S, T)
  PROVE  LET w == [e EXCEPT !.chunks[e.topo].recs = recs]
         IN  /\ GoodEntry(w) /\ ~w.finalized /\ w.topo = e.topo
             /\ Len(w.chunks) = Len(e.chunks)
             /\ w.chunks[w.topo].kind = "topo" /\ w.chunks[w.topo].recs = recs
             /\ Keeps(e, w, S) /\ Adds(e, w, T)
<1> DEFINE ch == e.chunks[e.topo]
           new == [ch EXCEPT !.recs = recs]
           cs == [e.chunks EXCEPT ![e.topo] = new]
           w == [e EXCEPT !.chunks[e.topo].recs = recs]
<1>1. /\ e.chunks \in Seq(Chunk) /\ Len(e.chunks) \in Nat /\ DOMAIN e.chunks = 1 .. Len(e.chunks)
      /\ e.topo \in 1 .. Len(e.chunks) /\ ch \in Chunk /\ ch.kind = "topo" /\ ~e.finalized
  BY EntryFields DEF GoodEntry
<1>2. ch \in TopoChunk
  BY <1>1, ChunkKinds
<1>3. /\ recs \in Seq(RecordType)
      /\ \A i \in S : (\E n \in DOMAIN ch.recs : ch.recs[n].idx = i) => \E n \in DOMAIN recs : recs[n].idx = i
      /\ \A n \in DOMAIN recs : recs[n].idx \in T \/ \E k \in DOMAIN ch.recs : ch.recs[k].idx = recs[n].idx
  BY DEF Follows
<1>4. new \in TopoChunk /\ new.recs = recs
  BY <1>2, <1>3 DEF TopoChunk
<1>5. new \in Chunk /\ new.kind = "topo"
  BY <1>4 DEF Chunk, TopoChunk
<1>6. w = [e EXCEPT !.chunks = cs]
  OBVIOUS
<1>7. \A i : Recorded(new, i) => i \in T \/ Recorded(ch, i)
  BY <1>1, <1>3, <1>4 DEF Recorded
<1>8. \A i \in S : Recorded(ch, i) => Recorded(new, i)
  BY <1>1, <1>3, <1>4, <1>5 DEF Recorded
<1> HIDE DEF w, new, ch
<1>9. /\ cs \in Seq(Chunk) /\ Len(cs) = Len(e.chunks) /\ cs[e.topo] = new
      /\ \A k \in 1 .. Len(e.chunks) : k # e.topo => cs[k] = e.chunks[k]
  BY <1>1, <1>5
<1> HIDE DEF cs
<1>10. \A k \in 1 .. Len(e.chunks) : cs[k].kind = e.chunks[k].kind
  BY <1>1, <1>5, <1>9 DEF ch
<1>11. GoodEntry(w) /\ w.chunks = cs /\ w.topo = e.topo /\ ~w.finalized
  BY <1>1, <1>6, <1>9, <1>10, EntryLike
<1>12. DOMAIN cs = 1 .. Len(e.chunks)
  BY <1>9, <1>11, EntryFields
<1>13. Keeps(e, w, S)
  <2> SUFFICES ASSUME NEW k \in 1 .. Len(e.chunks)
               PROVE  \A i \in S, c \in DataCols :
                        Evidence(e.chunks[k], i, c) => Evidence(cs[k], i, c)
    BY <1>1, <1>10, <1>11, <1>12 DEF Keeps
  <2>1. CASE k # e.topo
    BY <1>9, <2>1
  <2>2. CASE k = e.topo
    BY <1>1, <1>5, <1>8, <1>9, <2>2 DEF Evidence, ch
  <2> QED BY <2>1, <2>2
<1>14. Adds(e, w, T)
  <2> SUFFICES ASSUME NEW k \in 1 .. Len(e.chunks), NEW i, Recorded(cs[k], i)
               PROVE  Recorded(e.chunks[k], i) \/ (k = e.topo /\ i \in T)
    BY <1>1, <1>11, <1>12 DEF Adds
  <2>1. CASE k # e.topo
    BY <1>9, <2>1
  <2>2. CASE k = e.topo
    BY <1>7, <1>9, <2>2 DEF ch
  <2> QED BY <2>1, <2>2
<1> QED BY <1>4, <1>5, <1>9, <1>11, <1>13, <1>14 DEF w

\* A chunk of a step replaced by one of its kind, no topology chunk.
LEMMA StoreTyped ==
  ASSUME NEW e, GoodEntry(e), NEW k \in StoreOf(e), NEW x \in StoreChunk,
         \A i, c : Evidence(e.chunks[k], i, c) => Evidence(x, i, c)
  PROVE  LET w == [e EXCEPT !.chunks[k] = x]
         IN  /\ GoodEntry(w) /\ w.finalized = e.finalized /\ w.topo = e.topo
             /\ Len(w.chunks) = Len(e.chunks)
             /\ StoreOf(w) = StoreOf(e) /\ w.chunks[k] = x
             /\ w.topo # 0 => w.chunks[w.topo] = e.chunks[e.topo]
             /\ Keeps(e, w, Elems) /\ Adds(e, w, {})
<1> DEFINE cs == [e.chunks EXCEPT ![k] = x]
           w == [e EXCEPT !.chunks[k] = x]
<1>1. /\ e.chunks \in Seq(Chunk) /\ Len(e.chunks) \in Nat /\ DOMAIN e.chunks = 1 .. Len(e.chunks)
      /\ k \in 1 .. Len(e.chunks) /\ e.chunks[k].kind = "elems"
  BY EntryFields DEF StoreOf
<1>2. x \in Chunk /\ x.kind = "elems"
  BY DEF Chunk, StoreChunk
<1>3. w = [e EXCEPT !.chunks = cs]
  OBVIOUS
<1> HIDE DEF w
<1>4. /\ cs \in Seq(Chunk) /\ Len(cs) = Len(e.chunks) /\ cs[k] = x
      /\ \A j \in 1 .. Len(e.chunks) : j # k => cs[j] = e.chunks[j]
  BY <1>1, <1>2
<1> HIDE DEF cs
<1>5. \A j \in 1 .. Len(e.chunks) : cs[j].kind = e.chunks[j].kind
  BY <1>1, <1>2, <1>4
<1>6. GoodEntry(w) /\ w.chunks = cs /\ w.topo = e.topo /\ w.finalized = e.finalized /\ StoreOf(w) = StoreOf(e)
  BY <1>3, <1>4, <1>5, EntryLike
<1>7. DOMAIN cs = 1 .. Len(e.chunks)
  BY <1>4, <1>6, EntryFields
<1>8. Keeps(e, w, Elems)
  <2> SUFFICES ASSUME NEW j \in 1 .. Len(e.chunks)
               PROVE  \A i \in Elems, c \in DataCols :
                        Evidence(e.chunks[j], i, c) => Evidence(cs[j], i, c)
    BY <1>1, <1>5, <1>6, <1>7 DEF Keeps
  <2> QED BY <1>4
<1>9. Adds(e, w, {})
  <2> SUFFICES ASSUME NEW j \in 1 .. Len(e.chunks), NEW i, Recorded(cs[j], i)
               PROVE  Recorded(e.chunks[j], i)
    BY <1>1, <1>6, <1>7 DEF Adds
  <2> QED BY <1>2, <1>4 DEF Recorded
<1>10. e.topo # 0 => e.topo # k /\ e.topo \in 1 .. Len(e.chunks)
  BY <1>1 DEF GoodEntry
<1> QED BY <1>4, <1>6, <1>8, <1>9, <1>10 DEF w

LEMMA WithStoreTyped ==
  ASSUME NEW e, GoodEntry(e)
  PROVE  LET w == WithStore(e)
         IN  /\ GoodEntry(w) /\ w.finalized = e.finalized /\ w.topo = e.topo
             /\ w.topo # 0 => w.chunks[w.topo] = e.chunks[e.topo]
             /\ StoreOf(w) # {} /\ Keeps(e, w, Elems) /\ Adds(e, w, {})
<1>1. CASE StoreOf(e) # {}
  BY <1>1 DEF WithStore, Keeps, Adds
<1>2. CASE StoreOf(e) = {}
  <2> DEFINE w == [e EXCEPT !.chunks = Append(@, NewStore)]
             n == Len(e.chunks)
  <2>1. NewStore \in StoreChunk
    <3>1. <<>> \in Seq(SavedRow)
      OBVIOUS
    <3> QED BY <3>1 DEF NewStore, StoreChunk
  <2>2. NewStore \in Chunk /\ NewStore.kind = "elems" /\ \A i : ~Recorded(NewStore, i)
    BY <2>1 DEF Chunk, StoreChunk, Recorded
  <2>3. /\ GoodEntry(w) /\ w.topo = e.topo /\ w.finalized = e.finalized
        /\ Len(w.chunks) = n + 1 /\ w.chunks[n + 1] = NewStore
        /\ \A k \in 1 .. n : w.chunks[k] = e.chunks[k]
    BY <1>2, <2>2, EntryMore
  <2>4. WithStore(e) = w
    BY <1>2 DEF WithStore
  <2> HIDE DEF w
  <2>5. n \in Nat /\ DOMAIN w.chunks = 1 .. n + 1 /\ DOMAIN e.chunks = 1 .. n
    BY <2>3, EntryFields
  <2>6. \A k \in 1 .. n + 1 : k \in 1 .. n \/ k = n + 1
    BY <2>5
  <2>7. \A k \in 1 .. n : k \in 1 .. n + 1
    BY <2>5
  <2>8. Keeps(e, w, Elems) /\ Adds(e, w, {})
    BY <2>2, <2>3, <2>5, <2>6, <2>7 DEF Keeps, Adds
  <2>9. n + 1 \in StoreOf(w)
    BY <2>2, <2>3, <2>5 DEF StoreOf
  <2>10. w.topo # 0 => w.chunks[w.topo] = e.chunks[e.topo]
    BY <2>3, <2>5 DEF GoodEntry
  <2> QED BY <2>3, <2>4, <2>8, <2>9, <2>10
<1> QED BY <1>1, <1>2

\* A column saved, and a row.
LEMMA ColumnsTyped ==
  ASSUME NEW e, GoodEntry(e), NEW cols \in SUBSET DataCols
  PROVE  LET w == WithColumns(e, cols)
         IN  /\ GoodEntry(w) /\ w.finalized = e.finalized /\ w.topo = e.topo
             /\ w.topo # 0 => w.chunks[w.topo] = e.chunks[e.topo]
             /\ StoreOf(w) # {} /\ (\A k \in StoreOf(w) : cols \subseteq w.chunks[k].cols)
             /\ Keeps(e, w, Elems) /\ Adds(e, w, {})
<1> DEFINE f == WithStore(e)
           k == CHOOSE j \in StoreOf(f) : TRUE
           x == [f.chunks[k] EXCEPT !.cols = @ \cup cols]
           w == [f EXCEPT !.chunks[k] = x]
<1>1. /\ GoodEntry(f) /\ f.finalized = e.finalized /\ f.topo = e.topo
      /\ f.topo # 0 => f.chunks[f.topo] = e.chunks[e.topo]
      /\ StoreOf(f) # {} /\ Keeps(e, f, Elems) /\ Adds(e, f, {})
  BY WithStoreTyped
<1>2. WithColumns(e, cols) = w
  BY DEF WithColumns
<1> HIDE DEF f
<1>3. k \in StoreOf(f)
  BY <1>1
<1> HIDE DEF k
<1>4. f.chunks[k] \in StoreChunk
  BY <1>1, <1>3, EntryFields, ChunkKinds DEF StoreOf
<1>5. /\ x \in StoreChunk /\ cols \subseteq x.cols
      /\ \A i, c : Evidence(f.chunks[k], i, c) => Evidence(x, i, c)
  BY <1>4 DEF StoreChunk, Evidence, Recorded
<1> HIDE DEF x
<1>6. /\ GoodEntry(w) /\ w.finalized = f.finalized /\ w.topo = f.topo
      /\ StoreOf(w) = StoreOf(f) /\ w.chunks[k] = x
      /\ w.topo # 0 => w.chunks[w.topo] = f.chunks[f.topo]
      /\ Keeps(f, w, Elems) /\ Adds(f, w, {})
  BY <1>1, <1>3, <1>5, StoreTyped
<1> HIDE DEF w
<1>7. Keeps(e, w, Elems)
  BY <1>1, <1>6, KeepsTwice
<1>8. Adds(e, w, {})
  <2>1. Adds(e, w, {} \cup {})
    BY <1>1, <1>6, AddsTwice
  <2> QED BY <2>1
<1>9. \A j \in StoreOf(w) : j = k
  BY <1>1, <1>3, <1>6 DEF GoodEntry
<1> QED BY <1>1, <1>2, <1>5, <1>6, <1>7, <1>8, <1>9 DEF w

LEMMA CaptureTyped ==
  ASSUME NEW G, NEW m \in Mesh(G), NEW e, GoodEntry(e), StoreOf(e) # {}, NEW i \in Elems
  PROVE  LET w == CaptureRow(e, m, i)
         IN  /\ GoodEntry(w) /\ w.finalized = e.finalized /\ w.topo = e.topo
             /\ w.topo # 0 => w.chunks[w.topo] = e.chunks[e.topo]
             /\ Keeps(e, w, Elems) /\ Adds(e, w, {})
             /\ \A k \in StoreOf(e) : /\ k \in DOMAIN w.chunks
                                      /\ \A c \in e.chunks[k].cols : Evidence(w.chunks[k], i, c)
<1> DEFINE k == CHOOSE j \in StoreOf(e) : TRUE
           y == Mix(e.chunks[k].cols, DefaultRow, m.data[i])
           row == [idx |-> i, vals |-> y]
           x == [e.chunks[k] EXCEPT !.rows = Append(@, row)]
           w == [e EXCEPT !.chunks[k] = x]
<1>1. k \in StoreOf(e)
  OBVIOUS
<1>2. CaptureRow(e, m, i) = w
  BY DEF CaptureRow
<1>3. y \in Rows
  BY MixTyped, DefaultTyped DEF Mesh
<1> HIDE DEF k, y
<1>4. e.chunks[k] \in StoreChunk
  BY <1>1, EntryFields, ChunkKinds DEF StoreOf
<1>5. row \in SavedRow /\ row.idx = i
  BY <1>3 DEF SavedRow
<1> HIDE DEF row
<1> DEFINE s == e.chunks[k].rows
           t == Append(s, row)
<1>6. s \in Seq(SavedRow)
  BY <1>4 DEF StoreChunk
<1>7. /\ t \in Seq(SavedRow) /\ Len(s) \in Nat /\ Len(s) + 1 \in DOMAIN t /\ t[Len(s) + 1] = row
      /\ \A n \in DOMAIN s : n \in DOMAIN t /\ t[n] = s[n]
  <2> HIDE DEF s
  <2> QED BY <1>5, <1>6
<1>8. x = [e.chunks[k] EXCEPT !.rows = t]
  OBVIOUS
<1> HIDE DEF t, x
<1>9. /\ x \in StoreChunk /\ x.rows = t /\ x.cols = e.chunks[k].cols
      /\ x.kind = "elems" /\ e.chunks[k].kind = "elems"
  BY <1>4, <1>7, <1>8 DEF StoreChunk
<1>10. \A j, c : Evidence(e.chunks[k], j, c) => Evidence(x, j, c)
  BY <1>7, <1>9 DEF Evidence, Recorded
<1>11. \A c \in e.chunks[k].cols : Evidence(x, i, c)
  BY <1>5, <1>7, <1>9 DEF Evidence
<1>12. /\ GoodEntry(w) /\ w.finalized = e.finalized /\ w.topo = e.topo
       /\ StoreOf(w) = StoreOf(e) /\ w.chunks[k] = x
       /\ w.topo # 0 => w.chunks[w.topo] = e.chunks[e.topo]
       /\ Keeps(e, w, Elems) /\ Adds(e, w, {})
  BY <1>1, <1>9, <1>10, StoreTyped
<1> HIDE DEF w
<1>13. \A j \in StoreOf(e) : j = k /\ j \in DOMAIN w.chunks
  BY <1>1, <1>12 DEF GoodEntry, StoreOf
<1> QED BY <1>2, <1>11, <1>12, <1>13 DEF w

\* What finalizeStroke makes of a step.
LEMMA FinalizedTyped ==
  ASSUME NEW G, NEW m \in Mesh(G), NEW e, GoodEntry(e)
  PROVE  LET f == FinalizedEntry(e, m)
         IN  GoodEntry(f) /\ f.finalized /\ f.topo = 0
<1>1. CASE e.finalized
  BY <1>1 DEF FinalizedEntry, GoodEntry
<1>2. CASE ~e.finalized
  <2> DEFINE s == Sealed(e, m)
             t == [k \in DOMAIN e.chunks |-> Refreshed(s[k], m)]
             f == [e EXCEPT !.chunks = t]
             g == FinalizedEntry(e, m)
             n == Len(e.chunks)
  <2>1. /\ s \in Seq(Chunk) /\ Len(s) = n /\ n \in Nat /\ DOMAIN e.chunks = 1 .. n
        /\ \A k \in 1 .. n : s[k].kind = e.chunks[k].kind
    BY SealedTyped, EntryFields
  <2>2. g = [e EXCEPT !.chunks = t, !.topo = 0, !.finalized = TRUE]
    BY <1>2 DEF FinalizedEntry
  <2> HIDE DEF s
  <2>3. \A k \in 1 .. n : t[k] \in Chunk /\ t[k].kind = e.chunks[k].kind
    <3>1. \A k \in 1 .. n : s[k] \in Chunk
      BY <2>1
    <3>2. \A k \in 1 .. n : Refreshed(s[k], m) \in Chunk /\ Refreshed(s[k], m).kind = s[k].kind
      BY <3>1, RefreshTyped
    <3> QED BY <2>1, <3>2
  <2>4. DOMAIN t = 1 .. n
    BY <2>1
  <2>5. t = [k \in 1 .. n |-> t[k]]
    BY <2>1
  <2> HIDE DEF t, n
  <2>6. t \in [1 .. n -> Chunk]
    BY <2>3, <2>4, <2>5
  <2>7. t \in Seq(Chunk) /\ Len(t) = n
    BY <2>1, <2>6, SeqDef
  <2>8. GoodEntry(f) /\ f.chunks = t /\ StoreOf(f) = StoreOf(e)
    BY <2>3, <2>7, EntryLike DEF n
  <2>9. g \in EntryType /\ g.chunks = t /\ g.topo = 0 /\ g.finalized = TRUE
    <3>1. e \in EntryType /\ t \in Seq(Chunk) /\ 0 \in Nat
      BY <2>7 DEF GoodEntry
    <3> QED BY <2>2, <3>1 DEF EntryType
  <2> HIDE DEF f, g
  <2>10. StoreOf(g) = StoreOf(f)
    BY <2>8, <2>9 DEF StoreOf
  <2>11. GoodEntry(g)
    BY <2>8, <2>9, <2>10 DEF GoodEntry
  <2> QED BY <2>9, <2>11 DEF g
<1> QED BY <1>1, <1>2

-----------------------------------------------------------------------------
(* What a rollback makes of a step and of the mesh.                        *)

Leaves(e, K, w) == w = [e EXCEPT !.topo = 0, !.chunks = Kept(@, K)]

LEMMA KeptTyped ==
  ASSUME NEW e, GoodEntry(e), NEW K, K \subseteq DOMAIN e.chunks, NEW w, Leaves(e, K, w)
  PROVE  /\ GoodEntry(w) /\ w.topo = 0 /\ w.finalized = e.finalized
         /\ \A k \in K : \E n \in DOMAIN w.chunks : w.chunks[n] = e.chunks[k]
         /\ \A n \in DOMAIN w.chunks : \E k \in K : w.chunks[n] = e.chunks[k]
<1> DEFINE s == e.chunks
           t == Kept(s, K)
           N == Cardinality(K)
<1>1. s \in Seq(Chunk) /\ Len(s) \in Nat /\ DOMAIN s = 1 .. Len(s) /\ \A k \in K : s[k] \in Chunk
  BY EntryFields
<1>2. Listed(s)
  <2> HIDE DEF s
  <2>1. s = [k \in 1 .. Len(s) |-> s[k]]
    BY <1>1
  <2> QED BY <1>1, <2>1, ListOf
<1>3. Listed(t) /\ N \in Nat /\ DOMAIN t = 1 .. N
  BY <1>2, KeptOrder
<1>4. PICK f \in Bijection(1 .. N, K) : \A n \in 1 .. N : t[n] = s[f[n]]
  BY <1>2, KeptOrder
<1>5. /\ \A n \in 1 .. N : f[n] \in K
      /\ \A n, m \in 1 .. N : f[n] = f[m] => n = m
      /\ \A k \in K : \E n \in 1 .. N : f[n] = k
  BY DEF Bijection, Injection, Surjection, IsInjective
<1>6. t \in Seq(Chunk)
  <2>1. Range(t) \subseteq Chunk
    BY <1>1, <1>3, <1>4, <1>5 DEF Range
  <2> QED BY <1>3, <2>1, ListIn
<1> HIDE DEF t, N
<1>7. w \in EntryType /\ w.chunks = t /\ w.topo = 0 /\ w.finalized = e.finalized
  <2>1. w = [e EXCEPT !.topo = 0, !.chunks = t]
    BY DEF t, Leaves
  <2>2. e \in EntryType /\ 0 \in Nat
    BY DEF GoodEntry
  <2> QED BY <1>6, <2>1, <2>2 DEF EntryType
<1>8. \A j, k \in StoreOf(w) : j = k
  <2> SUFFICES ASSUME NEW j \in StoreOf(w), NEW k \in StoreOf(w) PROVE j = k
    OBVIOUS
  <2>1. j \in 1 .. N /\ k \in 1 .. N /\ t[j].kind = "elems" /\ t[k].kind = "elems"
    BY <1>3, <1>7 DEF StoreOf
  <2>2. f[j] \in StoreOf(e) /\ f[k] \in StoreOf(e)
    BY <1>4, <1>5, <2>1 DEF StoreOf
  <2> QED BY <1>5, <2>1, <2>2 DEF GoodEntry
<1>9. GoodEntry(w)
  BY <1>7, <1>8 DEF GoodEntry
<1>10. /\ \A k \in K : \E n \in DOMAIN w.chunks : w.chunks[n] = e.chunks[k]
       /\ \A n \in DOMAIN w.chunks : \E k \in K : w.chunks[n] = e.chunks[k]
  BY <1>3, <1>4, <1>5, <1>7
<1> QED BY <1>7, <1>9, <1>10

\* What is live after a rollback and has a gate was live before, with that
\* gate, and no preview had it first.
LEMMA RolledBackTyped ==
  ASSUME NEW G, NoStamp \in G, NEW m \in Mesh(G), GoodEntry(cur),
         NEW D \in SUBSET Elems, preview.rows \in [D -> Rows]
  PROVE  LET r == RolledBack(m)
         IN  /\ r \in Mesh(G)
             /\ \A i \in r.live : r.gate[i] = NoStamp \/
                  (i \in m.live /\ r.gate[i] = m.gate[i] /\ i \notin preview.gated)
<1> DEFINE n == Len(cur.chunks)
           S == {b \in Mesh(G) : GateKept(m, b)}
           p == Backward(PopChunk, m, n)
           r == RolledBack(m)
<1>1. n \in Nat /\ \A k \in 1 .. n : cur.chunks[k] \in Chunk
  BY EntryFields
<1>2. m \in S
  BY DEF GateKept
<1>3. \A b \in S, k \in 1 .. n : PopChunk(b, k) \in S
  <2> SUFFICES ASSUME NEW b \in S, NEW k \in 1 .. n PROVE PopChunk(b, k) \in S
    OBVIOUS
  <2>1. CASE k \in PreviewChunks(cur)
    <3> DEFINE u == UndoChunk([mesh |-> b, chunk |-> cur.chunks[k]])
    <3>1. PopChunk(b, k) = u.mesh
      BY <2>1 DEF PopChunk
    <3>2. cur.chunks[k].kind = "topo"
      BY <2>1 DEF PreviewChunks
    <3>3. u.mesh \in Mesh(G) /\ GateKept(b, u.mesh)
      BY <1>1, <3>2, UndoChunkTyped
    <3> HIDE DEF u
    <3>4. GateKept(m, u.mesh)
      BY <3>3, GateKeptTwice
    <3> QED BY <3>1, <3>3, <3>4
  <2>2. CASE k \notin PreviewChunks(cur)
    BY <2>2 DEF PopChunk
  <2> QED BY <2>1, <2>2
<1> HIDE DEF S, n
<1>4. p \in S
  BY <1>1, <1>2, <1>3, PopsIn
<1>5. r = WrittenBack(p)
  BY DEF RolledBack, Bind, n
<1>6. p \in Mesh(G) /\ GateKept(m, p)
  BY <1>4 DEF S
<1> HIDE DEF p, r
<1> DEFINE back == DOMAIN preview.rows \cap p.live
           row(i) == WriteTo(p, i, DataCols, preview.rows[i]).data[i]
           d == [i \in Elems |-> IF i \in back THEN row(i) ELSE p.data[i]]
           g == [i \in Elems |-> IF i \in back \cup preview.gated THEN NoStamp ELSE p.gate[i]]
<1>7. r = [live |-> p.live, data |-> d, gate |-> g]
  BY <1>5 DEF WrittenBack
<1>8. \A i \in back : row(i) \in Rows
  <2> SUFFICES ASSUME NEW i \in back PROVE row(i) \in Rows
    OBVIOUS
  <2>1. i \in Elems /\ preview.rows[i] \in Rows
    OBVIOUS
  <2>2. WriteTo(p, i, DataCols, preview.rows[i]) \in Mesh(G)
    BY <1>6, <2>1, WriteToTyped
  <2> QED BY <2>1, <2>2 DEF Mesh
<1> HIDE DEF row
<1>9. d \in [Elems -> Rows] /\ g \in [Elems -> G]
  BY <1>6, <1>8 DEF Mesh
<1>10. r \in Mesh(G) /\ r.live = p.live /\ r.gate = g
  <2> HIDE DEF d, g
  <2> QED BY <1>6, <1>7, <1>9 DEF Mesh
<1>11. \A i \in p.live : g[i] = NoStamp \/ (i \in m.live /\ g[i] = m.gate[i] /\ i \notin preview.gated)
  BY <1>6 DEF GateKept, Mesh
<1> QED BY <1>10, <1>11 DEF r

-----------------------------------------------------------------------------
(* The invariant of types, gates and owners.                               *)

\* The stamps there can be while the log is at stroke n.
Stamp(n) == [sid : {s \in 0 .. StrokeMod - 1 : s <= n}, saved : SUBSET AllFlags]

PreviewType ==
  [active : BOOLEAN, baseline : Nat,
   rows : UNION {[D -> Rows] : D \in SUBSET Elems}, gated : SUBSET Elems]
ClientType ==
  [mode : Modes \cup {"closed"}, style : Styles \cup {{}},
   dab : {"idle", "topo", "deform"}, committed : BOOLEAN]

\* Steps of which only the open one, the one after done, has an active chunk.
StepsGood(es, done, open) ==
  \A n \in DOMAIN es : GoodEntry(es[n]) /\ (es[n].topo # 0 => open /\ n = done + 1)

\* The types, with the stamps bounded by the stroke.
Typed ==
  /\ mesh \in Mesh(Stamp(strokeId))
  /\ active \in Elems \cup {NoElem}
  /\ StepsGood(entries, curStep, Open)
  /\ strokeId \in 0 .. MaxStrokes
  /\ stamps \subseteq Elems
  /\ preview \in PreviewType
  /\ client \in ClientType

\* A preview is part of an open stroke, and its active chunk is its own.
Previewing ==
  preview.active =>
    /\ Editing /\ client.mode \in Strokes
    /\ "preview" \in client.style /\ ~client.committed
    /\ preview.baseline <= Len(cur.chunks)
    /\ cur.topo # 0 => cur.topo > preview.baseline

\* Between the dabs of a stroke the active chunk is the last and has nothing.
Between ==
  /\ Editing /\ client.mode \in Strokes
  /\ client.dab = "idle" /\ ~preview.active /\ ~client.committed
Fresh ==
  Between /\ cur.topo # 0 => cur.topo = Len(cur.chunks) /\ cur.chunks[cur.topo].recs = <<>>

\* Only a stroke's step is finalized before it ends.
Unsealed == Open /\ client.mode \notin Strokes => ~cur.finalized

\* What the gate says is saved of an element is in one of the chunks K.
Vouched(i, K) ==
  mesh.gate[i].sid = Sid =>
    \A c \in mesh.gate[i].saved \cap DataCols : \E k \in K : Evidence(cur.chunks[k], i, c)

\* And outside the preview, unless the preview had the element first.
Honest ==
  strokeId < StrokeMod /\ Editing =>
    \A i \in mesh.live :
      /\ Vouched(i, DOMAIN cur.chunks)
      /\ preview.active /\ i \notin preview.gated
           => Vouched(i, DOMAIN cur.chunks \ PreviewChunks(cur))

\* A stroke that makes previews and real dabs.
Mixing == client.style = {"real", "preview"}

\* Only dyntopo makes records, and one that previews only in its previews.
Owned ==
  Editing /\ client.mode \in Strokes =>
    /\ ~Mixing =>
         \A i \in mesh.live : (\E k \in DOMAIN cur.chunks : Recorded(cur.chunks[k], i))
                                => ~NeedsData(mesh, i, AllFlags)
    /\ client.mode = "brush" => cur.topo = 0
    /\ \A k \in DOMAIN cur.chunks, i \in Elems : Recorded(cur.chunks[k], i) =>
         /\ client.mode = "dyntopo"
         /\ \/ "real" \in client.style \/ client.committed
            \/ preview.active /\ k > preview.baseline

FullInv == IInv /\ Typed /\ Previewing /\ Fresh /\ Unsealed /\ Honest /\ Owned

LEMMA StampFacts ==
  ASSUME strokeId \in Nat
  PROVE  /\ NoStamp \in Stamp(strokeId) /\ Sid \in 0 .. StrokeMod - 1 /\ Sid <= strokeId
         /\ strokeId < StrokeMod => Sid = strokeId
<1>1. StrokeMod \in Nat \ {0}
  BY MeshLogAssumption
<1>2. Sid \in 0 .. StrokeMod - 1 /\ Sid <= strokeId /\ (strokeId < StrokeMod => Sid = strokeId)
  BY <1>1 DEF Sid
<1>3. 0 \in 0 .. StrokeMod - 1 /\ 0 <= strokeId
  BY <1>1
<1> QED BY <1>2, <1>3 DEF NoStamp, Stamp

\* The stamps of a stroke are those of the next, too.
LEMMA StampGrows ==
  ASSUME NEW n \in Nat, NEW m \in Mesh(Stamp(n))
  PROVE  m \in Mesh(Stamp(n + 1))
<1>1. StrokeMod \in Nat
  BY MeshLogAssumption
<1>2. \A s \in 0 .. StrokeMod - 1 : s <= n => s <= n + 1
  BY <1>1
<1>3. Stamp(n) \subseteq Stamp(n + 1)
  BY <1>2 DEF Stamp
<1> HIDE DEF Stamp
<1> QED BY <1>3 DEF Mesh

LEMMA UpdateTyped ==
  ASSUME strokeId \in Nat, NEW m \in Mesh(Stamp(strokeId)), NEW i \in Elems,
         NEW flags \in SUBSET AllFlags
  PROVE  LET u == UpdateSaved(m, i, flags)
         IN  /\ u \in Mesh(Stamp(strokeId)) /\ u.live = m.live /\ u.data = m.data
             /\ u.gate[i].sid = Sid /\ flags \subseteq u.gate[i].saved
             /\ \A c \in u.gate[i].saved : c \in flags \/ (m.gate[i].sid = Sid /\ c \in m.gate[i].saved)
             /\ m.gate[i].sid = Sid => m.gate[i].saved \subseteq u.gate[i].saved
             /\ \A j \in Elems : j # i => u.gate[j] = m.gate[j]
<1> DEFINE old == m.gate[i]
           x == [sid |-> Sid, saved |-> flags \cup IF old.sid = Sid THEN old.saved ELSE {}]
           g == [m.gate EXCEPT ![i] = x]
           u == UpdateSaved(m, i, flags)
<1>1. m.gate \in [Elems -> Stamp(strokeId)] /\ m.live \subseteq Elems /\ m.data \in [Elems -> Rows]
  BY DEF Mesh
<1>2. old \in Stamp(strokeId)
  BY <1>1
<1>3. x \in Stamp(strokeId)
  BY <1>2, StampFacts DEF Stamp
<1>4. /\ x.sid = Sid /\ flags \subseteq x.saved
      /\ \A c \in x.saved : c \in flags \/ (old.sid = Sid /\ c \in old.saved)
      /\ old.sid = Sid => old.saved \subseteq x.saved
  OBVIOUS
<1>5. u = [m EXCEPT !.gate = g]
  BY DEF UpdateSaved
<1> HIDE DEF x
<1>6. g \in [Elems -> Stamp(strokeId)] /\ g[i] = x /\ \A j \in Elems : j # i => g[j] = m.gate[j]
  BY <1>1, <1>3
<1> HIDE DEF g, u
<1>7. u \in Mesh(Stamp(strokeId)) /\ u.live = m.live /\ u.data = m.data /\ u.gate = g
  BY <1>5, <1>6 DEF Mesh
<1> QED BY <1>4, <1>6, <1>7 DEF u

\* Writing an element's data leaves the gates.
LEMMA DataTyped ==
  ASSUME NEW G, NEW m \in Mesh(G), NEW i \in Elems, NEW row \in Rows
  PROVE  LET w == [m EXCEPT !.data[i] = row]
         IN  w \in Mesh(G) /\ w.live = m.live /\ w.gate = m.gate
<1> DEFINE d == [m.data EXCEPT ![i] = row]
           w == [m EXCEPT !.data[i] = row]
<1>1. d \in [Elems -> Rows]
  BY DEF Mesh
<1>2. w = [m EXCEPT !.data = d]
  OBVIOUS
<1> HIDE DEF d, w
<1>3. w \in Mesh(G) /\ w.live = m.live /\ w.gate = m.gate
  BY <1>1, <1>2 DEF Mesh
<1> QED BY <1>3 DEF w

LEMMA KeepsFewer ==
  ASSUME NEW e, NEW f, NEW S, NEW T, Keeps(e, f, S), T \subseteq S
  PROVE  Keeps(e, f, T)
BY DEF Keeps

-----------------------------------------------------------------------------
(* A handler's edit of the open step.                                      *)

\* The open step becomes w, with records that are new only of the elements T.
EditsLog(w, T) ==
  /\ Editing /\ UNCHANGED <<active, curStep, strokeId>>
  /\ entries' = [entries EXCEPT ![curStep + 1] = w]
  /\ GoodEntry(w) /\ ~w.finalized
  /\ w.topo = cur.topo \/ w.topo = Len(cur.chunks) + 1
  /\ Keeps(cur, w, mesh'.live) /\ Adds(cur, w, T)
  /\ mesh' \in Mesh(Stamp(strokeId)) /\ stamps' \subseteq Elems
  /\ preview' \in PreviewType /\ preview.gated \subseteq preview'.gated
  /\ preview'.active = preview.active /\ preview'.baseline = preview.baseline
  /\ client' \in ClientType
  /\ client'.mode = client.mode /\ client'.style = client.style
  /\ client'.committed = client.committed

\* What the gate says anew is saved, w has: in a record, and then the preview
\* has the element, or in a row.
EditsGates(w, T) ==
  /\ \A i \in mesh'.live : mesh'.gate[i].sid = Sid =>
       \A c \in mesh'.gate[i].saved \cap DataCols :
         \/ i \in mesh.live /\ mesh.gate[i].sid = Sid /\ c \in mesh.gate[i].saved
         \/ \E k \in DOMAIN w.chunks :
              /\ Evidence(w.chunks[k], i, c)
              /\ preview.active => i \in preview'.gated \/ w.chunks[k].kind # "topo"

\* What has new records is gated, and nothing else loses its gate.
EditsOwners(w, T) ==
  client.mode \in Strokes =>
    /\ \A i \in mesh'.live :
         \/ i \in T /\ ~NeedsData(mesh', i, AllFlags)
         \/ /\ i \in mesh.live /\ i \notin T
            /\ NeedsData(mesh', i, AllFlags) => NeedsData(mesh, i, AllFlags)
    /\ T # {} => client.mode = "dyntopo" /\ ("real" \in client.style \/ preview.active)
    /\ client.mode = "brush" => w.topo = 0
    /\ client'.dab = "idle" /\ ~preview.active /\ ~client.committed /\ w.topo # 0
         => w.topo = Len(w.chunks) /\ w.chunks[w.topo].recs = <<>>

Edits(w, T) == EditsLog(w, T) /\ EditsGates(w, T) /\ EditsOwners(w, T)

\* The open step is the one that ends the list.
LEMMA CurFacts ==
  ASSUME FullInv, Open
  PROVE  /\ curStep \in Nat /\ Len(entries) = curStep + 1 /\ DOMAIN entries = 1 .. curStep + 1
         /\ GoodEntry(cur) /\ Listed(entries)
<1>1. curStep \in Nat /\ Len(entries) = curStep + 1 /\ DOMAIN entries = 1 .. curStep + 1 /\ Listed(entries)
  BY ListFacts DEF FullInv, IInv
<1>2. curStep + 1 \in DOMAIN entries
  BY <1>1
<1> QED BY <1>1, <1>2 DEF FullInv, Typed, StepsGood, cur

LEMMA EditCur ==
  ASSUME FullInv, NEW w, NEW T, EditsLog(w, T)
  PROVE  cur' = w /\ Editing' /\ Sid' = Sid
<1>1. curStep + 1 \in DOMAIN entries
  BY CurFacts DEF EditsLog, Editing
<1>2. cur' = w
  BY <1>1 DEF EditsLog, cur
<1> QED BY <1>2 DEF EditsLog, Editing, Open, Sid

LEMMA EditTyped ==
  ASSUME FullInv, NEW w, NEW T, EditsLog(w, T)
  PROVE  Typed'
<1>1. DOMAIN entries' = DOMAIN entries /\ \A n \in DOMAIN entries : n # curStep + 1 => entries'[n] = entries[n]
  BY DEF EditsLog
<1>2. curStep + 1 \in DOMAIN entries /\ entries'[curStep + 1] = w /\ Open /\ Open'
  BY CurFacts DEF EditsLog, Editing, Open
<1>3. StepsGood(entries', curStep', Open')
  <2> SUFFICES ASSUME NEW n \in DOMAIN entries
               PROVE  GoodEntry(entries'[n]) /\ (entries'[n].topo # 0 => n = curStep + 1)
    BY <1>1, <1>2 DEF EditsLog, StepsGood
  <2>1. CASE n = curStep + 1
    BY <1>2, <2>1 DEF EditsLog
  <2>2. CASE n # curStep + 1
    BY <1>1, <2>2 DEF FullInv, Typed, StepsGood
  <2> QED BY <2>1, <2>2
<1> QED BY <1>3 DEF Typed, EditsLog, FullInv

LEMMA EditPreviewing ==
  ASSUME FullInv, NEW w, NEW T, EditsLog(w, T)
  PROVE  Previewing'
<1> SUFFICES ASSUME preview.active
             PROVE  /\ preview.baseline <= Len(w.chunks)
                    /\ w.topo # 0 => w.topo > preview.baseline
  <2>1. cur' = w /\ Editing'
    BY EditCur
  <2>2. /\ preview'.active = preview.active /\ preview'.baseline = preview.baseline
        /\ client'.mode = client.mode /\ client'.style = client.style
        /\ client'.committed = client.committed
    BY DEF EditsLog
  <2>3. Previewing
    BY DEF FullInv
  <2> QED BY <2>1, <2>2, <2>3 DEF Previewing
<1>1. /\ preview.baseline \in Nat /\ preview.baseline <= Len(cur.chunks)
      /\ cur.topo # 0 => cur.topo > preview.baseline
  BY DEF FullInv, Previewing, Typed, PreviewType
<1>2. /\ Len(cur.chunks) \in Nat /\ DOMAIN cur.chunks = 1 .. Len(cur.chunks)
      /\ Len(w.chunks) \in Nat /\ DOMAIN w.chunks = 1 .. Len(w.chunks)
  BY CurFacts, EntryFields DEF EditsLog, Editing
<1>3. Len(cur.chunks) <= Len(w.chunks)
  <2>1. \A k \in 1 .. Len(cur.chunks) : k \in 1 .. Len(w.chunks)
    BY <1>2 DEF EditsLog, Keeps
  <2>2. Len(cur.chunks) = 0 \/ Len(cur.chunks) \in 1 .. Len(cur.chunks)
    BY <1>2
  <2> QED BY <1>2, <2>1, <2>2
<1> QED BY <1>1, <1>2, <1>3 DEF EditsLog

LEMMA EditHonest ==
  ASSUME FullInv, NEW w, NEW T, EditsLog(w, T), EditsGates(w, T)
  PROVE  Honest'
<1>0. cur' = w /\ Sid' = Sid /\ Editing
  BY EditCur DEF EditsLog
<1> SUFFICES ASSUME strokeId < StrokeMod, NEW i \in mesh'.live, mesh'.gate[i].sid = Sid,
                    NEW c \in mesh'.gate[i].saved \cap DataCols
             PROVE  /\ \E k \in DOMAIN w.chunks : Evidence(w.chunks[k], i, c)
                    /\ preview.active /\ i \notin preview'.gated =>
                         \E k \in DOMAIN w.chunks \ PreviewChunks(w)' : Evidence(w.chunks[k], i, c)
  <2>1. strokeId' = strokeId /\ preview'.active = preview.active
    BY DEF EditsLog
  <2>2. PreviewChunks(cur)' = PreviewChunks(w)'
    BY <1>0 DEF PreviewChunks
  <2> QED BY <1>0, <2>1, <2>2 DEF Honest, Vouched, Evidence, Recorded
<1>1. PreviewChunks(w)' = {k \in DOMAIN w.chunks : k > preview.baseline /\ w.chunks[k].kind = "topo"}
  BY DEF PreviewChunks, EditsLog
<1>2. CASE i \in mesh.live /\ mesh.gate[i].sid = Sid /\ c \in mesh.gate[i].saved
  <2>1. \E k \in DOMAIN cur.chunks : Evidence(cur.chunks[k], i, c)
    BY <1>0, <1>2 DEF FullInv, Honest, Vouched
  <2>2. preview.active /\ i \notin preview'.gated =>
          \E k \in DOMAIN cur.chunks \ PreviewChunks(cur) : Evidence(cur.chunks[k], i, c)
    BY <1>0, <1>2 DEF FullInv, Honest, Vouched, EditsLog
  <2>3. \A k \in DOMAIN cur.chunks :
          /\ k \in DOMAIN w.chunks /\ w.chunks[k].kind = cur.chunks[k].kind
          /\ Evidence(cur.chunks[k], i, c) => Evidence(w.chunks[k], i, c)
    BY DEF EditsLog, Keeps
  <2>4. \A k \in DOMAIN cur.chunks \ PreviewChunks(cur) : k \in DOMAIN w.chunks \ PreviewChunks(w)'
    BY <1>1, <2>3 DEF PreviewChunks
  <2> QED BY <2>1, <2>2, <2>3, <2>4
<1>3. ASSUME NEW k \in DOMAIN w.chunks, Evidence(w.chunks[k], i, c),
             preview.active => i \in preview'.gated \/ w.chunks[k].kind # "topo"
      PROVE  /\ \E n \in DOMAIN w.chunks : Evidence(w.chunks[n], i, c)
             /\ preview.active /\ i \notin preview'.gated =>
                  \E n \in DOMAIN w.chunks \ PreviewChunks(w)' : Evidence(w.chunks[n], i, c)
  BY <1>1, <1>3
<1> QED BY <1>2, <1>3 DEF EditsGates

LEMMA EditOwned ==
  ASSUME FullInv, NEW w, NEW T, EditsLog(w, T), EditsOwners(w, T), client.mode \in Strokes
  PROVE  Owned'
<1>0. cur' = w /\ Sid' = Sid /\ Editing
  BY EditCur DEF EditsLog
<1>1. \A k \in DOMAIN w.chunks, i \in Elems : Recorded(w.chunks[k], i) =>
        \/ k \in DOMAIN cur.chunks /\ Recorded(cur.chunks[k], i)
        \/ k = w.topo /\ i \in T
  BY DEF EditsLog, Adds
<1>2. ~Mixing => \A i \in mesh'.live :
        (\E k \in DOMAIN w.chunks : Recorded(w.chunks[k], i)) => ~NeedsData(mesh', i, AllFlags)
  <2> SUFFICES ASSUME ~Mixing, NEW i \in mesh'.live, NEW k \in DOMAIN w.chunks, Recorded(w.chunks[k], i),
                      NeedsData(mesh', i, AllFlags)
               PROVE  FALSE
    OBVIOUS
  <2>1. i \in Elems
    BY DEF EditsLog, Mesh
  <2>2. i \in mesh.live /\ i \notin T /\ NeedsData(mesh, i, AllFlags)
    BY DEF EditsOwners
  <2>3. k \in DOMAIN cur.chunks /\ Recorded(cur.chunks[k], i)
    BY <1>1, <2>1, <2>2
  <2> QED BY <1>0, <2>2, <2>3 DEF FullInv, Owned
<1>3. \A k \in DOMAIN w.chunks, i \in Elems : Recorded(w.chunks[k], i) =>
         /\ client.mode = "dyntopo"
         /\ \/ "real" \in client.style \/ client.committed
            \/ preview.active /\ k > preview.baseline
  <2> SUFFICES ASSUME NEW k \in DOMAIN w.chunks, NEW i \in Elems, Recorded(w.chunks[k], i)
               PROVE  /\ client.mode = "dyntopo"
                      /\ \/ "real" \in client.style \/ client.committed
                         \/ preview.active /\ k > preview.baseline
    OBVIOUS
  <2>1. CASE k \in DOMAIN cur.chunks /\ Recorded(cur.chunks[k], i)
    BY <1>0, <2>1 DEF FullInv, Owned
  <2>2. CASE k = w.topo /\ i \in T
    <3>1. client.mode = "dyntopo" /\ ("real" \in client.style \/ preview.active)
      BY <2>2 DEF EditsOwners
    <3>2. w.topo # 0
      BY <2>2, EntryFields DEF EditsLog
    <3>3. preview.active => w.topo > preview.baseline
      BY <1>0, <3>2, EditPreviewing DEF Previewing, EditsLog
    <3> QED BY <2>2, <3>1, <3>3
  <2> QED BY <1>1, <2>1, <2>2
<1>4. client.mode = "brush" => w.topo = 0
  BY DEF EditsOwners
<1>5. \A i : NeedsData(mesh, i, AllFlags)' <=> NeedsData(mesh', i, AllFlags)
  BY <1>0 DEF NeedsData
<1>6. Mixing' <=> Mixing
  BY DEF Mixing, EditsLog
<1>7. \A k, i : Recorded(w.chunks[k], i) <=> Recorded(cur.chunks[k], i)'
  BY <1>0 DEF Recorded
<1>8. UNCHANGED <<preview.active, preview.baseline, client.mode, client.style, client.committed>>
  BY DEF EditsLog
<1> QED BY <1>0, <1>2, <1>3, <1>4, <1>5, <1>6, <1>7, <1>8 DEF Owned

LEMMA EditInv ==
  ASSUME FullInv, IInv', NEW w, NEW T, Edits(w, T)
  PROVE  FullInv'
<1>1. cur' = w /\ Editing /\ Editing'
  BY EditCur DEF Edits, EditsLog
<1>2. Typed' /\ Previewing' /\ Honest'
  BY EditTyped, EditPreviewing, EditHonest DEF Edits
<1>3. Fresh'
  BY <1>1 DEF Fresh, Between, Edits, EditsLog, EditsOwners
<1>4. Owned'
  <2>1. CASE client.mode \in Strokes
    BY <2>1, EditOwned DEF Edits
  <2>2. CASE client.mode \notin Strokes
    BY <2>2 DEF Owned, Edits, EditsLog
  <2> QED BY <2>1, <2>2
<1>5. Unsealed'
  BY <1>1 DEF Unsealed, Editing
<1> QED BY <1>2, <1>3, <1>4, <1>5 DEF FullInv

-----------------------------------------------------------------------------
(* The handlers that edit the open step.                                   *)

LEMMA DabbingTyped ==
  ASSUME client \in ClientType, NEW step \in {"idle", "topo", "deform"}, Dabbing(step)
  PROVE  /\ client' \in ClientType /\ client'.mode = client.mode /\ client'.style = client.style
         /\ client'.committed = client.committed
         /\ client'.dab = IF client.mode = "dyntopo" THEN step ELSE client.dab
<1>1. client' = [client EXCEPT !.dab = IF client.mode = "dyntopo" THEN step ELSE client.dab]
  BY DEF Dabbing
<1> QED BY <1>1 DEF ClientType

LEMMA GatedTyped ==
  ASSUME preview \in PreviewType, NEW m, NEW i \in Elems
  PROVE  LET g == Gated(m, i)
         IN  /\ g \in PreviewType /\ g.active = preview.active /\ g.baseline = preview.baseline
             /\ g.rows = preview.rows /\ preview.gated \subseteq g.gated
             /\ preview.active /\ NeedsData(m, i, AllFlags) => i \in g.gated
<1> DEFINE x == preview.gated \cup IF preview.active /\ NeedsData(m, i, AllFlags) THEN {i} ELSE {}
<1>1. Gated(m, i) = [preview EXCEPT !.gated = x]
  BY DEF Gated
<1>2. x \in SUBSET Elems /\ preview.gated \subseteq x
      /\ (preview.active /\ NeedsData(m, i, AllFlags) => i \in x)
  BY DEF PreviewType
<1> HIDE DEF x
<1> QED BY <1>1, <1>2 DEF PreviewType

\* The mesh and the open step as the handlers find them.
LEMMA HandlerFacts ==
  ASSUME FullInv, Editing
  PROVE  /\ strokeId \in Nat /\ mesh \in Mesh(Stamp(strokeId)) /\ NoStamp \in Stamp(strokeId)
         /\ GoodEntry(cur) /\ ~cur.finalized
         /\ stamps \subseteq Elems /\ preview \in PreviewType /\ client \in ClientType
<1>1. strokeId \in Nat
  BY MeshLogAssumption DEF FullInv, Typed
<1> QED BY <1>1, CurFacts, StampFacts DEF FullInv, Typed, Editing

LEMMA TouchFacts ==
  ASSUME FullInv, MayTouch
  PROVE  /\ Editing
         /\ client.mode \in Strokes =>
              client.mode = "dyntopo" /\ ("real" \in client.style \/ preview.active)
<1>1. Open
  BY DEF MayTouch, Open
<1>2. ~cur.finalized
  BY <1>1 DEF MayTouch, FullInv, Unsealed, Strokes
<1> QED BY <1>1, <1>2 DEF Editing, MayTouch, MayDab, Strokes

\* The open step with the active chunk's records replaced.
LEMMA RecordStep ==
  ASSUME FullInv, Editing, NEW recs, NEW S \in SUBSET Elems, NEW T,
         Follows(GetTopoChunk(cur, mesh).chunks[GetTopoChunk(cur, mesh).topo].recs, recs, S, T)
  PROVE  LET e == GetTopoChunk(cur, mesh)
             w == [e EXCEPT !.chunks[e.topo].recs = recs]
         IN  /\ GoodEntry(w) /\ ~w.finalized
             /\ w.topo = cur.topo \/ w.topo = Len(cur.chunks) + 1
             /\ w.topo \in DOMAIN w.chunks /\ w.chunks[w.topo].kind = "topo"
             /\ w.chunks[w.topo].recs = recs
             /\ Keeps(cur, w, S) /\ Adds(cur, w, T)
<1> DEFINE e == GetTopoChunk(cur, mesh)
           w == [e EXCEPT !.chunks[e.topo].recs = recs]
<1>1. /\ GoodEntry(e) /\ ~e.finalized /\ e.topo # 0
      /\ e.topo = cur.topo \/ e.topo = Len(cur.chunks) + 1
      /\ Keeps(cur, e, Elems) /\ Adds(cur, e, {})
  BY HandlerFacts, GetTyped
<1>2. Follows(e.chunks[e.topo].recs, recs, S, T)
  OBVIOUS
<1> HIDE DEF e
<1>3. /\ GoodEntry(w) /\ ~w.finalized /\ w.topo = e.topo
      /\ w.chunks[w.topo].kind = "topo" /\ w.chunks[w.topo].recs = recs
      /\ Keeps(e, w, S) /\ Adds(e, w, T)
  BY <1>1, <1>2, RecordsTyped
<1> HIDE DEF w
<1>4. Keeps(cur, w, S)
  BY <1>1, <1>3, KeepsFewer, KeepsTwice
<1>5. Adds(cur, w, T)
  <2>1. Adds(cur, w, {} \cup T)
    BY <1>1, <1>3, AddsTwice
  <2> QED BY <2>1
<1>6. w.topo \in DOMAIN w.chunks
  BY <1>1, <1>3 DEF GoodEntry
<1> QED BY <1>1, <1>3, <1>4, <1>5, <1>6 DEF w, e

\* There are records to replace.
LEMMA GetRecords ==
  ASSUME FullInv, Editing
  PROVE  GetTopoChunk(cur, mesh).chunks[GetTopoChunk(cur, mesh).topo].recs \in Seq(RecordType)
<1> DEFINE e == GetTopoChunk(cur, mesh)
<1>1. GoodEntry(e) /\ e.topo # 0
  BY HandlerFacts, GetTyped
<1> HIDE DEF e
<1>2. e.chunks[e.topo] \in TopoChunk
  BY <1>1, EntryFields, ChunkKinds DEF GoodEntry
<1>3. e.chunks[e.topo].recs \in Seq(RecordType)
  BY <1>2 DEF TopoChunk
<1> QED BY <1>3 DEF e

LEMMA TopoCreateFull ==
  ASSUME FullInv, IInv', NEW i \in Elems, NEW row \in Rows, TopoCreate(i, row)
  PROVE  FullInv'
<1> DEFINE e == GetTopoChunk(cur, mesh)
           recs == OnCreate(e.chunks[e.topo].recs, i)
           w == [e EXCEPT !.chunks[e.topo].recs = recs]
           a == Alloc(mesh, i)
           m == [a EXCEPT !.data[i] = row]
<1>0. Editing /\ (client.mode \in Strokes =>
        client.mode = "dyntopo" /\ ("real" \in client.style \/ preview.active))
  BY TouchFacts DEF TopoCreate
<1>1. /\ entries' = [entries EXCEPT ![curStep + 1] = w] /\ mesh' = UpdateSaved(m, i, AllFlags)
      /\ preview' = Gated(m, i) /\ stamps' = FreshStamps(cur) \cup {i} /\ Dabbing("topo")
      /\ UNCHANGED <<active, curStep, strokeId>> /\ i \notin mesh.live
  BY DEF TopoCreate, SetCur
<1>2. e.chunks[e.topo].recs \in Seq(RecordType)
  BY <1>0, GetRecords
<1>3. Follows(e.chunks[e.topo].recs, recs, Elems, {i}) /\ \E n \in DOMAIN recs : recs[n].idx = i
  BY <1>2, CreateFollows
<1>4. /\ GoodEntry(w) /\ ~w.finalized
      /\ w.topo = cur.topo \/ w.topo = Len(cur.chunks) + 1
      /\ w.topo \in DOMAIN w.chunks /\ w.chunks[w.topo].kind = "topo"
      /\ w.chunks[w.topo].recs = recs
      /\ Keeps(cur, w, Elems) /\ Adds(cur, w, {i})
  <2> HIDE DEF recs
  <2> QED BY <1>0, <1>3, RecordStep
<1> HIDE DEF w, recs, e
<1>5. Recorded(w.chunks[w.topo], i)
  BY <1>3, <1>4 DEF Recorded
<1>6. /\ strokeId \in Nat /\ mesh \in Mesh(Stamp(strokeId)) /\ NoStamp \in Stamp(strokeId)
      /\ stamps \subseteq Elems /\ preview \in PreviewType /\ client \in ClientType
  BY <1>0, HandlerFacts
<1>7. /\ m \in Mesh(Stamp(strokeId)) /\ m.live = mesh.live \cup {i} /\ m.gate[i] = NoStamp
      /\ \A j \in Elems : j # i => m.gate[j] = mesh.gate[j]
  <2>1. /\ a \in Mesh(Stamp(strokeId)) /\ a.live = mesh.live \cup {i} /\ a.gate[i] = NoStamp
        /\ \A j \in Elems : j # i => a.gate[j] = mesh.gate[j]
    BY <1>6, AllocTyped
  <2> HIDE DEF a
  <2> QED BY <2>1, DataTyped
<1> HIDE DEF m
<1>8. /\ mesh' \in Mesh(Stamp(strokeId)) /\ mesh'.live = mesh.live \cup {i}
      /\ mesh'.gate[i].sid = Sid /\ AllFlags \subseteq mesh'.gate[i].saved
      /\ \A j \in Elems : j # i => mesh'.gate[j] = mesh.gate[j]
  BY <1>1, <1>6, <1>7, UpdateTyped
<1>9. NeedsData(m, i, AllFlags)
  BY <1>7 DEF NeedsData, NoStamp, AllFlags
<1>10. /\ preview' \in PreviewType /\ preview.gated \subseteq preview'.gated
       /\ preview'.active = preview.active /\ preview'.baseline = preview.baseline
       /\ preview.active => i \in preview'.gated
  BY <1>1, <1>6, <1>9, GatedTyped
<1>11. /\ client' \in ClientType /\ client'.mode = client.mode /\ client'.style = client.style
       /\ client'.committed = client.committed /\ (client.mode = "dyntopo" => client'.dab = "topo")
  BY <1>1, <1>6, DabbingTyped
<1>12. mesh'.live \subseteq Elems /\ stamps' \subseteq Elems
  BY <1>1, <1>6, <1>8 DEF Mesh, FreshStamps
<1>13. EditsLog(w, {i})
  BY <1>0, <1>1, <1>4, <1>8, <1>10, <1>11, <1>12, KeepsFewer DEF EditsLog
<1>14. EditsGates(w, {i})
  <2> SUFFICES ASSUME NEW j \in mesh'.live, mesh'.gate[j].sid = Sid,
                      NEW c \in mesh'.gate[j].saved \cap DataCols
               PROVE  \/ j \in mesh.live /\ mesh.gate[j].sid = Sid /\ c \in mesh.gate[j].saved
                      \/ \E k \in DOMAIN w.chunks :
                           /\ Evidence(w.chunks[k], j, c)
                           /\ preview.active => j \in preview'.gated \/ w.chunks[k].kind # "topo"
    BY DEF EditsGates
  <2>1. CASE j = i
    BY <1>4, <1>5, <1>10, <2>1 DEF Evidence
  <2>2. CASE j # i
    BY <1>8, <1>12, <2>2
  <2> QED BY <2>1, <2>2
<1>15. EditsOwners(w, {i})
  <2>1. ASSUME NEW j \in mesh'.live
        PROVE  \/ j \in {i} /\ ~NeedsData(mesh', j, AllFlags)
               \/ /\ j \in mesh.live /\ j \notin {i}
                  /\ NeedsData(mesh', j, AllFlags) => NeedsData(mesh, j, AllFlags)
    BY <1>8, <1>12 DEF NeedsData
  <2> QED BY <1>0, <1>11, <2>1 DEF EditsOwners
<1> QED BY <1>13, <1>14, <1>15, EditInv DEF Edits

\* A write that leaves the log alone.
LEMMA WriteFull ==
  ASSUME FullInv, IInv', Editing, NEW i \in Elems, NEW row \in Rows,
         mesh' = [mesh EXCEPT !.data[i] = row],
         UNCHANGED <<active, entries, curStep, strokeId, stamps, preview>>,
         client' \in ClientType, client'.mode = client.mode, client'.style = client.style,
         client'.committed = client.committed,
         client.mode \in Strokes => client'.dab # "idle"
  PROVE  FullInv'
<1>1. /\ strokeId \in Nat /\ mesh \in Mesh(Stamp(strokeId))
      /\ GoodEntry(cur) /\ ~cur.finalized
      /\ stamps \subseteq Elems /\ preview \in PreviewType
  BY HandlerFacts
<1>2. mesh' \in Mesh(Stamp(strokeId)) /\ mesh'.live = mesh.live /\ mesh'.gate = mesh.gate
  BY <1>1, DataTyped
<1>3. curStep + 1 \in DOMAIN entries /\ Listed(entries)
  BY CurFacts DEF Editing
<1>4. entries' = [entries EXCEPT ![curStep + 1] = cur]
  <2>1. entries = [k \in 1 .. Len(entries) |-> entries[k]] /\ DOMAIN entries = 1 .. Len(entries)
    BY <1>3, ListFacts
  <2> QED BY <1>3, <2>1 DEF cur
<1>5. Keeps(cur, cur, mesh'.live) /\ Adds(cur, cur, {})
  BY DEF Keeps, Adds
<1>6. EditsLog(cur, {})
  BY <1>1, <1>2, <1>4, <1>5 DEF EditsLog
<1>7. EditsGates(cur, {})
  BY <1>2 DEF EditsGates
<1>8. EditsOwners(cur, {})
  BY <1>2 DEF EditsOwners, NeedsData, FullInv, Owned
<1> QED BY <1>6, <1>7, <1>8, EditInv DEF Edits

LEMMA TopoChangeFull ==
  ASSUME FullInv, IInv', NEW i \in Elems, NEW row \in Rows, TopoChange(i, row)
  PROVE  FullInv'
<1>0. Editing /\ (client.mode \in Strokes =>
        client.mode = "dyntopo" /\ ("real" \in client.style \/ preview.active))
  BY TouchFacts DEF TopoChange
<1>1. Dabbing("topo") /\ UNCHANGED <<active, curStep, strokeId>> /\ i \in mesh.live
  BY DEF TopoChange
<1>2. /\ strokeId \in Nat /\ mesh \in Mesh(Stamp(strokeId))
      /\ stamps \subseteq Elems /\ preview \in PreviewType /\ client \in ClientType
  BY <1>0, HandlerFacts
<1>3. /\ client' \in ClientType /\ client'.mode = client.mode /\ client'.style = client.style
      /\ client'.committed = client.committed /\ (client.mode = "dyntopo" => client'.dab = "topo")
  BY <1>1, <1>2, DabbingTyped
<1>4. CASE i \in stamps
  <2>1. mesh' = [mesh EXCEPT !.data[i] = row] /\ UNCHANGED <<entries, stamps, preview>>
    BY <1>4 DEF TopoChange
  <2> QED BY <1>0, <1>1, <1>3, <2>1, WriteFull
<1>5. CASE i \notin stamps
  <2> DEFINE e == GetTopoChunk(cur, mesh)
             recs == OnChange(e.chunks[e.topo].recs, i, mesh)
             w == [e EXCEPT !.chunks[e.topo].recs = recs]
             u == UpdateSaved(mesh, i, AllFlags)
  <2>1. /\ entries' = [entries EXCEPT ![curStep + 1] = w] /\ mesh' = [u EXCEPT !.data[i] = row]
        /\ preview' = Gated(mesh, i) /\ stamps' = FreshStamps(cur) \cup {i}
    BY <1>5 DEF TopoChange, SetCur
  <2>2. e.chunks[e.topo].recs \in Seq(RecordType)
    BY <1>0, GetRecords
  <2>3. Follows(e.chunks[e.topo].recs, recs, Elems, {i}) /\ \E n \in DOMAIN recs : recs[n].idx = i
    BY <1>2, <2>2, ChangeFollows
  <2>4. /\ GoodEntry(w) /\ ~w.finalized
        /\ w.topo = cur.topo \/ w.topo = Len(cur.chunks) + 1
        /\ w.topo \in DOMAIN w.chunks /\ w.chunks[w.topo].kind = "topo"
        /\ w.chunks[w.topo].recs = recs
        /\ Keeps(cur, w, Elems) /\ Adds(cur, w, {i})
    <3> HIDE DEF recs
    <3> QED BY <1>0, <2>3, RecordStep
  <2> HIDE DEF w, recs, e
  <2>5. Recorded(w.chunks[w.topo], i)
    BY <2>3, <2>4 DEF Recorded
  <2>6. /\ u \in Mesh(Stamp(strokeId)) /\ u.live = mesh.live
        /\ u.gate[i].sid = Sid /\ AllFlags \subseteq u.gate[i].saved
        /\ \A c \in u.gate[i].saved : c \in AllFlags \/ (mesh.gate[i].sid = Sid /\ c \in mesh.gate[i].saved)
        /\ \A j \in Elems : j # i => u.gate[j] = mesh.gate[j]
    BY <1>2, UpdateTyped
  <2> HIDE DEF u
  <2>7. mesh' \in Mesh(Stamp(strokeId)) /\ mesh'.live = mesh.live /\ mesh'.gate = u.gate
    BY <2>1, <2>6, DataTyped
  <2>8. /\ preview' \in PreviewType /\ preview.gated \subseteq preview'.gated
        /\ preview'.active = preview.active /\ preview'.baseline = preview.baseline
        /\ preview.active /\ NeedsData(mesh, i, AllFlags) => i \in preview'.gated
    BY <1>2, <2>1, GatedTyped
  <2>9. mesh'.live \subseteq Elems /\ stamps' \subseteq Elems
    BY <1>2, <2>1, <2>7 DEF Mesh, FreshStamps
  <2>10. EditsLog(w, {i})
    BY <1>0, <1>1, <1>3, <2>1, <2>4, <2>7, <2>8, <2>9, KeepsFewer DEF EditsLog
  <2>11. EditsGates(w, {i})
    <3> SUFFICES ASSUME NEW j \in mesh'.live, mesh'.gate[j].sid = Sid,
                        NEW c \in mesh'.gate[j].saved \cap DataCols
                 PROVE  \/ j \in mesh.live /\ mesh.gate[j].sid = Sid /\ c \in mesh.gate[j].saved
                        \/ \E k \in DOMAIN w.chunks :
                             /\ Evidence(w.chunks[k], j, c)
                             /\ preview.active => j \in preview'.gated \/ w.chunks[k].kind # "topo"
      BY DEF EditsGates
    <3>1. CASE j = i /\ (preview.active => NeedsData(mesh, i, AllFlags))
      BY <2>4, <2>5, <2>8, <3>1 DEF Evidence
    <3>2. CASE j = i /\ ~NeedsData(mesh, i, AllFlags)
      BY <1>1, <2>6, <2>7, <3>2 DEF NeedsData
    <3>3. CASE j # i
      BY <2>6, <2>7, <2>9, <3>3
    <3> QED BY <3>1, <3>2, <3>3
  <2>12. EditsOwners(w, {i})
    <3>1. ASSUME NEW j \in mesh'.live
          PROVE  \/ j \in {i} /\ ~NeedsData(mesh', j, AllFlags)
                 \/ /\ j \in mesh.live /\ j \notin {i}
                    /\ NeedsData(mesh', j, AllFlags) => NeedsData(mesh, j, AllFlags)
      BY <2>6, <2>7, <2>9 DEF NeedsData
    <3> QED BY <1>0, <1>3, <3>1 DEF EditsOwners
  <2> QED BY <2>10, <2>11, <2>12, EditInv DEF Edits
<1> QED BY <1>4, <1>5

LEMMA TopoKillFull ==
  ASSUME FullInv, IInv', NEW i \in Elems, TopoKill(i)
  PROVE  FullInv'
<1> DEFINE e == GetTopoChunk(cur, mesh)
           recs == OnKill(e.chunks[e.topo].recs, i, mesh)
           w == [e EXCEPT !.chunks[e.topo].recs = recs]
<1>0. Editing /\ (client.mode \in Strokes =>
        client.mode = "dyntopo" /\ ("real" \in client.style \/ preview.active))
  BY TouchFacts DEF TopoKill
<1>1. /\ entries' = [entries EXCEPT ![curStep + 1] = w] /\ mesh' = Release(mesh, i)
      /\ stamps' = FreshStamps(cur) \ {i} /\ Dabbing("topo")
      /\ UNCHANGED <<active, curStep, strokeId, preview>>
  BY DEF TopoKill, SetCur
<1>2. /\ strokeId \in Nat /\ mesh \in Mesh(Stamp(strokeId))
      /\ stamps \subseteq Elems /\ preview \in PreviewType /\ client \in ClientType
  BY <1>0, HandlerFacts
<1>3. e.chunks[e.topo].recs \in Seq(RecordType)
  BY <1>0, GetRecords
<1>4. Follows(e.chunks[e.topo].recs, recs, Elems \ {i}, {i})
  BY <1>2, <1>3, KillFollows
<1>5. /\ GoodEntry(w) /\ ~w.finalized
      /\ w.topo = cur.topo \/ w.topo = Len(cur.chunks) + 1
      /\ Keeps(cur, w, Elems \ {i}) /\ Adds(cur, w, {i})
  <2> HIDE DEF recs
  <2> QED BY <1>0, <1>4, RecordStep
<1> HIDE DEF w, recs, e
<1>6. /\ mesh' \in Mesh(Stamp(strokeId)) /\ mesh'.live = mesh.live \ {i}
      /\ mesh'.gate = mesh.gate
  BY <1>1, <1>2, ReleaseTyped
<1>7. /\ client' \in ClientType /\ client'.mode = client.mode /\ client'.style = client.style
      /\ client'.committed = client.committed /\ (client.mode = "dyntopo" => client'.dab = "topo")
  BY <1>1, <1>2, DabbingTyped
<1>8. mesh'.live \subseteq Elems \ {i} /\ stamps' \subseteq Elems
  BY <1>1, <1>2, <1>6 DEF Mesh, FreshStamps
<1>9. EditsLog(w, {i})
  BY <1>0, <1>1, <1>2, <1>5, <1>6, <1>7, <1>8, KeepsFewer DEF EditsLog
<1>10. EditsGates(w, {i})
  BY <1>6 DEF EditsGates
<1>11. EditsOwners(w, {i})
  <2>1. ASSUME NEW j \in mesh'.live
        PROVE  /\ j \in mesh.live /\ j \notin {i}
               /\ NeedsData(mesh', j, AllFlags) => NeedsData(mesh, j, AllFlags)
    BY <1>6 DEF NeedsData
  <2> QED BY <1>0, <1>7, <2>1 DEF EditsOwners
<1> QED BY <1>9, <1>10, <1>11, EditInv DEF Edits

\* A data column written.
LEMMA WriteRow ==
  ASSUME NEW m \in Mesh(Stamp(strokeId)), NEW i \in Elems, NEW K, NEW v \in Vals
  PROVE  /\ [c \in Cols |-> IF c \in K THEN v ELSE m.data[i][c]] \in Rows
BY DEF Mesh, Rows

LEMMA DragFull ==
  ASSUME FullInv, IInv', NEW i \in Elems, NEW v \in Vals, Drag(i, v)
  PROVE  FullInv'
<1> DEFINE row == [c \in Cols |-> IF c \in DataCols THEN v ELSE mesh.data[i][c]]
<1>1. client.mode = "op" /\ UNCHANGED <<active, entries, curStep, strokeId, stamps, preview, client>>
  BY DEF Drag, log
<1>2. Editing
  BY <1>1 DEF Editing, Open, FullInv, Unsealed, Strokes
<1>3. mesh \in Mesh(Stamp(strokeId)) /\ client \in ClientType
  BY <1>2, HandlerFacts
<1>4. row \in Rows
  BY <1>3, WriteRow
<1>5. mesh' = [mesh EXCEPT !.data[i] = row]
  BY DEF Drag
<1> HIDE DEF row
<1>6. client.mode \notin Strokes
  BY <1>1 DEF Strokes
<1> QED BY <1>1, <1>2, <1>3, <1>4, <1>5, <1>6, WriteFull

LEMMA SelectFull ==
  ASSUME FullInv, IInv', NEW i \in Elems, NEW v \in Vals, Select(i, v)
  PROVE  FullInv'
<1> DEFINE e == GetTopoChunk(cur, mesh)
           recs == OnChange(e.chunks[e.topo].recs, i, mesh)
           w == [e EXCEPT !.chunks[e.topo].recs = recs]
           row == [c \in Cols |-> IF c \in DataCols THEN v ELSE mesh.data[i][c]]
<1>1. /\ client.mode = "select"
      /\ entries' = [entries EXCEPT ![curStep + 1] = w]
      /\ mesh' = [mesh EXCEPT !.data[i] = row] /\ stamps' = FreshStamps(cur)
      /\ UNCHANGED <<active, curStep, strokeId, preview, client>>
  BY DEF Select, SetCur
<1>2. Editing /\ client.mode \notin Strokes
  BY <1>1 DEF Editing, Open, FullInv, Unsealed, Strokes
<1>3. /\ strokeId \in Nat /\ mesh \in Mesh(Stamp(strokeId))
      /\ stamps \subseteq Elems /\ preview \in PreviewType /\ client \in ClientType
  BY <1>2, HandlerFacts
<1>4. row \in Rows
  BY <1>3, WriteRow
<1> HIDE DEF row
<1>5. e.chunks[e.topo].recs \in Seq(RecordType)
  BY <1>2, GetRecords
<1>6. Follows(e.chunks[e.topo].recs, recs, Elems, {i})
  BY <1>3, <1>5, ChangeFollows
<1>7. /\ GoodEntry(w) /\ ~w.finalized
      /\ w.topo = cur.topo \/ w.topo = Len(cur.chunks) + 1
      /\ Keeps(cur, w, Elems) /\ Adds(cur, w, {i})
  <2> HIDE DEF recs
  <2> QED BY <1>2, <1>6, RecordStep
<1> HIDE DEF w, recs, e
<1>8. mesh' \in Mesh(Stamp(strokeId)) /\ mesh'.live = mesh.live /\ mesh'.gate = mesh.gate
  BY <1>1, <1>3, <1>4, DataTyped
<1>9. mesh'.live \subseteq Elems /\ stamps' \subseteq Elems
  BY <1>1, <1>3, <1>8 DEF Mesh, FreshStamps
<1>10. EditsLog(w, {i})
  BY <1>1, <1>2, <1>3, <1>7, <1>8, <1>9, KeepsFewer DEF EditsLog
<1>11. EditsGates(w, {i})
  BY <1>8 DEF EditsGates
<1>12. EditsOwners(w, {i})
  BY <1>2 DEF EditsOwners
<1> QED BY <1>10, <1>11, <1>12, EditInv DEF Edits

LEMMA SealFull ==
  ASSUME FullInv, IInv', Seal
  PROVE  FullInv'
<1> DEFINE w == PushTopoChunk(cur, mesh)
<1>1. /\ client.mode = "dyntopo" /\ ~cur.finalized
      /\ entries' = [entries EXCEPT ![curStep + 1] = w] /\ stamps' = {}
      /\ client' = [client EXCEPT !.dab = "idle"]
      /\ UNCHANGED <<mesh, active, curStep, strokeId, preview>>
  BY DEF Seal, SetCur
<1>2. Editing
  BY <1>1 DEF Editing, Open
<1>3. /\ strokeId \in Nat /\ mesh \in Mesh(Stamp(strokeId)) /\ GoodEntry(cur)
      /\ preview \in PreviewType /\ client \in ClientType
  BY <1>2, HandlerFacts
<1>4. /\ GoodEntry(w) /\ ~w.finalized /\ Len(w.chunks) = Len(cur.chunks) + 1
      /\ w.topo = Len(cur.chunks) + 1 /\ w.chunks[w.topo] = NewTopo
      /\ Keeps(cur, w, Elems) /\ Adds(cur, w, {})
  BY <1>1, <1>3, PushTyped
<1> HIDE DEF w
<1>5. /\ client' \in ClientType /\ client'.mode = client.mode /\ client'.style = client.style
      /\ client'.committed = client.committed
  BY <1>1, <1>3 DEF ClientType
<1>6. mesh'.live \subseteq Elems
  BY <1>1, <1>3 DEF Mesh
<1>7. EditsLog(w, {})
  BY <1>1, <1>2, <1>3, <1>4, <1>5, <1>6, KeepsFewer DEF EditsLog
<1>8. EditsGates(w, {})
  BY <1>1 DEF EditsGates
<1>9. EditsOwners(w, {})
  BY <1>1, <1>4 DEF EditsOwners, NeedsData, NewTopo
<1> QED BY <1>7, <1>8, <1>9, EditInv DEF Edits

\* A row captured: the columns it saves are in the store, no topology chunk.
LEMMA RowStep ==
  ASSUME FullInv, Editing, NEW i \in Elems, NEW cols \in SUBSET DataCols
  PROVE  LET e == WithColumns(cur, cols)
             w == CaptureRow(e, mesh, i)
         IN  /\ GoodEntry(e) /\ ~e.finalized /\ e.topo = cur.topo
             /\ Keeps(cur, e, Elems) /\ Adds(cur, e, {})
             /\ GoodEntry(w) /\ ~w.finalized /\ w.topo = cur.topo
             /\ Keeps(cur, w, Elems) /\ Adds(cur, w, {})
             /\ \A c \in cols : \E k \in DOMAIN w.chunks :
                  Evidence(w.chunks[k], i, c) /\ w.chunks[k].kind # "topo"
<1> DEFINE e == WithColumns(cur, cols)
           w == CaptureRow(e, mesh, i)
<1>1. GoodEntry(cur) /\ ~cur.finalized /\ mesh \in Mesh(Stamp(strokeId))
  BY HandlerFacts
<1>2. /\ GoodEntry(e) /\ e.finalized = cur.finalized /\ e.topo = cur.topo
      /\ StoreOf(e) # {} /\ (\A k \in StoreOf(e) : cols \subseteq e.chunks[k].cols)
      /\ Keeps(cur, e, Elems) /\ Adds(cur, e, {})
  BY <1>1, ColumnsTyped
<1> HIDE DEF e
<1>3. /\ GoodEntry(w) /\ w.finalized = e.finalized /\ w.topo = e.topo
      /\ Keeps(e, w, Elems) /\ Adds(e, w, {})
      /\ \A k \in StoreOf(e) : k \in DOMAIN w.chunks
           /\ \A c \in e.chunks[k].cols : Evidence(w.chunks[k], i, c)
  BY <1>1, <1>2, CaptureTyped
<1> HIDE DEF w
<1>4. Keeps(cur, w, Elems)
  BY <1>2, <1>3, KeepsTwice
<1>5. Adds(cur, w, {})
  <2>1. Adds(cur, w, {} \cup {})
    BY <1>2, <1>3, AddsTwice
  <2> QED BY <2>1
<1>6. PICK k \in StoreOf(e) : TRUE
  BY <1>2
<1>7. k \in DOMAIN e.chunks /\ e.chunks[k].kind = "elems"
  BY DEF StoreOf
<1>8. k \in DOMAIN w.chunks /\ w.chunks[k].kind # "topo"
        /\ \A c \in cols : Evidence(w.chunks[k], i, c)
  BY <1>2, <1>3, <1>7 DEF Keeps
<1> QED BY <1>1, <1>2, <1>3, <1>4, <1>5, <1>8 DEF w, e

\* A gate that grows for what is captured.
LEMMA CaptureEdit ==
  ASSUME FullInv, Editing, NEW w, NEW i \in Elems, NEW cols \in SUBSET DataCols,
         NEW flags \in SUBSET AllFlags, flags \cap DataCols \subseteq cols,
         \A c \in cols : \E k \in DOMAIN w.chunks :
           Evidence(w.chunks[k], i, c) /\ w.chunks[k].kind # "topo",
         w.topo = cur.topo,
         mesh'.live = mesh.live, mesh'.gate = UpdateSaved(mesh, i, flags).gate,
         client.mode = "dyntopo" => preview.active \/ client'.dab # "idle"
  PROVE  EditsGates(w, {}) /\ EditsOwners(w, {})
<1> DEFINE u == UpdateSaved(mesh, i, flags)
<1>1. strokeId \in Nat /\ mesh \in Mesh(Stamp(strokeId))
  BY HandlerFacts
<1>2. /\ u.gate[i].sid = Sid
      /\ \A c \in u.gate[i].saved : c \in flags \/ (mesh.gate[i].sid = Sid /\ c \in mesh.gate[i].saved)
      /\ mesh.gate[i].sid = Sid => mesh.gate[i].saved \subseteq u.gate[i].saved
      /\ \A j \in Elems : j # i => u.gate[j] = mesh.gate[j]
  BY <1>1, UpdateTyped
<1>3. mesh'.gate = u.gate /\ mesh.live \subseteq Elems
  BY <1>1 DEF Mesh
<1> HIDE DEF u
<1>4. EditsGates(w, {})
  <2> SUFFICES ASSUME NEW j \in mesh.live, mesh'.gate[j].sid = Sid,
                      NEW c \in mesh'.gate[j].saved \cap DataCols
               PROVE  \/ mesh.gate[j].sid = Sid /\ c \in mesh.gate[j].saved
                      \/ \E k \in DOMAIN w.chunks :
                           Evidence(w.chunks[k], j, c) /\ w.chunks[k].kind # "topo"
    BY DEF EditsGates
  <2>1. CASE j = i
    BY <1>2, <1>3, <2>1
  <2>2. CASE j # i
    BY <1>2, <1>3, <2>2
  <2> QED BY <2>1, <2>2
<1>5. EditsOwners(w, {})
  <2>1. ASSUME NEW j \in mesh.live, ~NeedsData(mesh, j, AllFlags)
        PROVE  ~NeedsData(mesh', j, AllFlags)
    <3>1. CASE j = i
      BY <1>2, <1>3, <2>1, <3>1 DEF NeedsData
    <3>2. CASE j # i
      BY <1>2, <1>3, <2>1, <3>2 DEF NeedsData
    <3> QED BY <3>1, <3>2
  <2>2. client.mode = "brush" => w.topo = 0
    BY DEF FullInv, Owned, Strokes
  <2> QED BY <2>1, <2>2 DEF EditsOwners, Strokes
<1> QED BY <1>4, <1>5

\* A gate that stays.
LEMMA PlainEdit ==
  ASSUME FullInv, Editing, NEW w, w.topo = cur.topo,
         mesh'.live = mesh.live, mesh'.gate = mesh.gate,
         client.mode = "dyntopo" => preview.active \/ client'.dab # "idle"
  PROVE  EditsGates(w, {}) /\ EditsOwners(w, {})
BY DEF EditsGates, EditsOwners, NeedsData, FullInv, Owned, Strokes

LEMMA DeformFull ==
  ASSUME FullInv, IInv', NEW i \in Elems, NEW cols \in Kernels, NEW v \in Vals, Deform(i, cols, v)
  PROVE  FullInv'
<1> DEFINE e == WithColumns(cur, cols)
           c == CaptureRow(e, mesh, i)
           w == IF NeedsData(mesh, i, cols) THEN c ELSE e
           u == UpdateSaved(mesh, i, cols)
           m == IF NeedsData(mesh, i, cols) THEN u ELSE mesh
           row(q) == [k \in Cols |-> IF k \in cols THEN v ELSE q.data[i][k]]
<1>0. Editing /\ client.mode \in Strokes /\ cols \in SUBSET DataCols /\ cols \in SUBSET AllFlags
  BY MeshLogAssumption DEF Deform, Editing, Open, Strokes, AllFlags
<1>1. /\ entries' = [entries EXCEPT ![curStep + 1] = w]
      /\ mesh' = [m EXCEPT !.data[i] = row(m)] /\ Dabbing("deform")
      /\ UNCHANGED <<active, curStep, strokeId, stamps, preview>>
  BY DEF Deform, SetCur
<1>2. /\ strokeId \in Nat /\ mesh \in Mesh(Stamp(strokeId))
      /\ stamps \subseteq Elems /\ preview \in PreviewType /\ client \in ClientType
  BY <1>0, HandlerFacts
<1>3. /\ client' \in ClientType /\ client'.mode = client.mode /\ client'.style = client.style
      /\ client'.committed = client.committed /\ (client.mode = "dyntopo" => client'.dab = "deform")
  BY <1>1, <1>2, DabbingTyped
<1>4. /\ GoodEntry(e) /\ ~e.finalized /\ e.topo = cur.topo
      /\ Keeps(cur, e, Elems) /\ Adds(cur, e, {})
      /\ GoodEntry(c) /\ ~c.finalized /\ c.topo = cur.topo
      /\ Keeps(cur, c, Elems) /\ Adds(cur, c, {})
      /\ \A x \in cols : \E k \in DOMAIN c.chunks :
           Evidence(c.chunks[k], i, x) /\ c.chunks[k].kind # "topo"
  BY <1>0, RowStep
<1> HIDE DEF c, e
<1>5. GoodEntry(w) /\ ~w.finalized /\ w.topo = cur.topo /\ Keeps(cur, w, Elems) /\ Adds(cur, w, {})
  BY <1>4
<1>6. u \in Mesh(Stamp(strokeId)) /\ u.live = mesh.live
  BY <1>0, <1>2, UpdateTyped
<1> HIDE DEF u
<1>7. m \in Mesh(Stamp(strokeId)) /\ m.live = mesh.live
  BY <1>2, <1>6
<1>8. row(m) \in Rows
  BY <1>7, WriteRow
<1> HIDE DEF row
<1>9. mesh' \in Mesh(Stamp(strokeId)) /\ mesh'.live = mesh.live /\ mesh'.gate = m.gate
  <2> HIDE DEF m
  <2> QED BY <1>1, <1>7, <1>8, DataTyped
<1>10. mesh'.live \subseteq Elems
  BY <1>9 DEF Mesh
<1>11. EditsLog(w, {})
  <2> HIDE DEF w, m
  <2> QED BY <1>0, <1>1, <1>2, <1>3, <1>5, <1>9, <1>10, KeepsFewer DEF EditsLog
<1>12. EditsGates(w, {}) /\ EditsOwners(w, {})
  <2>1. CASE NeedsData(mesh, i, cols)
    <3>1. w = c /\ mesh'.gate = UpdateSaved(mesh, i, cols).gate
      BY <1>9, <2>1 DEF u
    <3>2. cols \cap DataCols \subseteq cols
      OBVIOUS
    <3>3. client.mode = "dyntopo" => preview.active \/ client'.dab # "idle"
      BY <1>3
    <3> HIDE DEF w
    <3> QED BY <1>0, <1>4, <1>9, <3>1, <3>2, <3>3, CaptureEdit
  <2>2. CASE ~NeedsData(mesh, i, cols)
    <3>1. w = e /\ mesh'.gate = mesh.gate
      BY <1>9, <2>2
    <3>2. client.mode = "dyntopo" => preview.active \/ client'.dab # "idle"
      BY <1>3
    <3> HIDE DEF w
    <3> QED BY <1>0, <1>4, <1>9, <3>1, <3>2, PlainEdit
  <2> QED BY <2>1, <2>2
<1> HIDE DEF w
<1> QED BY <1>11, <1>12, EditInv DEF Edits

LEMMA CapturePreviewFull ==
  ASSUME FullInv, IInv', NEW i \in Elems, CapturePreview(i)
  PROVE  FullInv'
<1> DEFINE e == WithColumns(cur, DataCols)
           c == CaptureRow(e, mesh, i)
           w == IF NeedsData(mesh, i, AllFlags) THEN c ELSE cur
           u == UpdateSaved(mesh, i, AllFlags)
           D == DOMAIN preview.rows \cup {i}
           rows == [j \in D |-> IF j = i THEN mesh.data[i] ELSE preview.rows[j]]
<1>0. Editing /\ preview.active /\ DataCols \in SUBSET DataCols /\ AllFlags \in SUBSET AllFlags
  BY DEF CapturePreview, FullInv, Previewing
<1>1. /\ preview' = [preview EXCEPT !.rows = rows]
      /\ UNCHANGED <<active, curStep, strokeId, stamps, client>>
  BY DEF CapturePreview
<1>2. /\ NeedsData(mesh, i, AllFlags) => entries' = [entries EXCEPT ![curStep + 1] = c] /\ mesh' = u
      /\ ~NeedsData(mesh, i, AllFlags) => UNCHANGED <<entries, mesh>>
  BY DEF CapturePreview, SetCur
<1>3. /\ strokeId \in Nat /\ mesh \in Mesh(Stamp(strokeId)) /\ GoodEntry(cur) /\ ~cur.finalized
      /\ stamps \subseteq Elems /\ preview \in PreviewType /\ client \in ClientType
  BY <1>0, HandlerFacts
<1>4. /\ preview' \in PreviewType /\ preview'.active = preview.active
      /\ preview'.baseline = preview.baseline /\ preview'.gated = preview.gated
  <2>1. PICK S \in SUBSET Elems : preview.rows \in [S -> Rows]
    BY <1>3 DEF PreviewType
  <2>2. D \in SUBSET Elems /\ mesh.data[i] \in Rows
    BY <1>3, <2>1 DEF Mesh
  <2>3. rows \in [D -> Rows]
    BY <2>1, <2>2
  <2> HIDE DEF rows, D
  <2>4. rows \in UNION {[S2 -> Rows] : S2 \in SUBSET Elems}
    BY <2>2, <2>3
  <2> QED BY <1>1, <1>3, <2>4 DEF PreviewType
<1>5. /\ GoodEntry(c) /\ ~c.finalized /\ c.topo = cur.topo
      /\ Keeps(cur, c, Elems) /\ Adds(cur, c, {})
      /\ \A x \in DataCols : \E k \in DOMAIN c.chunks :
           Evidence(c.chunks[k], i, x) /\ c.chunks[k].kind # "topo"
  BY <1>0, RowStep
<1> HIDE DEF c, e
<1>6. u \in Mesh(Stamp(strokeId)) /\ u.live = mesh.live
  BY <1>0, <1>3, UpdateTyped
<1>7. CASE NeedsData(mesh, i, AllFlags)
  <2>1. entries' = [entries EXCEPT ![curStep + 1] = c] /\ mesh' = u
    BY <1>2, <1>7
  <2>2. mesh'.live \subseteq Elems /\ mesh'.live = mesh.live
    BY <1>6, <2>1 DEF Mesh
  <2>3. EditsLog(c, {})
    BY <1>0, <1>1, <1>3, <1>4, <1>5, <1>6, <2>1, <2>2, KeepsFewer DEF EditsLog
  <2>4. EditsGates(c, {}) /\ EditsOwners(c, {})
    <3>1. AllFlags \cap DataCols \subseteq DataCols
      OBVIOUS
    <3> QED BY <1>0, <1>5, <2>1, <2>2, <3>1, CaptureEdit
  <2> QED BY <2>3, <2>4, EditInv DEF Edits
<1>8. CASE ~NeedsData(mesh, i, AllFlags)
  <2>1. UNCHANGED <<entries, mesh>>
    BY <1>2, <1>8
  <2>2. curStep + 1 \in DOMAIN entries /\ Listed(entries)
    BY <1>0, CurFacts DEF Editing
  <2>3. entries' = [entries EXCEPT ![curStep + 1] = cur]
    <3>1. entries = [k \in 1 .. Len(entries) |-> entries[k]] /\ DOMAIN entries = 1 .. Len(entries)
      BY <2>2, ListFacts
    <3> QED BY <2>1, <2>2, <3>1 DEF cur
  <2>4. Keeps(cur, cur, mesh'.live) /\ Adds(cur, cur, {})
    BY DEF Keeps, Adds
  <2>5. EditsLog(cur, {})
    BY <1>0, <1>1, <1>3, <1>4, <2>1, <2>3, <2>4 DEF EditsLog
  <2>6. EditsGates(cur, {}) /\ EditsOwners(cur, {})
    BY <1>0, <2>1, PlainEdit
  <2> QED BY <2>5, <2>6, EditInv DEF Edits
<1> QED BY <1>7, <1>8

\* Nothing but types to keep while no step is edited.
LEMMA QuietInv ==
  ASSUME IInv', Typed', ~Editing', ~preview'.active, Open' => client'.mode \in Strokes
  PROVE  FullInv'
BY DEF FullInv, Previewing, Fresh, Between, Unsealed, Honest, Owned

\* The log's steps are left alone.
LEMMA StepsKept ==
  ASSUME FullInv, UNCHANGED <<mesh, entries, curStep, strokeId>>, client'.mode = client.mode
  PROVE  /\ cur' = cur /\ Sid' = Sid /\ (Open' <=> Open) /\ (Editing' <=> Editing)
         /\ active' \in Elems \cup {NoElem} /\ stamps' \subseteq Elems
            /\ preview' \in PreviewType /\ client' \in ClientType => Typed'
<1>1. cur' = cur /\ Sid' = Sid /\ (Open' <=> Open)
  BY DEF cur, Sid, Open
<1> QED BY <1>1 DEF Editing, Typed, FullInv

LEMMA SetActiveFull ==
  ASSUME FullInv, IInv', NEW i \in Elems \cup {NoElem}, SetActiveElem(i)
  PROVE  FullInv'
<1>1. UNCHANGED <<mesh, entries, curStep, strokeId, stamps, preview, client>> /\ active' = i
  BY DEF SetActiveElem
<1>2. cur' = cur /\ Sid' = Sid /\ (Open' <=> Open) /\ (Editing' <=> Editing) /\ Typed'
  BY <1>1, StepsKept DEF FullInv, Typed
<1>3. PreviewChunks(cur)' = PreviewChunks(cur) /\ \A j : NeedsData(mesh, j, AllFlags)' <=> NeedsData(mesh, j, AllFlags)
  BY <1>1, <1>2 DEF PreviewChunks, NeedsData
<1>4. \A j, k, c : /\ Evidence(cur.chunks[k], j, c)' <=> Evidence(cur.chunks[k], j, c)
                   /\ Recorded(cur.chunks[k], j)' <=> Recorded(cur.chunks[k], j)
  BY <1>2 DEF Evidence, Recorded
<1>5. Previewing' /\ Fresh' /\ Unsealed'
  BY <1>1, <1>2 DEF FullInv, Previewing, Fresh, Between, Unsealed
<1>6. Honest'
  BY <1>1, <1>2, <1>3, <1>4 DEF FullInv, Honest, Vouched
<1>7. Owned'
  BY <1>1, <1>2, <1>3, <1>4 DEF FullInv, Owned, Mixing
<1> QED BY <1>2, <1>5, <1>6, <1>7 DEF FullInv

LEMMA StutterFull ==
  ASSUME FullInv, IInv', UNCHANGED vars
  PROVE  FullInv'
<1>1. UNCHANGED <<mesh, entries, curStep, strokeId, active, stamps, preview, client>>
  BY DEF vars
<1>2. cur' = cur /\ Sid' = Sid /\ (Open' <=> Open) /\ (Editing' <=> Editing) /\ Typed'
  BY <1>1, StepsKept DEF FullInv, Typed
<1>3. PreviewChunks(cur)' = PreviewChunks(cur) /\ \A j : NeedsData(mesh, j, AllFlags)' <=> NeedsData(mesh, j, AllFlags)
  BY <1>1, <1>2 DEF PreviewChunks, NeedsData
<1>4. \A j, k, c : /\ Evidence(cur.chunks[k], j, c)' <=> Evidence(cur.chunks[k], j, c)
                   /\ Recorded(cur.chunks[k], j)' <=> Recorded(cur.chunks[k], j)
  BY <1>2 DEF Evidence, Recorded
<1>5. Previewing' /\ Fresh' /\ Unsealed'
  BY <1>1, <1>2 DEF FullInv, Previewing, Fresh, Between, Unsealed
<1>6. Honest'
  BY <1>1, <1>2, <1>3, <1>4 DEF FullInv, Honest, Vouched
<1>7. Owned'
  BY <1>1, <1>2, <1>3, <1>4 DEF FullInv, Owned, Mixing
<1> QED BY <1>2, <1>5, <1>6, <1>7 DEF FullInv

LEMMA BeginPreviewFull ==
  ASSUME FullInv, IInv', BeginPreviewDab
  PROVE  FullInv'
<1> DEFINE b == Len(cur.chunks) - IF cur.topo = 0 THEN 0 ELSE 1
           n == Len(cur.chunks)
<1>1. /\ UNCHANGED <<mesh, active, entries, curStep, strokeId, stamps, client>>
      /\ preview' = [NoPreview EXCEPT !.active = TRUE, !.baseline = b]
  BY DEF BeginPreviewDab
<1>2. /\ Editing /\ client.mode \in Strokes /\ Between
      /\ "preview" \in client.style /\ ~client.committed /\ ~preview.active
  BY DEF BeginPreviewDab, Idle, Editing, Open, Strokes, Between
<1>3. GoodEntry(cur)
  BY <1>2, HandlerFacts
<1>4. n \in Nat /\ DOMAIN cur.chunks = 1 .. n
  BY <1>3, EntryFields
<1>5. cur.topo # 0 => cur.topo = n /\ n \in 1 .. n /\ cur.chunks[n].kind = "topo" /\ cur.chunks[n].recs = <<>>
  BY <1>2, <1>3, <1>4 DEF FullInv, Fresh, GoodEntry
<1>6. b \in Nat /\ b <= n /\ (cur.topo # 0 => cur.topo > b) /\ (cur.topo = 0 => b = n)
      /\ (cur.topo # 0 => b = n - 1)
  <2>1. CASE cur.topo = 0
    BY <1>4, <2>1
  <2>2. CASE cur.topo # 0
    <3>1. cur.topo = n /\ n \in 1 .. n /\ b = n - 1
      BY <1>5, <2>2
    <3> HIDE DEF b, n
    <3> QED BY <1>4, <2>2, <3>1
  <2> QED BY <2>1, <2>2
<1> HIDE DEF b, n
<1>7. /\ preview' \in PreviewType /\ preview'.active /\ preview'.baseline = b /\ preview'.gated = {}
  <2>1. NoRows \in [{} -> Rows]
    BY DEF NoRows
  <2>2. NoRows \in UNION {[D -> Rows] : D \in SUBSET Elems}
    BY <2>1
  <2>3. preview' = [active |-> TRUE, baseline |-> b, rows |-> NoRows, gated |-> {}]
    BY <1>1 DEF NoPreview
  <2> QED BY <1>6, <2>2, <2>3 DEF PreviewType
<1>8. cur' = cur /\ Sid' = Sid /\ Editing' /\ Typed' /\ Open'
  BY <1>1, <1>2, <1>7, StepsKept DEF FullInv, Typed, Editing
<1>9. Previewing' /\ Fresh' /\ Unsealed'
  BY <1>1, <1>2, <1>6, <1>7, <1>8 DEF Previewing, Fresh, Between, Unsealed, n
<1>10. \A k \in DOMAIN cur.chunks : \A i, c : Evidence(cur.chunks[k], i, c) => k \notin PreviewChunks(cur)'
  <2> SUFFICES ASSUME NEW k \in 1 .. n, NEW i, NEW c, Evidence(cur.chunks[k], i, c),
                      k > b, cur.chunks[k].kind = "topo"
               PROVE  FALSE
    BY <1>4, <1>7, <1>8 DEF PreviewChunks
  <2>1. cur.topo # 0 /\ k = n
    BY <1>4, <1>6
  <2>2. cur.chunks[k].recs = <<>>
    BY <1>5, <2>1
  <2> QED BY <2>2 DEF Evidence, Recorded
<1>11. Honest'
  <2> SUFFICES ASSUME strokeId < StrokeMod, NEW i \in mesh.live, mesh.gate[i].sid = Sid,
                      NEW c \in mesh.gate[i].saved \cap DataCols
               PROVE  /\ \E k \in DOMAIN cur.chunks : Evidence(cur.chunks[k], i, c)
                      /\ \E k \in DOMAIN cur.chunks \ PreviewChunks(cur)' : Evidence(cur.chunks[k], i, c)
    BY <1>1, <1>8 DEF Honest, Vouched, Evidence, Recorded
  <2>1. \E k \in DOMAIN cur.chunks : Evidence(cur.chunks[k], i, c)
    BY <1>2 DEF FullInv, Honest, Vouched
  <2> QED BY <1>10, <2>1
<1>12. Owned'
  <2>1. \A k \in DOMAIN cur.chunks, i \in Elems : Recorded(cur.chunks[k], i) =>
          client.mode = "dyntopo" /\ "real" \in client.style
    BY <1>2 DEF FullInv, Owned
  <2>2. \A j : NeedsData(mesh, j, AllFlags)' <=> NeedsData(mesh, j, AllFlags)
    BY <1>1, <1>8 DEF NeedsData
  <2>3. \A j, k : Recorded(cur.chunks[k], j)' <=> Recorded(cur.chunks[k], j)
    BY <1>8 DEF Recorded
  <2> QED BY <1>1, <1>2, <1>8, <2>1, <2>2, <2>3 DEF FullInv, Owned, Mixing
<1> QED BY <1>8, <1>9, <1>11, <1>12 DEF FullInv

LEMMA NoPreviewTyped == NoPreview \in PreviewType /\ ~NoPreview.active
<1>1. NoRows \in [{} -> Rows]
  BY DEF NoRows
<1>2. NoRows \in UNION {[D -> Rows] : D \in SUBSET Elems}
  BY <1>1
<1> QED BY <1>2 DEF PreviewType, NoPreview

LEMMA CommitFull ==
  ASSUME FullInv, IInv', CommitPreviewDab
  PROVE  FullInv'
<1>1. /\ UNCHANGED <<mesh, active, entries, curStep, strokeId, stamps>>
      /\ preview' = NoPreview /\ client' = [client EXCEPT !.committed = TRUE]
  BY DEF CommitPreviewDab
<1>2. preview.active /\ Editing /\ client.mode \in Strokes
  BY DEF CommitPreviewDab, FullInv, Previewing
<1>3. /\ client' \in ClientType /\ client'.mode = client.mode /\ client'.style = client.style
      /\ client'.committed
  BY <1>1 DEF FullInv, Typed, ClientType
<1>4. cur' = cur /\ Sid' = Sid /\ (Open' <=> Open) /\ (Editing' <=> Editing) /\ Typed' /\ ~preview'.active
  BY <1>1, <1>3, NoPreviewTyped, StepsKept DEF FullInv, Typed
<1>5. \A j : NeedsData(mesh, j, AllFlags)' <=> NeedsData(mesh, j, AllFlags)
  BY <1>1, <1>4 DEF NeedsData
<1>6. \A j, k, c : /\ Evidence(cur.chunks[k], j, c)' <=> Evidence(cur.chunks[k], j, c)
                   /\ Recorded(cur.chunks[k], j)' <=> Recorded(cur.chunks[k], j)
  BY <1>4 DEF Evidence, Recorded
<1>7. Previewing' /\ Fresh' /\ Unsealed'
  BY <1>1, <1>3, <1>4 DEF FullInv, Previewing, Fresh, Between, Unsealed
<1>8. Honest'
  BY <1>1, <1>4, <1>6 DEF FullInv, Honest, Vouched
<1>9. Owned'
  BY <1>1, <1>3, <1>4, <1>5, <1>6 DEF FullInv, Owned, Mixing
<1> QED BY <1>4, <1>7, <1>8, <1>9 DEF FullInv

\* Rolling back, what is left of the step is what the preview did not make,
\* and what is left gated was saved there.
LEMMA RollbackFull ==
  ASSUME FullInv, IInv', RollbackPreviewDab
  PROVE  FullInv'
<1> DEFINE K == DOMAIN cur.chunks \ PreviewChunks(cur)
           w == [cur EXCEPT !.topo = 0, !.chunks = Kept(@, K)]
<1>1. /\ entries' = [entries EXCEPT ![curStep + 1] = w] /\ mesh' = RolledBack(mesh)
      /\ stamps' = {} /\ preview' = NoPreview
      /\ UNCHANGED <<active, curStep, strokeId, client>>
  BY DEF RollbackPreviewDab, SetCur
<1>2. /\ preview.active /\ Editing /\ client.mode \in Strokes
      /\ "preview" \in client.style /\ ~client.committed
  BY DEF RollbackPreviewDab, FullInv, Previewing
<1>3. /\ strokeId \in Nat /\ mesh \in Mesh(Stamp(strokeId)) /\ NoStamp \in Stamp(strokeId)
      /\ GoodEntry(cur) /\ ~cur.finalized /\ preview \in PreviewType /\ client \in ClientType
  BY <1>2, HandlerFacts
<1>4. /\ GoodEntry(w) /\ w.topo = 0 /\ ~w.finalized
      /\ \A k \in K : \E n \in DOMAIN w.chunks : w.chunks[n] = cur.chunks[k]
      /\ \A n \in DOMAIN w.chunks : \E k \in K : w.chunks[n] = cur.chunks[k]
  <2>1. K \subseteq DOMAIN cur.chunks /\ Leaves(cur, K, w)
    BY DEF Leaves
  <2> HIDE DEF K, w
  <2>2. w.finalized = cur.finalized => ~w.finalized
    BY <1>3
  <2> QED BY <1>3, <2>1, <2>2, KeptTyped
<1> HIDE DEF w
<1>5. /\ mesh' \in Mesh(Stamp(strokeId))
      /\ \A i \in mesh'.live : mesh'.gate[i] = NoStamp \/
           (i \in mesh.live /\ mesh'.gate[i] = mesh.gate[i] /\ i \notin preview.gated)
  <2>1. PICK D \in SUBSET Elems : preview.rows \in [D -> Rows]
    BY <1>3 DEF PreviewType
  <2> QED BY <1>1, <1>3, <2>1, RolledBackTyped
<1>6. curStep + 1 \in DOMAIN entries /\ Open
  BY <1>2, CurFacts DEF Editing
<1>7. cur' = w /\ Sid' = Sid /\ Open' /\ Editing' /\ ~preview'.active
  <2>1. cur' = w
    BY <1>1, <1>6 DEF cur
  <2> QED BY <1>1, <1>4, <1>6, <2>1, NoPreviewTyped DEF Sid, Open, Editing
<1>8. Typed'
  <2>1. StepsGood(entries', curStep', Open')
    BY <1>1, <1>4, <1>6, <1>7 DEF FullInv, Typed, StepsGood
  <2> QED BY <1>1, <1>3, <1>5, <2>1, NoPreviewTyped DEF FullInv, Typed
<1>9. Previewing' /\ Fresh' /\ Unsealed'
  BY <1>1, <1>2, <1>4, <1>7 DEF Previewing, Fresh, Between, Unsealed, Editing
<1>10. Honest'
  <2> SUFFICES ASSUME strokeId < StrokeMod, NEW i \in mesh'.live, mesh'.gate[i].sid = Sid,
                      NEW c \in mesh'.gate[i].saved \cap DataCols
               PROVE  \E k \in DOMAIN w.chunks : Evidence(w.chunks[k], i, c)
    BY <1>1, <1>7 DEF Honest, Vouched, Evidence, Recorded
  <2>1. mesh'.gate[i] # NoStamp
    BY DEF NoStamp
  <2>2. i \in mesh.live /\ mesh'.gate[i] = mesh.gate[i] /\ i \notin preview.gated
    BY <1>5, <2>1
  <2>3. Vouched(i, K)
    BY <1>2, <2>2 DEF FullInv, Honest
  <2>4. PICK k \in K : Evidence(cur.chunks[k], i, c)
    BY <2>2, <2>3 DEF Vouched
  <2>5. PICK n \in DOMAIN w.chunks : w.chunks[n] = cur.chunks[k]
    BY <1>4
  <2> QED BY <2>4, <2>5
<1>11. Owned'
  <2>1. client.mode = "brush" => w.topo = 0
    BY <1>4
  <2>2. ASSUME NEW n \in DOMAIN w.chunks, NEW i \in Elems, Recorded(w.chunks[n], i)
        PROVE  client.mode = "dyntopo" /\ "real" \in client.style
    <3>1. PICK k \in K : w.chunks[n] = cur.chunks[k]
      BY <1>4
    <3>2. k \in DOMAIN cur.chunks /\ k \notin PreviewChunks(cur) /\ Recorded(cur.chunks[k], i)
      BY <2>2, <3>1
    <3>3. ~(k > preview.baseline)
      BY <3>2 DEF PreviewChunks, Recorded
    <3> QED BY <1>2, <3>2, <3>3 DEF FullInv, Owned
  <2>3. ~Mixing => "real" \notin client.style
    <3>1. client.style \subseteq {"real", "preview"}
      BY <1>3, MeshLogAssumption DEF ClientType
    <3> QED BY <1>2, <3>1 DEF Mixing
  <2>4. ~Mixing => \A n \in DOMAIN w.chunks, i \in Elems : ~Recorded(w.chunks[n], i)
    BY <2>2, <2>3
  <2>5. mesh'.live \subseteq Elems
    BY <1>5 DEF Mesh
  <2>6. \A k, i : Recorded(cur.chunks[k], i)' <=> Recorded(w.chunks[k], i)
    BY <1>7 DEF Recorded
  <2> QED BY <1>1, <1>7, <2>1, <2>2, <2>4, <2>5, <2>6 DEF Owned, Mixing
<1> QED BY <1>8, <1>9, <1>10, <1>11 DEF FullInv

-----------------------------------------------------------------------------
(* Steps begun, ended, replayed and given up.                              *)

LEMMA NewEntryTyped ==
  ASSUME NEW a \in Elems \cup {NoElem}
  PROVE  LET e == NewEntry(a)
         IN  /\ GoodEntry(e) /\ e.topo = 0 /\ ~e.finalized /\ e.chunks = <<>>
             /\ Len(e.chunks) = 0 /\ DOMAIN e.chunks = {}
<1> DEFINE e == NewEntry(a)
<1>1. <<>> \in Seq(Chunk) /\ Len(<<>>) = 0 /\ DOMAIN <<>> = {}
  BY EmptySeq
<1>2. e \in EntryType /\ e.topo = 0 /\ ~e.finalized /\ e.chunks = <<>>
  BY <1>1 DEF NewEntry, EntryType
<1>3. GoodEntry(e)
  BY <1>1, <1>2 DEF GoodEntry, StoreOf
<1> QED BY <1>1, <1>2, <1>3

\* A list of steps cut at its start.
LEMMA ShiftGood ==
  ASSUME NEW es, NEW done \in Nat, NEW open, StepsGood(es, done, open), DOMAIN es = 1 .. Len(es),
         NEW n \in Nat, NEW t, Len(es) \in Nat, DOMAIN t = 1 .. Len(es) - n,
         \A k \in 1 .. Len(es) - n : t[k] = es[n + k]
  PROVE  StepsGood(t, done - n, open)
<1> SUFFICES ASSUME NEW k \in 1 .. Len(es) - n
             PROVE  GoodEntry(t[k]) /\ (t[k].topo # 0 => open /\ k = (done - n) + 1)
  BY DEF StepsGood
<1>1. n + k \in DOMAIN es
  BY Z3
<1>2. t[k] = es[n + k]
  OBVIOUS
<1>3. GoodEntry(es[n + k]) /\ (es[n + k].topo # 0 => open /\ n + k = done + 1)
  BY <1>1 DEF StepsGood
<1>4. n + k = done + 1 => k = (done - n) + 1
  OBVIOUS
<1> QED BY <1>2, <1>3, <1>4

LEMMA TrimGood ==
  ASSUME NEW es, Listed(es), NEW done \in 0 .. Len(es), NEW max \in Int,
         NEW open, StepsGood(es, done, open)
  PROVE  LET t == Trim(es, done, max)
         IN  StepsGood(t.entries, t.curStep, open)
<1> DEFINE N == Len(es)
           x == IF max < 0 \/ Len(es) <= max THEN 0 ELSE Len(es) - max
           n == IF x < done THEN x ELSE done
           sub == SubSeq(es, n + 1, Len(es))
           t == Trim(es, done, max)
<1>1. N \in Nat /\ DOMAIN es = 1 .. N
  BY ListFacts
<1>2. n \in 0 .. done
  BY <1>1
<1>3. t.entries = sub /\ t.curStep = done - n
  BY DEF Trim
<1> HIDE DEF x, n, t
<1>4. n \in 0 .. N /\ N \in n .. N
  BY <1>1, <1>2
<1>5. Listed(sub) /\ Len(sub) = N - n /\ \A k \in 1 .. N - n : sub[k] = es[n + k]
  BY <1>4, SubList
<1> HIDE DEF sub
<1>6. DOMAIN sub = 1 .. N - n
  BY <1>5, ListFacts
<1>7. StepsGood(sub, done - n, open)
  <2>1. n \in Nat /\ done \in Nat
    BY <1>2
  <2> QED BY <1>1, <1>5, <1>6, <2>1, ShiftGood
<1> QED BY <1>3, <1>7 DEF t

\* The redo tail dropped and a step appended.
LEMMA BeginGood ==
  ASSUME FullInv, ~Open, NEW e, GoodEntry(e), NEW open, e.topo # 0 => open
  PROVE  LET es == Append(SubSeq(entries, 1, curStep), e)
         IN  /\ Listed(es) /\ Len(es) = curStep + 1 /\ es[curStep + 1] = e
             /\ curStep \in Nat /\ StepsGood(es, curStep, open)
<1> DEFINE s == SubSeq(entries, 1, curStep)
           es == Append(s, e)
<1>1. /\ Listed(entries) /\ curStep \in 0 .. Len(entries) /\ Len(entries) \in Nat
      /\ DOMAIN entries = 1 .. Len(entries)
  BY ListFacts DEF FullInv, IInv
<1>2. Listed(s) /\ Len(s) = curStep /\ \A k \in 1 .. curStep : s[k] = entries[k]
  <2>1. 0 \in 0 .. Len(entries) /\ curStep \in 0 .. Len(entries)
    BY <1>1
  <2>2. /\ Listed(SubSeq(entries, 0 + 1, curStep)) /\ Len(SubSeq(entries, 0 + 1, curStep)) = curStep - 0
        /\ \A k \in 1 .. curStep - 0 : SubSeq(entries, 0 + 1, curStep)[k] = entries[0 + k]
    BY <1>1, <2>1, SubList
  <2> QED BY <1>1, <2>2
<1> HIDE DEF s
<1>3. /\ Listed(es) /\ Len(es) = curStep + 1 /\ es[curStep + 1] = e
      /\ \A k \in 1 .. curStep : es[k] = s[k]
  BY <1>2, AppendList
<1> HIDE DEF es
<1>4. DOMAIN es = 1 .. curStep + 1
  BY <1>3, ListFacts
<1>5. StepsGood(es, curStep, open)
  <2> SUFFICES ASSUME NEW k \in 1 .. curStep + 1
               PROVE  GoodEntry(es[k]) /\ (es[k].topo # 0 => open /\ k = curStep + 1)
    BY <1>4 DEF StepsGood
  <2>1. CASE k = curStep + 1
    BY <1>3, <2>1
  <2>2. CASE k # curStep + 1
    <3>1. k \in 1 .. curStep /\ k \in DOMAIN entries
      BY <1>1, <2>2
    <3> QED BY <1>2, <1>3, <3>1 DEF FullInv, Typed, StepsGood
  <2> QED BY <2>1, <2>2
<1> QED BY <1>1, <1>3, <1>5 DEF es, s

LEMMA InitFull ==
  ASSUME Init
  PROVE  FullInv
<1>1. IInv
  BY InitInv
<1>2. ~Open /\ client \in ClientType
  BY DEF Init, Open, Closed, ClientType
<1>3. preview \in PreviewType /\ ~preview.active
  BY NoPreviewTyped DEF Init
<1>4. mesh \in Mesh(Stamp(strokeId))
  <2>1. strokeId \in Nat
    BY DEF Init
  <2>2. NoStamp \in Stamp(strokeId)
    BY <2>1, StampFacts
  <2>3. PICK L \in InitLive :
          mesh = [live |-> L,
                  data |-> [i \in Elems |-> IF i \in L THEN InitRow ELSE DefaultRow],
                  gate |-> [i \in Elems |-> NoStamp]]
    BY DEF Init
  <2>4. L \in SUBSET Elems /\ InitRow \in Rows
    BY MeshLogAssumption DEF Rows
  <2>5. [i \in Elems |-> IF i \in L THEN InitRow ELSE DefaultRow] \in [Elems -> Rows]
        /\ [i \in Elems |-> NoStamp] \in [Elems -> Stamp(strokeId)]
    BY <2>2, <2>4, DefaultTyped
  <2> QED BY <2>3, <2>4, <2>5 DEF Mesh
<1>5. StepsGood(entries, curStep, Open)
  <2>1. NoElem \in Elems \cup {NoElem}
    OBVIOUS
  <2>2. GoodEntry(NewEntry(NoElem)) /\ NewEntry(NoElem).topo = 0
    BY <2>1, NewEntryTyped
  <2>3. DOMAIN entries = {1} /\ entries[1] = NewEntry(NoElem)
    BY DEF Init
  <2> QED BY <2>2, <2>3 DEF StepsGood
<1>6. active \in Elems \cup {NoElem} /\ strokeId \in 0 .. MaxStrokes /\ stamps \subseteq Elems
  BY MeshLogAssumption DEF Init
<1>7. Typed
  BY <1>2, <1>3, <1>4, <1>5, <1>6 DEF Typed
<1> QED BY <1>1, <1>2, <1>3, <1>7
        DEF FullInv, Previewing, Fresh, Between, Unsealed, Honest, Owned, Editing

LEMMA BeginStepFull ==
  ASSUME FullInv, IInv', NEW mode \in Modes, BeginStep(mode)
  PROVE  FullInv'
<1> DEFINE n == NewEntry(active)
           p == PushTopoChunk(n, mesh)
           e == IF mode = "dyntopo" THEN p ELSE n
           es == Append(SubSeq(entries, 1, curStep), e)
<1>1. /\ ~Open /\ strokeId < MaxStrokes /\ entries' = es
      /\ stamps' = (IF mode = "dyntopo" THEN {} ELSE stamps) /\ strokeId' = strokeId + 1
      /\ UNCHANGED <<mesh, active, curStep, preview>>
  BY DEF BeginStep, Open
<1>2. PICK style \in (IF mode \in Strokes THEN Styles ELSE {{}}) :
        client' = [Closed EXCEPT !.mode = mode, !.style = style]
  BY DEF BeginStep
<1>3. /\ strokeId \in Nat /\ mesh \in Mesh(Stamp(strokeId)) /\ active \in Elems \cup {NoElem}
      /\ stamps \subseteq Elems /\ preview \in PreviewType /\ ~preview.active
  BY <1>1, MeshLogAssumption DEF FullInv, Typed, Previewing, Editing
<1>4. /\ client' \in ClientType /\ client'.mode = mode /\ client'.dab = "idle"
      /\ mode # "closed"
  <2>1. client' = [mode |-> mode, style |-> style, dab |-> "idle", committed |-> FALSE]
    BY <1>2 DEF Closed
  <2>2. style \in Styles \cup {{}} /\ mode # "closed"
    BY MeshLogAssumption
  <2> QED BY <2>1, <2>2 DEF ClientType
<1>5. /\ GoodEntry(n) /\ n.topo = 0 /\ ~n.finalized /\ Len(n.chunks) = 0 /\ DOMAIN n.chunks = {}
  BY <1>3, NewEntryTyped
<1> HIDE DEF n
<1>6. /\ GoodEntry(p) /\ ~p.finalized /\ Len(p.chunks) = 1 /\ p.topo = 1
      /\ p.chunks[p.topo] = NewTopo /\ Adds(n, p, {})
  <2>1. /\ GoodEntry(p) /\ ~p.finalized /\ Len(p.chunks) = Len(n.chunks) + 1
        /\ p.topo = Len(n.chunks) + 1
        /\ p.chunks[p.topo] = NewTopo /\ Adds(n, p, {})
    BY <1>3, <1>5, PushTyped
  <2>2. Len(n.chunks) + 1 = 1
    BY <1>5
  <2> HIDE DEF p
  <2> QED BY <2>1, <2>2
<1> HIDE DEF p
<1>7. /\ GoodEntry(e) /\ ~e.finalized /\ (e.topo # 0 => mode = "dyntopo")
      /\ e.topo # 0 => e.topo = Len(e.chunks) /\ e.chunks[e.topo].recs = <<>>
      /\ \A k \in DOMAIN e.chunks : \A i : ~Recorded(e.chunks[k], i)
  <2>1. DOMAIN p.chunks = 1 .. 1
    BY <1>6, EntryFields
  <2>2. \A k \in DOMAIN p.chunks : \A i : ~Recorded(p.chunks[k], i)
    BY <1>6, <2>1, EmptyTopo
  <2>3. CASE mode = "dyntopo"
    <3>1. e = p
      BY <2>3
    <3>2. p.chunks[p.topo].recs = <<>>
      BY <1>6 DEF NewTopo
    <3>3. p.topo = Len(p.chunks)
      BY <1>6
    <3> HIDE DEF e
    <3> QED BY <1>6, <2>2, <2>3, <3>1, <3>2, <3>3
  <2>4. CASE mode # "dyntopo"
    <3>1. e = n
      BY <2>4
    <3> HIDE DEF e
    <3> QED BY <1>5, <3>1
  <2> QED BY <2>3, <2>4
<1> HIDE DEF e
<1>8. /\ Len(es) = curStep + 1 /\ es[curStep + 1] = e
      /\ curStep \in Nat /\ StepsGood(es, curStep, TRUE)
  BY <1>1, <1>7, BeginGood
<1> HIDE DEF es
<1>9. cur' = e /\ Open' /\ Editing' /\ strokeId + 1 \in 0 .. MaxStrokes
  <2>1. strokeId + 1 \in 0 .. MaxStrokes
    BY <1>1, <1>3, MeshLogAssumption
  <2>2. Open'
    BY <1>4 DEF Open
  <2> QED BY <1>1, <1>7, <1>8, <2>1, <2>2 DEF cur, Editing
<1>10. mesh \in Mesh(Stamp(strokeId + 1))
  BY <1>3, StampGrows
<1>11. Typed'
  BY <1>1, <1>3, <1>4, <1>8, <1>9, <1>10 DEF Typed
<1>12. Previewing' /\ Fresh' /\ Unsealed'
  BY <1>1, <1>3, <1>7, <1>9 DEF Previewing, Fresh, Between, Unsealed, Editing
<1>13. Honest'
  <2> SUFFICES ASSUME strokeId + 1 < StrokeMod, NEW i \in mesh.live, mesh.gate[i].sid = Sid'
               PROVE  FALSE
    BY <1>1 DEF Honest, Vouched
  <2>1. Sid' = strokeId + 1
    <3>1. strokeId' \in Nat /\ StrokeMod \in Nat \ {0} /\ strokeId' = strokeId + 1
      BY <1>1, <1>3, MeshLogAssumption
    <3> QED BY <3>1 DEF Sid
  <2>2. mesh.gate[i] \in Stamp(strokeId)
    BY <1>3 DEF Mesh
  <2>3. mesh.gate[i].sid \in Int /\ mesh.gate[i].sid <= strokeId
    BY <2>2, MeshLogAssumption DEF Stamp
  <2> QED BY <1>3, <2>1, <2>3
<1>14. Owned'
  <2>1. \A k \in DOMAIN e.chunks : \A i : ~Recorded(cur.chunks[k], i)'
    BY <1>7, <1>9 DEF Recorded
  <2> QED BY <1>4, <1>7, <1>9, <2>1 DEF Owned
<1> QED BY <1>11, <1>12, <1>13, <1>14 DEF FullInv

LEMMA EndStepFull ==
  ASSUME FullInv, IInv', EndStep
  PROVE  FullInv'
<1> DEFINE f == FinalizedEntry(cur, mesh)
           es == [entries EXCEPT ![curStep + 1] = FinalizedEntry(@, mesh)]
<1>1. /\ Open /\ ~preview.active /\ client' = Closed
      /\ entries' = Trim(es, curStep + 1, maxUndo).entries
      /\ curStep' = Trim(es, curStep + 1, maxUndo).curStep
      /\ UNCHANGED <<mesh, active, strokeId, stamps, preview>>
  BY DEF EndStep, Open
<1>2. /\ curStep \in Nat /\ Len(entries) = curStep + 1 /\ DOMAIN entries = 1 .. curStep + 1
      /\ GoodEntry(cur) /\ Listed(entries)
  BY <1>1, CurFacts
<1>3. GoodEntry(f) /\ f.topo = 0
  BY <1>2, FinalizedTyped DEF FullInv, Typed
<1>4. es = [entries EXCEPT ![curStep + 1] = f]
  BY DEF cur
<1> HIDE DEF f, es
<1>5. Listed(es) /\ Len(es) = curStep + 1
  BY <1>2, <1>4, ExceptList
<1>6. StepsGood(es, curStep + 1, FALSE)
  <2>1. DOMAIN es = DOMAIN entries /\ \A n \in DOMAIN entries : es[n] = IF n = curStep + 1 THEN f ELSE entries[n]
    BY <1>4
  <2> QED BY <1>3, <2>1 DEF FullInv, Typed, StepsGood
<1>7. ~Open' /\ client' \in ClientType
  BY <1>1 DEF Open, Closed, ClientType
<1>8. StepsGood(entries', curStep', Open')
  <2>1. curStep + 1 \in 0 .. Len(es) /\ maxUndo \in Int
    BY <1>2, <1>5 DEF FullInv, IInv
  <2>2. StepsGood(Trim(es, curStep + 1, maxUndo).entries, Trim(es, curStep + 1, maxUndo).curStep, FALSE)
    BY <1>5, <1>6, <2>1, TrimGood
  <2>3. StepsGood(entries', curStep', FALSE)
    BY <1>1, <2>2
  <2> QED BY <1>7, <2>3 DEF StepsGood
<1>9. Typed'
  BY <1>1, <1>7, <1>8 DEF FullInv, Typed
<1> QED BY <1>1, <1>7, <1>9, QuietInv DEF Editing

LEMMA CompactFull ==
  ASSUME FullInv, IInv', NEW perm \in Perms, Compact(perm)
  PROVE  FullInv'
<1> DEFINE ch == [kind |-> "reorder", perm |-> perm]
           f == FinalizedEntry(cur, mesh)
           e == [f EXCEPT !.chunks = Append(@, ch)]
<1>1. /\ entries' = [entries EXCEPT ![curStep + 1] = e] /\ stamps' = {}
      /\ mesh' = Permute(mesh, perm) /\ ~preview.active
      /\ UNCHANGED <<active, curStep, strokeId, preview, client>>
  BY DEF Compact, SetCur
<1>2. Editing /\ client.mode \in Strokes
  BY DEF Compact, Idle, Editing, Open, Strokes
<1>3. /\ mesh \in Mesh(Stamp(strokeId)) /\ GoodEntry(cur)
  BY <1>2, HandlerFacts
<1>4. GoodEntry(f) /\ f.finalized /\ f.topo = 0
  BY <1>3, FinalizedTyped
<1>5. ch \in Chunk /\ ch.kind # "elems"
  BY DEF Chunk, ReorderChunk
<1> HIDE DEF f, ch
<1>6. GoodEntry(e) /\ e.topo = 0 /\ e.finalized
  BY <1>4, <1>5, EntryMore
<1> HIDE DEF e
<1>7. curStep + 1 \in DOMAIN entries
  BY <1>2, CurFacts DEF Editing
<1>8. cur' = e /\ (Open' <=> Open)
  BY <1>1, <1>7 DEF cur, Open
<1>9. StepsGood(entries', curStep', Open')
  BY <1>1, <1>6, <1>7, <1>8 DEF FullInv, Typed, StepsGood
<1>10. mesh' \in Mesh(Stamp(strokeId))
  BY <1>1, <1>3, PermuteTyped
<1>11. Typed'
  BY <1>1, <1>9, <1>10 DEF FullInv, Typed
<1> QED BY <1>1, <1>2, <1>6, <1>8, <1>11, QuietInv DEF Editing

LEMMA ReorderFull ==
  ASSUME FullInv, IInv', NEW perm \in Perms, ReorderForLocality(perm)
  PROVE  FullInv'
<1> DEFINE ch == [kind |-> "reorder", perm |-> perm]
           n == NewEntry(active)
           a == [n EXCEPT !.chunks = Append(@, ch)]
           e == [NewEntry(active) EXCEPT !.chunks = <<ch>>, !.finalized = TRUE]
           es == Append(SubSeq(entries, 1, curStep), e)
<1>1. /\ ~Open /\ strokeId < MaxStrokes /\ strokeId' = strokeId + 1
      /\ entries' = Trim(es, curStep + 1, maxUndo).entries
      /\ curStep' = Trim(es, curStep + 1, maxUndo).curStep
      /\ mesh' = Permute(mesh, perm) /\ stamps' = {}
      /\ UNCHANGED <<active, preview, client>>
  BY DEF ReorderForLocality, Open
<1>2. /\ strokeId \in Nat /\ mesh \in Mesh(Stamp(strokeId)) /\ active \in Elems \cup {NoElem}
      /\ preview \in PreviewType /\ ~preview.active
  BY <1>1, MeshLogAssumption DEF FullInv, Typed, Previewing, Editing
<1>3. GoodEntry(n) /\ n.topo = 0 /\ ~n.finalized /\ n.chunks = <<>>
  BY <1>2, NewEntryTyped
<1>4. ch \in Chunk /\ ch.kind # "elems"
  BY DEF Chunk, ReorderChunk
<1> HIDE DEF ch
<1>5. e = [n EXCEPT !.chunks = <<ch>>, !.finalized = TRUE]
  OBVIOUS
<1>6. Append(<<>>, ch) = <<ch>>
  OBVIOUS
<1> HIDE DEF n, e
<1>7. GoodEntry(a) /\ a.topo = 0
  BY <1>3, <1>4, EntryMore
<1>8. GoodEntry(e) /\ e.topo = 0
  <2>1. a = [n EXCEPT !.chunks = <<ch>>]
    BY <1>3, <1>6
  <2>2. a.chunks = <<ch>>
    BY <1>3, <2>1 DEF GoodEntry, EntryType
  <2> HIDE DEF a
  <2>3. e = [a EXCEPT !.finalized = TRUE]
    BY <1>5, <2>1
  <2>4. e \in EntryType /\ e.chunks = a.chunks /\ e.topo = 0
    BY <1>7, <2>3 DEF GoodEntry, EntryType
  <2>5. StoreOf(e) = StoreOf(a)
    BY <2>4 DEF StoreOf
  <2> QED BY <1>7, <2>4, <2>5 DEF GoodEntry
<1>9. /\ Listed(es) /\ Len(es) = curStep + 1 /\ es[curStep + 1] = e
      /\ curStep \in Nat /\ StepsGood(es, curStep, FALSE)
  BY <1>1, <1>8, BeginGood
<1> HIDE DEF es
<1>10. StepsGood(es, curStep + 1, FALSE)
  BY <1>9 DEF StepsGood
<1>11. ~Open' /\ curStep + 1 \in 0 .. Len(es) /\ maxUndo \in Int
  BY <1>1, <1>9 DEF Open, FullInv, IInv
<1>12. StepsGood(entries', curStep', Open')
  <2>1. StepsGood(Trim(es, curStep + 1, maxUndo).entries, Trim(es, curStep + 1, maxUndo).curStep, FALSE)
    BY <1>9, <1>10, <1>11, TrimGood
  <2>2. StepsGood(entries', curStep', FALSE)
    BY <1>1, <2>1
  <2> QED BY <1>11, <2>2 DEF StepsGood
<1>13. mesh' \in Mesh(Stamp(strokeId')) /\ strokeId' \in 0 .. MaxStrokes
  <2>1. mesh \in Mesh(Stamp(strokeId + 1))
    BY <1>2, StampGrows
  <2>2. strokeId + 1 \in 0 .. MaxStrokes
    BY <1>1, <1>2, MeshLogAssumption
  <2> QED BY <1>1, <2>1, <2>2, PermuteTyped
<1>14. Typed'
  BY <1>1, <1>2, <1>12, <1>13 DEF FullInv, Typed
<1> QED BY <1>1, <1>2, <1>11, <1>14, QuietInv DEF Editing

\* The list of steps is cut at its start, the open step is the same.
LEMMA CutInv ==
  ASSUME FullInv, IInv', UNCHANGED <<mesh, active, strokeId, stamps, preview, client>>,
         Open => cur' = cur, StepsGood(entries', curStep', Open)
  PROVE  FullInv'
<1>1. Sid' = Sid /\ (Open' <=> Open) /\ (Editing' <=> Editing)
  BY DEF Sid, Open, Editing
<1>2. Typed'
  <2>1. StepsGood(entries', curStep', Open')
    BY <1>1 DEF StepsGood
  <2> QED BY <2>1 DEF FullInv, Typed
<1>3. CASE ~Open
  <2>1. ~preview.active
    BY <1>3 DEF FullInv, Previewing, Editing
  <2> QED BY <1>1, <1>2, <1>3, <2>1, QuietInv DEF Editing
<1>4. CASE Open
  <2>1. cur' = cur
    BY <1>4
  <2>2. PreviewChunks(cur)' = PreviewChunks(cur) /\ \A j : NeedsData(mesh, j, AllFlags)' <=> NeedsData(mesh, j, AllFlags)
    BY <1>1, <2>1 DEF PreviewChunks, NeedsData
  <2>3. \A j, k, c : /\ Evidence(cur.chunks[k], j, c)' <=> Evidence(cur.chunks[k], j, c)
                     /\ Recorded(cur.chunks[k], j)' <=> Recorded(cur.chunks[k], j)
    BY <2>1 DEF Evidence, Recorded
  <2>4. Previewing' /\ Fresh' /\ Unsealed'
    BY <1>1, <2>1 DEF FullInv, Previewing, Fresh, Between, Unsealed
  <2>5. Honest'
    BY <1>1, <2>1, <2>2, <2>3 DEF FullInv, Honest, Vouched
  <2>6. Owned'
    BY <1>1, <2>1, <2>2, <2>3 DEF FullInv, Owned, Mixing
  <2> QED BY <1>2, <2>4, <2>5, <2>6 DEF FullInv
<1> QED BY <1>3, <1>4

LEMMA SetMaxUndoStepsFull ==
  ASSUME FullInv, IInv', NEW n \in Limits, SetMaxUndoSteps(n)
  PROVE  FullInv'
<1> DEFINE t == Trim(entries, curStep, n)
<1>1. /\ n \in Int /\ entries' = t.entries /\ curStep' = t.curStep
      /\ UNCHANGED <<mesh, active, strokeId, stamps, preview, client>>
  BY MeshLogAssumption DEF SetMaxUndoSteps
<1>2. Listed(entries) /\ curStep \in 0 .. Len(entries) /\ Len(entries) \in Nat
  BY ListFacts DEF FullInv, IInv
<1>3. curStep < Len(entries) => t.entries[t.curStep + 1] = entries[curStep + 1]
  BY <1>1, <1>2, TrimFacts
<1>4. StepsGood(t.entries, t.curStep, Open)
  BY <1>1, <1>2, TrimGood DEF FullInv, Typed
<1> HIDE DEF t
<1>5. Open => curStep < Len(entries)
  BY <1>2 DEF FullInv, IInv
<1>6. Open => cur' = cur
  BY <1>1, <1>3, <1>5 DEF cur
<1> QED BY <1>1, <1>4, <1>6, CutInv

LEMMA FreeStepFull ==
  ASSUME FullInv, IInv', FreeStep
  PROVE  FullInv'
<1>1. Listed(entries) /\ curStep \in 1 .. Len(entries) /\ Len(entries) \in Nat
      /\ DOMAIN entries = 1 .. Len(entries)
  BY ListFacts DEF FullInv, IInv, FreeStep
<1>2. /\ entries' = Tail(entries) /\ curStep' = curStep - 1
      /\ UNCHANGED <<mesh, active, strokeId, stamps, preview, client>>
  BY DEF FreeStep
<1>3. entries \in Seq(Range(entries)) /\ entries # <<>>
  BY <1>1, EmptySeq DEF Listed
<1>4. entries' = SubSeq(entries, 1 + 1, Len(entries))
  BY <1>2, <1>3, TailIsSubSeq
<1>5. /\ Listed(entries') /\ Len(entries') = Len(entries) - 1
      /\ \A k \in 1 .. Len(entries) - 1 : entries'[k] = entries[1 + k]
  <2>1. 1 \in 0 .. Len(entries) /\ Len(entries) \in 1 .. Len(entries)
    BY <1>1
  <2> QED BY <1>1, <1>4, <2>1, SubList
<1>6. DOMAIN entries' = 1 .. Len(entries) - 1
  BY <1>5, ListFacts
<1>7. StepsGood(entries', curStep - 1, Open)
  <2>1. 1 \in Nat /\ curStep \in Nat /\ StepsGood(entries, curStep, Open)
    BY <1>1 DEF FullInv, Typed
  <2> DEFINE t == entries'
  <2>2. DOMAIN t = 1 .. Len(entries) - 1 /\ \A k \in 1 .. Len(entries) - 1 : t[k] = entries[1 + k]
    BY <1>5, <1>6
  <2> HIDE DEF t
  <2>3. StepsGood(t, curStep - 1, Open)
    BY <1>1, <2>1, <2>2, ShiftGood
  <2> QED BY <2>3 DEF t
<1>8. Open => cur' = cur
  <2> SUFFICES ASSUME Open PROVE cur' = cur
    OBVIOUS
  <2>1. Len(entries) = curStep + 1
    BY DEF FullInv, IInv
  <2>2. curStep \in 1 .. Len(entries) - 1 /\ curStep - 1 + 1 = curStep /\ 1 + curStep = curStep + 1
    BY <1>1, <2>1
  <2>3. entries'[curStep] = entries[1 + curStep]
    BY <1>5, <2>2
  <2> QED BY <1>2, <2>2, <2>3 DEF cur
<1> QED BY <1>2, <1>7, <1>8, CutInv

\* Undo and redo trade the mesh with a step that has no active chunk.
LEMMA ReplayedFull ==
  ASSUME FullInv, IInv', client.mode = "closed", NEW n \in DOMAIN entries,
         NEW r \in StepReplay(Stamp(strokeId), entries[n].chunks), mesh' = r.mesh,
         entries' = [entries EXCEPT ![n].chunks = r.chunks, ![n].snap = active],
         active' = entries[n].snap, UNCHANGED <<strokeId, stamps, preview, client>>
  PROVE  FullInv'
<1> DEFINE e == entries[n]
           f == [e EXCEPT !.chunks = r.chunks]
           g == [f EXCEPT !.snap = active]
<1>1. ~Open /\ ~Open' /\ ~preview.active
  BY DEF Open, FullInv, Previewing, Editing
<1>2. /\ \A k \in DOMAIN entries : GoodEntry(entries[k]) /\ entries[k].topo = 0
      /\ active \in Elems \cup {NoElem}
  BY <1>1 DEF FullInv, Typed, StepsGood
<1>3. /\ r.mesh \in Mesh(Stamp(strokeId)) /\ r.chunks \in Seq(Chunk) /\ Len(r.chunks) = Len(e.chunks)
      /\ \A k \in 1 .. Len(r.chunks) : r.chunks[k].kind = e.chunks[k].kind
  BY DEF StepReplay
<1>4. entries' = [entries EXCEPT ![n] = g]
  OBVIOUS
<1>5. GoodEntry(e) /\ e.topo = 0 /\ e.snap \in Elems \cup {NoElem}
  BY <1>2 DEF GoodEntry, EntryType
<1> HIDE DEF e
<1>6. GoodEntry(f) /\ f.topo = 0
  BY <1>3, <1>5, EntryLike
<1> HIDE DEF f
<1>7. g \in EntryType /\ g.topo = 0 /\ g.chunks = f.chunks
  BY <1>2, <1>6 DEF GoodEntry, EntryType
<1>8. GoodEntry(g) /\ g.topo = 0
  <2>1. StoreOf(g) = StoreOf(f)
    BY <1>7 DEF StoreOf
  <2> HIDE DEF g
  <2> QED BY <1>6, <1>7, <2>1 DEF GoodEntry
<1> HIDE DEF g
<1>9. StepsGood(entries', curStep', Open')
  BY <1>2, <1>4, <1>8 DEF StepsGood
<1>10. Typed'
  BY <1>3, <1>5, <1>9 DEF FullInv, Typed, e
<1> QED BY <1>1, <1>10, QuietInv DEF Editing

LEMMA UndoFull ==
  ASSUME FullInv, IInv', Undo
  PROVE  FullInv'
<1>1. client.mode = "closed" /\ curStep \in DOMAIN entries
  BY ListFacts DEF Undo, FullInv, IInv
<1> DEFINE r == UndoStep([mesh |-> mesh, chunks |-> entries[curStep].chunks])
<1>2. /\ mesh' = r.mesh /\ active' = entries[curStep].snap
      /\ entries' = [entries EXCEPT ![curStep].chunks = r.chunks, ![curStep].snap = active]
      /\ UNCHANGED <<strokeId, stamps, preview, client>>
  BY DEF Undo
<1>3. r \in StepReplay(Stamp(strokeId), entries[curStep].chunks)
  <2>1. entries[curStep].chunks \in Seq(Chunk)
    BY <1>1 DEF FullInv, Typed, StepsGood, GoodEntry, EntryType
  <2>2. NoStamp \in Stamp(strokeId) /\ mesh \in Mesh(Stamp(strokeId))
    BY StampFacts, MeshLogAssumption DEF FullInv, Typed
  <2> QED BY <2>1, <2>2, StepTyped
<1> HIDE DEF r
<1> QED BY <1>1, <1>2, <1>3, ReplayedFull

LEMMA RedoFull ==
  ASSUME FullInv, IInv', Redo
  PROVE  FullInv'
<1>1. client.mode = "closed" /\ curStep + 1 \in DOMAIN entries
  BY ListFacts DEF Redo, FullInv, IInv
<1> DEFINE r == RedoStep([mesh |-> mesh, chunks |-> cur.chunks])
<1>2. /\ mesh' = r.mesh /\ active' = entries[curStep + 1].snap
      /\ entries' = [entries EXCEPT ![curStep + 1].chunks = r.chunks, ![curStep + 1].snap = active]
      /\ UNCHANGED <<strokeId, stamps, preview, client>>
  BY DEF Redo, cur
<1>3. r \in StepReplay(Stamp(strokeId), entries[curStep + 1].chunks)
  <2>1. entries[curStep + 1].chunks \in Seq(Chunk)
    BY <1>1 DEF FullInv, Typed, StepsGood, GoodEntry, EntryType
  <2>2. NoStamp \in Stamp(strokeId) /\ mesh \in Mesh(Stamp(strokeId))
    BY StampFacts, MeshLogAssumption DEF FullInv, Typed
  <2> QED BY <2>1, <2>2, StepTyped DEF cur
<1> HIDE DEF r
<1> QED BY <1>1, <1>2, <1>3, ReplayedFull

-----------------------------------------------------------------------------
(* The theorems.                                                           *)

LEMMA NextFull == ASSUME FullInv, [Next]_vars PROVE FullInv'
<1>1. IInv'
  BY NextInv DEF FullInv
<1>2. CASE \E mode \in Modes : BeginStep(mode)
  BY <1>1, <1>2, BeginStepFull
<1>3. CASE EndStep
  BY <1>1, <1>3, EndStepFull
<1>4. CASE \E p \in Perms : Compact(p) \/ ReorderForLocality(p)
  BY <1>1, <1>4, CompactFull, ReorderFull
<1>5. CASE \E n \in Limits : SetMaxUndoSteps(n)
  BY <1>1, <1>5, SetMaxUndoStepsFull
<1>6. CASE FreeStep
  BY <1>1, <1>6, FreeStepFull
<1>7. CASE \E i \in Elems, row \in Rows : TopoCreate(i, row) \/ TopoChange(i, row)
  BY <1>1, <1>7, TopoCreateFull, TopoChangeFull
<1>8. CASE \E i \in Elems : TopoKill(i)
  BY <1>1, <1>8, TopoKillFull
<1>9. CASE \E i \in Elems, v \in Vals : Drag(i, v) \/ Select(i, v)
  BY <1>1, <1>9, DragFull, SelectFull
<1>10. CASE \E i \in Elems, K \in Kernels, v \in Vals : Deform(i, K, v)
  BY <1>1, <1>10, DeformFull
<1>11. CASE \E i \in Elems : CapturePreview(i)
  BY <1>1, <1>11, CapturePreviewFull
<1>12. CASE \E i \in Elems \cup {NoElem} : SetActiveElem(i)
  BY <1>1, <1>12, SetActiveFull
<1>13. CASE Seal
  BY <1>1, <1>13, SealFull
<1>14. CASE BeginPreviewDab
  BY <1>1, <1>14, BeginPreviewFull
<1>15. CASE RollbackPreviewDab
  BY <1>1, <1>15, RollbackFull
<1>16. CASE CommitPreviewDab
  BY <1>1, <1>16, CommitFull
<1>17. CASE Undo
  BY <1>1, <1>17, UndoFull
<1>18. CASE Redo
  BY <1>1, <1>18, RedoFull
<1>19. CASE UNCHANGED vars
  BY <1>1, <1>19, StutterFull
<1>20. CASE \E i \in Elems :
              \/ \E row \in Rows : TopoCreate(i, row) \/ TopoChange(i, row)
              \/ TopoKill(i)
              \/ \E v \in Vals : Drag(i, v) \/ Select(i, v)
              \/ \E K \in Kernels, v \in Vals : Deform(i, K, v)
              \/ CapturePreview(i)
  BY <1>7, <1>8, <1>9, <1>10, <1>11, <1>20
<1> QED BY <1>2, <1>3, <1>4, <1>5, <1>6, <1>12, <1>13, <1>14, <1>15, <1>16, <1>17,
           <1>18, <1>19, <1>20 DEF Next

LEMMA FullAlways == Spec => []FullInv
BY InitFull, NextFull, PTL DEF Spec

LEMMA FullTypes == ASSUME FullInv PROVE TypeOK
<1>1. /\ mesh \in Mesh(Stamp(strokeId)) /\ active \in Elems \cup {NoElem}
      /\ StepsGood(entries, curStep, Open) /\ strokeId \in 0 .. MaxStrokes /\ stamps \subseteq Elems
      /\ preview \in PreviewType /\ client \in ClientType
  BY DEF FullInv, Typed
<1>2. /\ mesh.live \subseteq Elems /\ mesh.data \in [Elems -> Rows]
      /\ mesh.gate \in [Elems -> [sid : 0 .. StrokeMod - 1, saved : SUBSET AllFlags]]
  <2>1. mesh.gate \in [Elems -> Stamp(strokeId)]
    BY <1>1 DEF Mesh
  <2>2. Stamp(strokeId) \subseteq [sid : 0 .. StrokeMod - 1, saved : SUBSET AllFlags]
    BY DEF Stamp
  <2> QED BY <1>1, <2>1, <2>2 DEF Mesh
<1>3. curStep \in 0 .. Len(entries) /\ (Open => Len(entries) = curStep + 1)
  BY DEF FullInv, IInv
<1>4. ASSUME NEW n \in DOMAIN entries
      PROVE  /\ \A k \in DOMAIN entries[n].chunks : IsChunk(entries[n].chunks[k])
             /\ Cardinality(StoreOf(entries[n])) <= 1
             /\ entries[n].topo # 0 =>
                  /\ entries[n].topo \in DOMAIN entries[n].chunks
                  /\ entries[n].chunks[entries[n].topo].kind = "topo"
                  /\ Open /\ n = curStep + 1
  <2> DEFINE e == entries[n]
  <2>1. GoodEntry(e) /\ (e.topo # 0 => Open /\ n = curStep + 1)
    BY <1>1 DEF StepsGood
  <2> HIDE DEF e
  <2>2. \A ch \in Chunk : IsChunk(ch)
    <3>1. \A ch \in TopoChunk : IsChunk(ch)
      BY DEF TopoChunk, IsChunk
    <3>2. \A ch \in StoreChunk : IsChunk(ch)
      BY DEF StoreChunk, SavedRow, IsChunk
    <3>3. \A ch \in ReorderChunk : IsChunk(ch)
      BY DEF ReorderChunk, Perms, Bijection, Injection, Surjection, IsChunk
    <3> QED BY <3>1, <3>2, <3>3 DEF Chunk
  <2>3. \A k \in DOMAIN e.chunks : IsChunk(e.chunks[k])
    BY <2>1, <2>2, EntryFields
  <2>4. Cardinality(StoreOf(e)) <= 1
    <3>1. CASE StoreOf(e) = {}
      BY <3>1, FS_EmptySet
    <3>2. CASE StoreOf(e) # {}
      <4>1. PICK k : StoreOf(e) = {k}
        BY <2>1, <3>2 DEF GoodEntry
      <4> QED BY <4>1, FS_Singleton
    <3> QED BY <3>1, <3>2
  <2> QED BY <2>1, <2>3, <2>4 DEF GoodEntry, e
<1>5. /\ preview.active \in BOOLEAN /\ preview.baseline \in Nat
      /\ preview.gated \subseteq Elems /\ DOMAIN preview.rows \subseteq Elems
  BY <1>1 DEF PreviewType
<1>6. /\ client.mode \in Modes \cup {"closed"} /\ client.dab \in {"idle", "topo", "deform"}
      /\ client.style \in Styles \cup {{}} /\ client.committed \in BOOLEAN
  BY <1>1 DEF ClientType
<1> QED BY <1>1, <1>2, <1>3, <1>4, <1>5, <1>6 DEF TypeOK

\* Every variable of the log and of its clients keeps its type, a step has one
\* element store, and only the open step has an active topology chunk.
THEOREM TypesHold == Spec => []TypeOK
BY FullAlways, FullTypes, PTL

LEMMA FullHonest == ASSUME FullInv PROVE strokeId < StrokeMod => GateHonest
BY DEF FullInv, Honest, Vouched, Evidence, GateHonest

\* A stroke id not yet wrapped: a column the gate says is saved has its pre-step
\* value in the step, across previews that are rolled back, seals, kills and the
\* reuse of an index (AttrSaver::needsData, attr_saver.h).
THEOREM GateHonestUntilWrap == Spec => [](strokeId < StrokeMod => GateHonest)
BY FullAlways, FullHonest, PTL

\* So the gate is honest in every log whose steps the 16 bits of the stroke id
\* can tell apart.
THEOREM GateAlwaysHonest ==
  ASSUME MaxStrokes < StrokeMod
  PROVE  Spec => []GateHonest
<1>1. FullInv => GateHonest
  <2> SUFFICES ASSUME FullInv PROVE GateHonest
    OBVIOUS
  <2>1. strokeId < StrokeMod
    BY MeshLogAssumption DEF FullInv, Typed
  <2> QED BY <2>1, FullHonest
<1> QED BY <1>1, FullAlways, PTL

\* What a topology chunk of the open step recorded never reaches the element
\* store in a stroke whose dabs are all real or all previews (stampUndoGate).
THEOREM OwnedGatedUnlessMixed == Spec => [](~Mixing => TopoOwnedStayGated)
<1>1. FullInv => (~Mixing => TopoOwnedStayGated)
  BY DEF FullInv, Owned, TopoOwnedStayGated
<1> QED BY <1>1, FullAlways, PTL

\* So it never does for clients that do not mix the two.
THEOREM OwnedAlwaysGated ==
  ASSUME {"real", "preview"} \notin Styles
  PROVE  Spec => []TopoOwnedStayGated
<1>1. FullInv => TopoOwnedStayGated
  <2> SUFFICES ASSUME FullInv PROVE TopoOwnedStayGated
    OBVIOUS
  <2>1. ~Mixing
    BY DEF FullInv, Typed, ClientType, Mixing
  <2> QED BY <2>1 DEF FullInv, Owned, TopoOwnedStayGated
<1> QED BY <1>1, FullAlways, PTL
=============================================================================
