-------------------------- MODULE DeformPoolProofs --------------------------
(***************************************************************************)
(* Proofs about DeformPool for any number of cells, threads, runs, shards  *)
(* and table entries.                                                      *)
(*                                                                         *)
(* The argument: an operation in flight keeps its own references apart     *)
(* from everybody else's (Discipline), so each critical section moves one  *)
(* entry's count and that entry's holders together (RefsExact); a counted  *)
(* entry still has its run (CountedInterned), so no held cell dangles.     *)
(*                                                                         *)
(* The pool implements a plain column of runs (WeightColumn): a cell's     *)
(* contents change only at the one step of its writer that gives up the    *)
(* old reference or copies the bytes; everybody else's interning,          *)
(* releasing and sweeping leaves it alone because the entry it names is    *)
(* counted, and neither sweep() nor intern() changes a counted entry's     *)
(* run.                                                                    *)
(***************************************************************************)
EXTENDS DeformPool, FiniteSetTheorems, TLAPS

\* No two operations work on the same cell, and what an operation reads stays
\* put until it has taken its reference.
Discipline ==
  /\ \A t \in Threads : pc[t] # "idle" => dst[t] \in Cells /\ src[t] # dst[t]
  /\ \A t, u \in Threads : t # u /\ pc[t] # "idle" /\ pc[u] # "idle" =>
                             dst[t] # dst[u] /\ dst[t] # src[u]
  /\ \A t \in Threads : pc[t] \in {"memcpy", "hold"} => src[t] \in Cells
  /\ \A t \in Threads : pc[t] = "retain" /\ ~owns[t] =>
                          src[t] \in Cells /\ cell[src[t]] = val[t]
  /\ \A t \in Threads : pc[t] = "hold" => cell[dst[t]] = cell[src[t]]
  /\ \A t \in Threads : pc[t] = "drop" => owns[t]
  /\ \A t \in Threads : owns[t] => pc[t] \in {"retain", "release", "store", "drop"}

\* Entries past the end of a shard's table do not exist yet.
TableEnd ==
  \A s \in Slots : s[2] > size[s[1]] => run[s] = NoRun /\ refs[s] = 0

\* A counted entry has not been reclaimed.
CountedInterned == \A s \in Slots : refs[s] > 0 => run[s] \in Runs

IInv ==
  TypeOK /\ Discipline /\ TableEnd /\ CountedInterned /\ InternedOnce /\ RefsExact

-----------------------------------------------------------------------------
(* Type correctness.                                                       *)

LEMMA SlotFields ==
  ASSUME NEW s \in Slots
  PROVE  s[1] \in Shards /\ s[2] \in 1 .. MaxLocal /\ s = <<s[1], s[2]>> /\ s # EmptySlot
BY DeformPoolAssumption DEF Slots

\* intern() hands out an entry of the table or the empty run's slot.
LEMMA InternType ==
  ASSUME TypeOK, NEW r \in Runs \cup {EmptyRun}, NEW s \in Slots \cup {EmptySlot},
         Intern(r, s)
  PROVE  /\ size' \in [Shards -> 0 .. MaxLocal]
         /\ run' \in [Slots -> Runs \cup {NoRun}]
         /\ refs' \in [Slots -> Nat]
         /\ free' \in [Slots -> Nat]
         /\ live' \in [Shards -> Int]
<1>1. CASE UNCHANGED pool
  BY <1>1 DEF TypeOK, pool
<1>2. CASE s \in Slots /\ Found(r, s)
  BY <1>2, SlotFields DEF TypeOK, Found
<1>3. CASE r \in Runs /\ s \in Slots /\ Appended(r, s)
  <2>1. ShardOf[r] \in Shards /\ size[ShardOf[r]] + 1 \in 0 .. MaxLocal
    BY <1>3, DeformPoolAssumption DEF TypeOK, Appended
  <2> QED
    BY <1>3, <2>1, SlotFields DEF TypeOK, Appended
<1> QED
  BY <1>1, <1>2, <1>3 DEF Intern

LEMMA IncRefType ==
  ASSUME TypeOK, NEW s \in SlotValues, IncRef(s)
  PROVE  refs' \in [Slots -> Nat] /\ UNCHANGED <<size, run, free, live>>
BY DEF TypeOK, IncRef, SlotValues

LEMMA DecRefType ==
  ASSUME TypeOK, NEW s \in SlotValues, DecRef(s)
  PROVE  /\ refs' \in [Slots -> Nat]
         /\ free' \in [Slots -> Nat]
         /\ live' \in [Shards -> Int]
         /\ UNCHANGED <<size, run>>
<1>1. CASE s = EmptySlot \/ refs[s] = 0
  BY <1>1 DEF TypeOK, DecRef, pool
<1>2. CASE s # EmptySlot /\ refs[s] # 0
  <2>1. s \in Slots /\ s[1] \in Shards /\ refs[s] - 1 \in Nat
    BY <1>2, SlotFields DEF TypeOK, SlotValues
  <2> QED
    BY <1>2, <2>1 DEF TypeOK, DecRef
<1> QED
  BY <1>1, <1>2

\* What an operation does to its own locals keeps their types.
LEMMA BeginType ==
  ASSUME TypeOK, NEW t \in Threads, NEW c \in Cells, NEW d \in Cells \cup {NoCell},
         NEW s \in SlotValues, NEW label \in Labels, NEW own \in BOOLEAN,
         Begin(t, label, c, d, s, own)
  PROVE  /\ pc' \in [Threads -> Labels]
         /\ dst' \in [Threads -> Cells \cup {NoCell}]
         /\ src' \in [Threads -> Cells \cup {NoCell}]
         /\ val' \in [Threads -> SlotValues]
         /\ owns' \in [Threads -> BOOLEAN]
BY DEF TypeOK, Begin

LEMMA GotoType ==
  ASSUME TypeOK, NEW t \in Threads, NEW label \in Labels,
         Goto(t, label) \/ Return(t)
  PROVE  /\ pc' \in [Threads -> Labels]
         /\ dst' \in [Threads -> Cells \cup {NoCell}]
         /\ src' \in [Threads -> Cells \cup {NoCell}]
         /\ val' \in [Threads -> SlotValues]
         /\ owns' \in [Threads -> BOOLEAN]
<1>1. CASE Goto(t, label)
  BY <1>1 DEF TypeOK, Goto
<1>2. CASE Return(t)
  BY <1>2 DEF TypeOK, Return, Labels, SlotValues
<1> QED
  BY <1>1, <1>2

LEMMA TypeStep ==
  ASSUME TypeOK, Discipline, [Next]_vars
  PROVE  TypeOK'
<1> USE DeformPoolAssumption
<1>1. CASE UNCHANGED vars
  BY <1>1 DEF TypeOK, vars
<1>2. ASSUME NEW t \in Threads, NEW c \in Cells, NEW r \in Runs \cup {EmptyRun},
             SetRun(t, c, r)
      PROVE  TypeOK'
  <2>1. PICK s \in Slots \cup {EmptySlot} :
          /\ Intern(r, s)
          /\ Begin(t, IF cell[c] = s THEN "drop" ELSE "retain", c, NoCell, s, TRUE)
          /\ UNCHANGED cell
    BY <1>2 DEF SetRun
  <2>2. s \in SlotValues /\ (IF cell[c] = s THEN "drop" ELSE "retain") \in Labels
    BY <2>1 DEF SlotValues, Labels
  <2> QED
    BY <2>1, <2>2, InternType, BeginType DEF TypeOK
<1>3. ASSUME NEW t \in Threads, NEW c \in Cells, NEW d \in Cells, Assign(t, c, d)
      PROVE  TypeOK'
  <2>1. cell[d] \in SlotValues /\ "retain" \in Labels
    BY DEF TypeOK, Labels
  <2> QED
    BY <1>3, <2>1, BeginType DEF TypeOK, Assign, pool
<1>4. ASSUME NEW t \in Threads, NEW c \in Cells, NEW d \in Cells \cup {NoCell},
             Begin(t, "clear", c, d, EmptySlot, FALSE), DecRef(cell[c]), UNCHANGED cell
      PROVE  TypeOK'
  <2>1. cell[c] \in SlotValues /\ EmptySlot \in SlotValues /\ "clear" \in Labels
    BY DEF TypeOK, SlotValues, Labels
  <2> QED
    BY <1>4, <2>1, BeginType, DecRefType DEF TypeOK
<1>5. ASSUME NEW t \in Threads, Step(t)
      PROVE  TypeOK'
  <2>1. val[t] \in SlotValues /\ EmptySlot \in SlotValues
    BY DEF TypeOK, SlotValues
  <2>2. pc[t] # "idle" => dst[t] \in Cells /\ cell[dst[t]] \in SlotValues
    BY DEF TypeOK, Discipline
  <2>3. {"release", "store", "drop", "memcpy", "hold"} \subseteq Labels
    BY DEF Labels
  <2>4. CASE RetainVal(t)
    BY <2>4, <2>1, <2>3, IncRefType, GotoType DEF TypeOK, RetainVal
  <2>5. CASE ReleaseOld(t)
    BY <2>5, <2>2, <2>3, DecRefType, GotoType DEF TypeOK, ReleaseOld
  <2>6. CASE Store(t)
    BY <2>6, <2>1, <2>3, GotoType DEF TypeOK, Store, pool
  <2>7. CASE Drop(t)
    BY <2>7, <2>1, <2>3, DecRefType, GotoType DEF TypeOK, Drop
  <2>8. CASE Clear(t)
    BY <2>8, <2>1, <2>3, GotoType DEF TypeOK, Clear, pool
  <2>9. CASE Memcpy(t)
    <3>1. cell[src[t]] \in SlotValues
      BY <2>9 DEF Memcpy, Discipline, TypeOK
    <3> QED
      BY <2>9, <3>1, <2>3, GotoType DEF TypeOK, Memcpy, pool
  <2>10. CASE Hold(t)
    BY <2>10, <2>2, <2>3, IncRefType, GotoType DEF TypeOK, Hold
  <2> QED
    BY <1>5, <2>4, <2>5, <2>6, <2>7, <2>8, <2>9, <2>10 DEF Step
<1>6. ASSUME NEW c \in Cells, NEW d \in Cells, SwapCells(c, d)
      PROVE  TypeOK'
  BY <1>6 DEF TypeOK, SwapCells, pool, locals
<1>7. ASSUME NEW h \in Shards, SweepShard(h)
      PROVE  TypeOK'
  BY <1>7 DEF TypeOK, SweepShard, locals
<1> QED
  BY <1>1, <1>2, <1>3, <1>4, <1>5, <1>6, <1>7 DEF Next, Wipe, Capture

-----------------------------------------------------------------------------
(* Operations in flight keep out of each other's way.                      *)

LEMMA DisciplineStep ==
  ASSUME TypeOK, Discipline, [Next]_vars
  PROVE  Discipline'
<1> USE DeformPoolAssumption
<1>1. CASE UNCHANGED vars
  BY <1>1 DEF Discipline, vars
<1>2. ASSUME NEW t \in Threads, NEW c \in Cells, NEW d \in Cells \cup {NoCell},
             NEW s, NEW label \in {"retain", "drop", "clear"}, NEW own \in BOOLEAN,
             Begin(t, label, c, d, s, own), UNCHANGED cell,
             d # c, d # NoCell => Readable(d),
             label = "retain" /\ ~own => d \in Cells /\ cell[d] = s,
             label = "drop" => own, own => label # "clear"
      PROVE  Discipline'
  <2>1. pc[t] = "idle" /\ Writable(c)
    BY <1>2 DEF Begin
  <2>2. /\ pc' = [pc EXCEPT ![t] = label] /\ dst' = [dst EXCEPT ![t] = c]
        /\ src' = [src EXCEPT ![t] = d] /\ val' = [val EXCEPT ![t] = s]
        /\ owns' = [owns EXCEPT ![t] = own]
    BY <1>2 DEF Begin
  <2>3. \A u \in Threads : u # t /\ pc[u] # "idle" =>
          dst[u] # c /\ src[u] # c /\ dst[u] # d
    BY <1>2, <2>1 DEF Writable, Readable, Discipline
  <2> QED
    BY <1>2, <2>1, <2>2, <2>3 DEF TypeOK, Discipline
<1>3. ASSUME NEW t \in Threads, NEW c \in Cells, NEW r \in Runs \cup {EmptyRun},
             SetRun(t, c, r)
      PROVE  Discipline'
  BY <1>3, <1>2 DEF SetRun
<1>4. ASSUME NEW t \in Threads, NEW c \in Cells, NEW d \in Cells, Assign(t, c, d)
      PROVE  Discipline'
  BY <1>4, <1>2 DEF Assign
<1>5. ASSUME NEW t \in Threads, NEW c \in Cells,
             Wipe(t, c) \/ \E d \in Cells : Capture(t, c, d)
      PROVE  Discipline'
  BY <1>5, <1>2 DEF Wipe, Capture
<1>6. ASSUME NEW t \in Threads, Step(t)
      PROVE  Discipline'
  <2>1. CASE RetainVal(t)
    BY <2>1 DEF TypeOK, Discipline, RetainVal, Goto
  <2>2. CASE ReleaseOld(t)
    BY <2>2 DEF TypeOK, Discipline, ReleaseOld, Goto
  <2>3. CASE Store(t)
    BY <2>3 DEF TypeOK, Discipline, Store, Goto, Return
  <2>4. CASE Drop(t)
    BY <2>4 DEF TypeOK, Discipline, Drop, Return
  <2>5. CASE Clear(t)
    BY <2>5 DEF TypeOK, Discipline, Clear, Goto, Return
  <2>6. CASE Memcpy(t)
    BY <2>6 DEF TypeOK, Discipline, Memcpy, Goto
  <2>7. CASE Hold(t)
    BY <2>7 DEF TypeOK, Discipline, Hold, Return
  <2> QED
    BY <1>6, <2>1, <2>2, <2>3, <2>4, <2>5, <2>6, <2>7 DEF Step
<1>7. ASSUME NEW c \in Cells, NEW d \in Cells, SwapCells(c, d)
      PROVE  Discipline'
  BY <1>7 DEF TypeOK, Discipline, SwapCells, Writable, locals
<1>8. ASSUME NEW h \in Shards, SweepShard(h)
      PROVE  Discipline'
  BY <1>8 DEF Discipline, SweepShard, locals
<1> QED
  BY <1>1, <1>3, <1>4, <1>5, <1>6, <1>7, <1>8 DEF Next

-----------------------------------------------------------------------------
(* Counting holders.                                                       *)

LEMMA HoldersFinite ==
  /\ IsFiniteSet(HolderIds)
  /\ \A s \in Slots : IsFiniteSet(Holders(s)) /\ Cardinality(Holders(s)) \in Nat
<1>1. IsFiniteSet({"cell"}) /\ IsFiniteSet({"intern"}) /\ IsFiniteSet({"reassign"})
  BY FS_Singleton
<1>2. IsFiniteSet({"intern", "reassign"})
  <2>1. {"intern", "reassign"} = {"intern"} \cup {"reassign"}
    OBVIOUS
  <2> QED
    BY <1>1, <2>1, FS_Union
<1>3. IsFiniteSet({"cell"} \X Cells) /\ IsFiniteSet({"intern", "reassign"} \X Threads)
  BY <1>1, <1>2, FS_Product, DeformPoolAssumption
<1>4. IsFiniteSet(HolderIds)
  BY <1>3, FS_Union DEF HolderIds
<1>5. \A s \in Slots : IsFiniteSet(Holders(s)) /\ Cardinality(Holders(s)) \in Nat
  BY <1>4, FS_Subset, FS_CardinalityType DEF Holders
<1> QED
  BY <1>4, <1>5

LEMMA HeldCounted ==
  ASSUME RefsExact, NEW s \in Slots, NEW x \in HolderIds, Holds(x, s)
  PROVE  refs[s] \in Nat /\ refs[s] > 0
<1>1. x \in Holders(s)
  BY DEF Holders
<1>2. Cardinality(Holders(s)) # 0
  BY <1>1, HoldersFinite, FS_EmptySet
<1> QED
  BY <1>2, HoldersFinite DEF RefsExact

LEMMA CountSame ==
  ASSUME NEW s \in Slots, \A x \in HolderIds : Holds(x, s)' <=> Holds(x, s)
  PROVE  Cardinality(Holders(s))' = Cardinality(Holders(s))
<1>1. Holders(s)' = Holders(s)
  BY DEF Holders, HolderIds
<1> QED
  BY <1>1

LEMMA CountGain ==
  ASSUME NEW s \in Slots, NEW y \in HolderIds, ~Holds(y, s),
         \A x \in HolderIds : Holds(x, s)' <=> Holds(x, s) \/ x = y
  PROVE  Cardinality(Holders(s))' = Cardinality(Holders(s)) + 1
<1>1. Holders(s)' = Holders(s) \cup {y} /\ y \notin Holders(s)
  BY DEF Holders, HolderIds
<1> QED
  BY <1>1, HoldersFinite, FS_AddElement

LEMMA CountLoss ==
  ASSUME NEW s \in Slots, NEW y \in HolderIds, Holds(y, s),
         \A x \in HolderIds : Holds(x, s)' <=> Holds(x, s) /\ x # y
  PROVE  Cardinality(Holders(s))' = Cardinality(Holders(s)) - 1
<1>1. Holders(s)' = Holders(s) \ {y} /\ y \in Holders(s)
  BY DEF Holders, HolderIds
<1> QED
  BY <1>1, HoldersFinite, FS_RemoveElement

\* A reference changes hands.
LEMMA CountMove ==
  ASSUME NEW s \in Slots, NEW y \in HolderIds, NEW z \in HolderIds,
         Holds(y, s), ~Holds(z, s),
         \A x \in HolderIds : Holds(x, s)' <=> (Holds(x, s) /\ x # y) \/ x = z
  PROVE  Cardinality(Holders(s))' = Cardinality(Holders(s))
<1>1. /\ Holders(s)' = (Holders(s) \ {y}) \cup {z}
      /\ y \in Holders(s) /\ z \notin Holders(s) \ {y}
  BY DEF Holders, HolderIds
<1>2. /\ IsFiniteSet(Holders(s) \ {y})
      /\ Cardinality(Holders(s) \ {y}) = Cardinality(Holders(s)) - 1
  BY <1>1, HoldersFinite, FS_RemoveElement
<1>3. Cardinality((Holders(s) \ {y}) \cup {z}) = Cardinality(Holders(s) \ {y}) + 1
  BY <1>1, <1>2, FS_AddElement
<1> QED
  BY <1>1, <1>2, <1>3, HoldersFinite

-----------------------------------------------------------------------------
(* The pool's table across its critical sections.                          *)

LEMMA InternTable ==
  ASSUME TypeOK, TableEnd, CountedInterned, InternedOnce,
         NEW r \in Runs \cup {EmptyRun}, NEW s \in Slots \cup {EmptySlot}, Intern(r, s)
  PROVE  /\ TableEnd' /\ CountedInterned' /\ InternedOnce'
         /\ \A q \in Slots : refs'[q] = refs[q] + (IF q = s THEN 1 ELSE 0)
<1> USE DeformPoolAssumption
<1>1. CASE r = EmptyRun
  BY <1>1 DEF Intern, pool, TableEnd, CountedInterned, InternedOnce, TypeOK
<1>2. CASE s \in Slots /\ r \in Runs /\ Found(r, s)
  BY <1>2, SlotFields DEF Found, TableEnd, CountedInterned, InternedOnce, TypeOK
<1>3. CASE s \in Slots /\ r \in Runs /\ Appended(r, s)
  <2>1. s[1] = ShardOf[r] /\ s[2] = size[s[1]] + 1 /\ size[s[1]] \in Nat
    BY <1>3, SlotFields DEF Appended, TypeOK
  <2>2. run[s] = NoRun /\ refs[s] = 0
    BY <1>3, <2>1 DEF TableEnd
  <2>3. /\ size' = [size EXCEPT ![s[1]] = @ + 1] /\ run' = [run EXCEPT ![s] = r]
        /\ refs' = [refs EXCEPT ![s] = 1] /\ \A q \in Slots : run[q] # r
    BY <1>3, <2>1 DEF Appended
  <2>4. TableEnd'
    <3> SUFFICES ASSUME NEW q \in Slots, q[2] > size'[q[1]]
                 PROVE  run'[q] = NoRun /\ refs'[q] = 0
      BY DEF TableEnd
    <3>1. q[1] \in Shards /\ q[2] \in Nat /\ size[q[1]] \in Nat
      BY SlotFields DEF TypeOK
    <3>2. q[2] > size[q[1]] /\ q # s
      BY <2>1, <2>3, <3>1, <1>3, SlotFields DEF TypeOK
    <3> QED
      BY <2>3, <3>2 DEF TableEnd, TypeOK
  <2> QED
    BY <1>3, <2>2, <2>3, <2>4 DEF CountedInterned, InternedOnce, TypeOK
<1> QED
  BY <1>1, <1>2, <1>3 DEF Intern

LEMMA IncRefTable ==
  ASSUME TypeOK, TableEnd, CountedInterned, InternedOnce,
         NEW s \in SlotValues, s \in Slots => refs[s] > 0, IncRef(s)
  PROVE  /\ TableEnd' /\ CountedInterned' /\ InternedOnce'
         /\ \A q \in Slots : refs'[q] = refs[q] + (IF q = s THEN 1 ELSE 0)
BY DeformPoolAssumption
   DEF IncRef, SlotValues, TableEnd, CountedInterned, InternedOnce, TypeOK

LEMMA DecRefTable ==
  ASSUME TypeOK, TableEnd, CountedInterned, InternedOnce,
         NEW s \in SlotValues, s \in Slots => refs[s] > 0, DecRef(s)
  PROVE  /\ TableEnd' /\ CountedInterned' /\ InternedOnce'
         /\ \A q \in Slots : refs'[q] = refs[q] - (IF q = s THEN 1 ELSE 0)
<1>1. CASE s = EmptySlot
  BY <1>1, DeformPoolAssumption
     DEF DecRef, pool, TableEnd, CountedInterned, InternedOnce, TypeOK
<1>2. CASE s \in Slots
  <2>1. refs' = [refs EXCEPT ![s] = @ - 1] /\ UNCHANGED <<size, run>> /\ refs[s] \in Nat
    BY <1>2, DeformPoolAssumption DEF DecRef, TypeOK
  <2> QED
    BY <1>2, <2>1 DEF TableEnd, CountedInterned, InternedOnce, TypeOK
<1> QED
  BY <1>1, <1>2 DEF SlotValues

-----------------------------------------------------------------------------
(* Every step moves an entry's count and its holders together.             *)

Table == TableEnd /\ CountedInterned /\ InternedOnce /\ RefsExact

\* A cell no operation works on, and one an operation has not yet released,
\* hold their slot.
LEMMA CellHolds ==
  ASSUME TypeOK, Discipline, NEW c \in Cells
  PROVE  /\ Writable(c) => Held(c)
         /\ \A t \in Threads : pc[t] = "release" /\ dst[t] = c => Held(c)
         /\ Held(c) => Holds(<<"cell", c>>, cell[c])
         /\ <<"cell", c>> \in HolderIds
BY DEF Writable, Held, Holds, HolderIds, Discipline

LEMMA BeginStep ==
  ASSUME IInv, NEW t \in Threads, NEW c \in Cells, NEW r \in Runs \cup {EmptyRun},
         SetRun(t, c, r)
  PROVE  Table'
<1>1. PICK s \in Slots \cup {EmptySlot} :
        /\ Intern(r, s)
        /\ Begin(t, IF cell[c] = s THEN "drop" ELSE "retain", c, NoCell, s, TRUE)
        /\ UNCHANGED cell
  BY DEF SetRun
<1>2. TableEnd' /\ CountedInterned' /\ InternedOnce'
      /\ \A q \in Slots : refs'[q] = refs[q] + (IF q = s THEN 1 ELSE 0)
  BY <1>1, InternTable DEF IInv
<1>3. ASSUME NEW q \in Slots
      PROVE  Cardinality(Holders(q))' = Cardinality(Holders(q)) + (IF q = s THEN 1 ELSE 0)
  <2>1. pc[t] = "idle" /\ ~owns[t]
    BY <1>1 DEF Begin, IInv, Discipline
  <2>2. \A x \in HolderIds : Holds(x, q)' <=> Holds(x, q) \/ (q = s /\ x = <<"intern", t>>)
    BY <1>1, <2>1 DEF Begin, Holds, Held, HolderIds, IInv, TypeOK
  <2>3. <<"intern", t>> \in HolderIds /\ ~Holds(<<"intern", t>>, q)
    BY <2>1 DEF HolderIds, Holds
  <2>4. CASE q = s
    BY <2>2, <2>3, <2>4, CountGain
  <2>5. CASE q # s
    BY <2>2, <2>5, CountSame, HoldersFinite
  <2> QED
    BY <2>4, <2>5
<1> QED
  BY <1>2, <1>3 DEF Table, RefsExact, IInv

LEMMA AssignStep ==
  ASSUME IInv, NEW t \in Threads, NEW c \in Cells, NEW d \in Cells, Assign(t, c, d)
  PROVE  Table'
<1>1. \A q \in Slots : \A x \in HolderIds : Holds(x, q)' <=> Holds(x, q)
  BY DEF Assign, Begin, Holds, Held, HolderIds, IInv, TypeOK, Discipline
<1>2. \A q \in Slots : Cardinality(Holders(q))' = Cardinality(Holders(q))
  BY <1>1, CountSame
<1> QED
  BY <1>2 DEF Table, RefsExact, IInv, Assign, pool, TableEnd, CountedInterned, InternedOnce

\* weightsReleaseElem, releaseWeights and the start of captureFrom.
LEMMA WipeStep ==
  ASSUME IInv, NEW t \in Threads, NEW c \in Cells, NEW d \in Cells \cup {NoCell},
         Begin(t, "clear", c, d, EmptySlot, FALSE), DecRef(cell[c]), UNCHANGED cell
  PROVE  Table'
<1>1. cell[c] \in SlotValues /\ Held(c) /\ Holds(<<"cell", c>>, cell[c])
      /\ <<"cell", c>> \in HolderIds
  BY CellHolds DEF IInv, TypeOK, Begin
<1>2. cell[c] \in Slots => refs[cell[c]] > 0
  BY <1>1, HeldCounted DEF IInv
<1>3. TableEnd' /\ CountedInterned' /\ InternedOnce'
      /\ \A q \in Slots : refs'[q] = refs[q] - (IF q = cell[c] THEN 1 ELSE 0)
  BY <1>1, <1>2, DecRefTable DEF IInv
<1>4. ASSUME NEW q \in Slots
      PROVE  Cardinality(Holders(q))' =
               Cardinality(Holders(q)) - (IF q = cell[c] THEN 1 ELSE 0)
  <2>1. pc[t] = "idle" /\ ~owns[t]
    BY DEF Begin, IInv, Discipline
  <2>2. \A x \in HolderIds :
          Holds(x, q)' <=> Holds(x, q) /\ (q = cell[c] => x # <<"cell", c>>)
    BY <1>1, <2>1 DEF Begin, Holds, Held, HolderIds, IInv, TypeOK
  <2>3. CASE q = cell[c]
    BY <1>1, <2>2, <2>3, CountLoss
  <2>4. CASE q # cell[c]
    BY <2>2, <2>4, CountSame, HoldersFinite
  <2> QED
    BY <2>3, <2>4
<1> QED
  BY <1>3, <1>4 DEF Table, RefsExact, IInv

LEMMA RetainStep ==
  ASSUME IInv, NEW t \in Threads, RetainVal(t)
  PROVE  Table'
<1>1. pc[t] = "retain" /\ val[t] \in SlotValues /\ <<"reassign", t>> \in HolderIds
      /\ <<"intern", t>> \in HolderIds
  BY DEF RetainVal, IInv, TypeOK, HolderIds
<1>2. val[t] \in Slots => refs[val[t]] > 0
  <2>1. CASE owns[t]
    <3>1. Holds(<<"intern", t>>, val[t])
      BY <2>1 DEF Holds
    <3> QED
      BY <1>1, <3>1, HeldCounted DEF IInv
  <2>2. CASE ~owns[t]
    <3>1. src[t] \in Cells /\ cell[src[t]] = val[t] /\ Held(src[t])
      BY <1>1, <2>2 DEF IInv, Discipline, Held
    <3> QED
      BY <1>1, <3>1, CellHolds, HeldCounted DEF IInv
  <2> QED
    BY <2>1, <2>2
<1>3. TableEnd' /\ CountedInterned' /\ InternedOnce'
      /\ \A q \in Slots : refs'[q] = refs[q] + (IF q = val[t] THEN 1 ELSE 0)
  BY <1>1, <1>2, IncRefTable DEF IInv, RetainVal
<1>4. ASSUME NEW q \in Slots
      PROVE  Cardinality(Holders(q))' =
               Cardinality(Holders(q)) + (IF q = val[t] THEN 1 ELSE 0)
  <2>1. \A x \in HolderIds :
          Holds(x, q)' <=> Holds(x, q) \/ (q = val[t] /\ x = <<"reassign", t>>)
    BY <1>1 DEF RetainVal, Goto, Holds, Held, HolderIds, IInv, TypeOK
  <2>2. ~Holds(<<"reassign", t>>, q)
    BY <1>1 DEF Holds
  <2>3. CASE q = val[t]
    BY <1>1, <2>1, <2>2, <2>3, CountGain
  <2>4. CASE q # val[t]
    BY <2>1, <2>4, CountSame, HoldersFinite
  <2> QED
    BY <2>3, <2>4
<1> QED
  BY <1>3, <1>4 DEF Table, RefsExact, IInv

LEMMA ReleaseStep ==
  ASSUME IInv, NEW t \in Threads, ReleaseOld(t)
  PROVE  Table'
<1> DEFINE c == dst[t]
<1>1. pc[t] = "release" /\ c \in Cells /\ cell[c] \in SlotValues
  BY DEF ReleaseOld, IInv, TypeOK, Discipline
<1>2. Held(c) /\ Holds(<<"cell", c>>, cell[c]) /\ <<"cell", c>> \in HolderIds
  BY <1>1, CellHolds DEF IInv
<1>3. cell[c] \in Slots => refs[cell[c]] > 0
  BY <1>2, HeldCounted DEF IInv
<1>4. TableEnd' /\ CountedInterned' /\ InternedOnce'
      /\ \A q \in Slots : refs'[q] = refs[q] - (IF q = cell[c] THEN 1 ELSE 0)
  BY <1>1, <1>3, DecRefTable DEF IInv, ReleaseOld
<1>5. ASSUME NEW q \in Slots
      PROVE  Cardinality(Holders(q))' =
               Cardinality(Holders(q)) - (IF q = cell[c] THEN 1 ELSE 0)
  <2>1. \A x \in HolderIds :
          Holds(x, q)' <=> Holds(x, q) /\ (q = cell[c] => x # <<"cell", c>>)
    BY <1>1, <1>2 DEF ReleaseOld, Goto, Holds, Held, HolderIds, IInv, TypeOK
  <2>2. CASE q = cell[c]
    BY <1>2, <2>1, <2>2, CountLoss
  <2>3. CASE q # cell[c]
    BY <2>1, <2>3, CountSame, HoldersFinite
  <2> QED
    BY <2>2, <2>3
<1> QED
  BY <1>4, <1>5 DEF Table, RefsExact, IInv

\* The reference reassign() took becomes the cell's own.
LEMMA StoreStep ==
  ASSUME IInv, NEW t \in Threads, Store(t)
  PROVE  Table'
<1> DEFINE c == dst[t]
           y == <<"reassign", t>>
           z == <<"cell", c>>
<1>1. /\ pc[t] = "store" /\ c \in Cells /\ val[t] \in SlotValues
      /\ y \in HolderIds /\ z \in HolderIds /\ ~Held(c)
  BY DEF Store, IInv, TypeOK, Discipline, HolderIds, Held
<1>2. /\ cell' = [cell EXCEPT ![c] = val[t]]
      /\ UNCHANGED pool
      /\ pc'[t] \in {"idle", "drop"}
      /\ \A u \in Threads : u # t => pc'[u] = pc[u] /\ dst'[u] = dst[u]
                                     /\ val'[u] = val[u] /\ owns'[u] = owns[u]
      /\ (owns'[t] <=> owns[t]) /\ (owns[t] => val'[t] = val[t])
  <2>1. CASE owns[t]
    BY <1>1, <2>1 DEF Store, Goto, IInv, TypeOK
  <2>2. CASE ~owns[t]
    BY <1>1, <2>2 DEF Store, Return, IInv, TypeOK
  <2> QED
    BY <2>1, <2>2
<1>3. \A u \in Threads : u # t /\ pc[u] # "idle" => dst[u] # c
  BY <1>1 DEF IInv, Discipline
<1>4. \A b \in Cells : Held(b)' <=> Held(b) \/ b = c
  BY <1>1, <1>2, <1>3 DEF Held
<1>5. ASSUME NEW q \in Slots
      PROVE  Cardinality(Holders(q))' = Cardinality(Holders(q))
  <2>1. \A b \in Cells : Holds(<<"cell", b>>, q)' <=>
                           Holds(<<"cell", b>>, q) \/ (q = val[t] /\ b = c)
    BY <1>1, <1>2, <1>4 DEF Holds, IInv, TypeOK
  <2>2. \A u \in Threads : Holds(<<"intern", u>>, q)' <=> Holds(<<"intern", u>>, q)
    BY <1>2 DEF Holds
  <2>3. \A u \in Threads : Holds(<<"reassign", u>>, q)' <=>
                             Holds(<<"reassign", u>>, q) /\ u # t
    BY <1>2 DEF Holds
  <2>4. \A x \in HolderIds : Holds(x, q)' <=> (Holds(x, q) /\ x # y) \/ (q = val[t] /\ x = z)
    BY <2>1, <2>2, <2>3 DEF HolderIds
  <2>5. ~Holds(z, q) /\ (Holds(y, q) <=> q = val[t])
    BY <1>1 DEF Holds
  <2>6. CASE q = val[t]
    BY <1>1, <2>4, <2>5, <2>6, CountMove
  <2>7. CASE q # val[t]
    BY <2>4, <2>5, <2>7, CountSame
  <2> QED
    BY <2>6, <2>7
<1> QED
  BY <1>2, <1>5 DEF Table, RefsExact, IInv, pool, TableEnd, CountedInterned, InternedOnce

LEMMA DropStep ==
  ASSUME IInv, NEW t \in Threads, Drop(t)
  PROVE  Table'
<1>1. pc[t] = "drop" /\ owns[t] /\ val[t] \in SlotValues /\ <<"intern", t>> \in HolderIds
  BY DEF Drop, IInv, TypeOK, Discipline, HolderIds
<1>2. Holds(<<"intern", t>>, val[t])
  BY <1>1 DEF Holds
<1>3. val[t] \in Slots => refs[val[t]] > 0
  BY <1>1, <1>2, HeldCounted DEF IInv
<1>4. TableEnd' /\ CountedInterned' /\ InternedOnce'
      /\ \A q \in Slots : refs'[q] = refs[q] - (IF q = val[t] THEN 1 ELSE 0)
  BY <1>1, <1>3, DecRefTable DEF IInv, Drop
<1>5. ASSUME NEW q \in Slots
      PROVE  Cardinality(Holders(q))' =
               Cardinality(Holders(q)) - (IF q = val[t] THEN 1 ELSE 0)
  <2>1. \A x \in HolderIds :
          Holds(x, q)' <=> Holds(x, q) /\ (q = val[t] => x # <<"intern", t>>)
    BY <1>1 DEF Drop, Return, Holds, Held, HolderIds, IInv, TypeOK
  <2>2. CASE q = val[t]
    BY <1>1, <1>2, <2>1, <2>2, CountLoss
  <2>3. CASE q # val[t]
    BY <2>1, <2>3, CountSame, HoldersFinite
  <2> QED
    BY <2>2, <2>3
<1> QED
  BY <1>4, <1>5 DEF Table, RefsExact, IInv

LEMMA ClearStep ==
  ASSUME IInv, NEW t \in Threads, Clear(t)
  PROVE  Table'
<1>1. pc[t] = "clear" /\ ~owns[t] /\ dst[t] \in Cells /\ ~Held(dst[t])
  BY DEF Clear, IInv, Discipline, Held
<1>2. ASSUME NEW q \in Slots
      PROVE  \A x \in HolderIds : Holds(x, q)' <=> Holds(x, q)
  <2>1. q # EmptySlot
    BY SlotFields
  <2> QED
    BY <1>1, <2>1 DEF Clear, Goto, Return, Holds, Held, HolderIds, IInv, TypeOK, Discipline
<1>3. \A q \in Slots : Cardinality(Holders(q))' = Cardinality(Holders(q))
  BY <1>2, CountSame
<1> QED
  BY <1>3 DEF Table, RefsExact, IInv, Clear, pool, TableEnd, CountedInterned, InternedOnce

LEMMA MemcpyStep ==
  ASSUME IInv, NEW t \in Threads, Memcpy(t)
  PROVE  Table'
<1>1. pc[t] = "memcpy" /\ ~owns[t] /\ dst[t] \in Cells
  BY DEF Memcpy, IInv, Discipline
<1>2. \A q \in Slots : \A x \in HolderIds : Holds(x, q)' <=> Holds(x, q)
  BY <1>1 DEF Memcpy, Goto, Holds, Held, HolderIds, IInv, TypeOK
<1>3. \A q \in Slots : Cardinality(Holders(q))' = Cardinality(Holders(q))
  BY <1>2, CountSame
<1> QED
  BY <1>3 DEF Table, RefsExact, IInv, Memcpy, pool, TableEnd, CountedInterned, InternedOnce

LEMMA HoldStep ==
  ASSUME IInv, NEW t \in Threads, Hold(t)
  PROVE  Table'
<1> DEFINE c == dst[t]
<1>1. /\ pc[t] = "hold" /\ ~owns[t] /\ c \in Cells /\ ~Held(c)
      /\ src[t] \in Cells /\ Held(src[t]) /\ cell[c] = cell[src[t]]
      /\ cell[c] \in SlotValues /\ <<"cell", c>> \in HolderIds
  BY DEF Hold, IInv, TypeOK, Discipline, Held, HolderIds
<1>2. cell[c] \in Slots => refs[cell[c]] > 0
  BY <1>1, CellHolds, HeldCounted DEF IInv
<1>3. TableEnd' /\ CountedInterned' /\ InternedOnce'
      /\ \A q \in Slots : refs'[q] = refs[q] + (IF q = cell[c] THEN 1 ELSE 0)
  BY <1>1, <1>2, IncRefTable DEF IInv, Hold
<1>4. ASSUME NEW q \in Slots
      PROVE  Cardinality(Holders(q))' =
               Cardinality(Holders(q)) + (IF q = cell[c] THEN 1 ELSE 0)
  <2>1. \A u \in Threads : u # t /\ pc[u] # "idle" => dst[u] # c
    BY <1>1 DEF IInv, Discipline
  <2>2. \A b \in Cells : Held(b)' <=> Held(b) \/ b = c
    BY <1>1, <2>1 DEF Hold, Return, Held, IInv, TypeOK
  <2>3. \A x \in HolderIds :
          Holds(x, q)' <=> Holds(x, q) \/ (q = cell[c] /\ x = <<"cell", c>>)
    BY <1>1, <2>2 DEF Hold, Return, Holds, HolderIds, IInv, TypeOK
  <2>4. ~Holds(<<"cell", c>>, q)
    BY <1>1 DEF Holds
  <2>5. CASE q = cell[c]
    BY <1>1, <2>3, <2>4, <2>5, CountGain
  <2>6. CASE q # cell[c]
    BY <2>3, <2>6, CountSame, HoldersFinite
  <2> QED
    BY <2>5, <2>6
<1> QED
  BY <1>3, <1>4 DEF Table, RefsExact, IInv

\* Undo exchanges two cells' slots: each slot keeps as many holders as it had.
LEMMA SwapStep ==
  ASSUME IInv, NEW c \in Cells, NEW d \in Cells, SwapCells(c, d)
  PROVE  Table'
<1> DEFINE y == <<"cell", c>>
           z == <<"cell", d>>
<1>1. Held(c) /\ Held(d) /\ y \in HolderIds /\ z \in HolderIds /\ c # d
  BY CellHolds DEF SwapCells, IInv
<1>2. ASSUME NEW q \in Slots
      PROVE  Cardinality(Holders(q))' = Cardinality(Holders(q))
  <2>1. \A x \in HolderIds : x # y /\ x # z => (Holds(x, q)' <=> Holds(x, q))
    BY DEF SwapCells, locals, Holds, Held, HolderIds, IInv, TypeOK
  <2>2. (Holds(y, q) <=> cell[c] = q) /\ (Holds(z, q) <=> cell[d] = q)
    BY <1>1 DEF Holds
  <2>3. (Holds(y, q)' <=> cell[d] = q) /\ (Holds(z, q)' <=> cell[c] = q)
    BY <1>1 DEF SwapCells, locals, Holds, Held, IInv, TypeOK
  <2>4. CASE cell[c] = cell[d] \/ (cell[c] # q /\ cell[d] # q)
    BY <2>1, <2>2, <2>3, <2>4, CountSame
  <2>5. CASE cell[c] = q /\ cell[d] # q
    BY <1>1, <2>1, <2>2, <2>3, <2>5, CountMove
  <2>6. CASE cell[c] # q /\ cell[d] = q
    BY <1>1, <2>1, <2>2, <2>3, <2>6, CountMove
  <2> QED
    BY <2>4, <2>5, <2>6
<1> QED
  BY <1>2 DEF Table, RefsExact, IInv, SwapCells, pool, TableEnd, CountedInterned, InternedOnce

LEMMA SweepStep ==
  ASSUME IInv, NEW h \in Shards, SweepShard(h)
  PROVE  Table'
<1>1. \A q \in Slots : \A x \in HolderIds : Holds(x, q)' <=> Holds(x, q)
  BY DEF SweepShard, locals, Holds, Held, HolderIds
<1>2. \A q \in Slots : Cardinality(Holders(q))' = Cardinality(Holders(q))
  BY <1>1, CountSame
<1>3. TableEnd' /\ CountedInterned' /\ InternedOnce'
  BY DEF IInv, SweepShard, TypeOK, TableEnd, CountedInterned, InternedOnce
<1> QED
  BY <1>2, <1>3 DEF Table, RefsExact, IInv, SweepShard

-----------------------------------------------------------------------------
(* The theorems.                                                           *)

LEMMA InitIInv == Init => IInv
<1> SUFFICES ASSUME Init PROVE IInv
  OBVIOUS
<1> USE DeformPoolAssumption
<1>1. TypeOK /\ Discipline /\ TableEnd /\ CountedInterned /\ InternedOnce
  BY SlotFields DEF Init, TypeOK, Labels, SlotValues, Discipline, TableEnd,
                    CountedInterned, InternedOnce
<1>2. \A s \in Slots : Holders(s) = {}
  BY SlotFields DEF Init, Holders, HolderIds, Holds
<1>3. RefsExact
  BY <1>2, FS_EmptySet DEF RefsExact, Init
<1> QED
  BY <1>1, <1>3 DEF IInv

LEMMA NextIInv == IInv /\ [Next]_vars => IInv'
<1> SUFFICES ASSUME IInv, [Next]_vars PROVE IInv'
  OBVIOUS
<1>1. TypeOK' /\ Discipline'
  BY TypeStep, DisciplineStep DEF IInv
<1>2. Table'
  <2>1. CASE UNCHANGED vars
    <3>1. \A q \in Slots : \A x \in HolderIds : Holds(x, q)' <=> Holds(x, q)
      BY <2>1 DEF vars, Holds, Held
    <3>2. \A q \in Slots : Cardinality(Holders(q))' = Cardinality(Holders(q))
      BY <3>1, CountSame
    <3> QED
      BY <2>1, <3>2 DEF vars, IInv, Table, RefsExact, TableEnd, CountedInterned, InternedOnce
  <2>2. ASSUME NEW t \in Threads, Step(t)
        PROVE  Table'
    BY <2>2, RetainStep, ReleaseStep, StoreStep, DropStep, ClearStep, MemcpyStep, HoldStep
       DEF Step
  <2>3. ASSUME NEW t \in Threads, NEW c \in Cells, Wipe(t, c)
        PROVE  Table'
    BY <2>3, WipeStep DEF Wipe
  <2>4. ASSUME NEW t \in Threads, NEW c \in Cells, NEW d \in Cells, Capture(t, c, d)
        PROVE  Table'
    BY <2>4, WipeStep DEF Capture
  <2> QED
    BY <2>1, <2>2, <2>3, <2>4, BeginStep, AssignStep, SwapStep, SweepStep DEF Next
<1> QED
  BY <1>1, <1>2 DEF IInv, Table

THEOREM Invariance == Spec => []IInv
<1> QED
  BY InitIInv, NextIInv, PTL DEF Spec

(* Type correctness of the pool and of the operations in flight.            *)
THEOREM TypeCorrect == Spec => []TypeOK
<1>1. IInv => TypeOK
  BY DEF IInv
<1> QED
  BY <1>1, Invariance, PTL

(* However many threads interleave, an entry's count equals its holders:    *)
(* auditRefcounts() over the cells and the calls in flight reports nothing. *)
THEOREM RefsExactAlways == Spec => []RefsExact
<1>1. IInv => RefsExact
  BY DEF IInv
<1> QED
  BY <1>1, Invariance, PTL

(* Equal runs always share one entry.                                       *)
THEOREM InternedOnceAlways == Spec => []InternedOnce
<1>1. IInv => InternedOnce
  BY DEF IInv
<1> QED
  BY <1>1, Invariance, PTL

(* A cell at rest never names a reclaimed entry, whenever sweep() runs.     *)
THEOREM NeverDangling == Spec => []NoDangling
<1>1. ASSUME IInv, NEW c \in Cells, Held(c), cell[c] # EmptySlot
      PROVE  refs[cell[c]] > 0 /\ run[cell[c]] \in Runs
  <2>1. cell[c] \in Slots
    BY <1>1 DEF IInv, TypeOK, SlotValues
  <2>2. refs[cell[c]] > 0
    BY <1>1, <2>1, CellHolds, HeldCounted DEF IInv
  <2> QED
    BY <1>1, <2>1, <2>2 DEF IInv, CountedInterned
<1>2. IInv => NoDangling
  BY <1>1 DEF NoDangling
<1> QED
  BY <1>2, Invariance, PTL

-----------------------------------------------------------------------------
(* The free list and the live counts.                                      *)

Used(h) == {s \in Slots : s[1] = h /\ refs[s] > 0}

\* The list says what the table says, one entry at a time.
Listed == \A s \in Slots : free[s] = (IF refs[s] = 0 /\ run[s] # NoRun THEN 1 ELSE 0)

LiveExact == \A h \in Shards : live[h] = Cardinality(Used(h))

LEMMA UsedFinite ==
  ASSUME NEW h \in Shards
  PROVE  IsFiniteSet(Used(h)) /\ Cardinality(Used(h)) \in Nat
<1>1. IsFiniteSet({h}) /\ IsFiniteSet(1 .. MaxLocal)
  <2>1. 1 \in Int /\ MaxLocal \in Int
    BY DeformPoolAssumption
  <2>2. IsFiniteSet(1 .. MaxLocal)
    BY <2>1, FS_Interval
  <2> QED
    BY <2>2, FS_Singleton
<1>2. IsFiniteSet({h} \X (1 .. MaxLocal))
  BY <1>1, FS_Product
<1>3. Used(h) \in SUBSET ({h} \X (1 .. MaxLocal))
  BY SlotFields DEF Used
<1> QED
  BY <1>2, <1>3, FS_Subset, FS_CardinalityType

\* No entry passes between zero and one references.
LEMMA LiveSame ==
  ASSUME LiveExact, live' = live,
         \A s \in Slots : refs'[s] > 0 <=> refs[s] > 0
  PROVE  LiveExact'
<1>1. \A h \in Shards : Used(h)' = Used(h)
  BY DEF Used
<1> QED
  BY <1>1 DEF LiveExact

\* An entry gets its first reference.
LEMMA LiveGain ==
  ASSUME TypeOK, LiveExact, NEW s \in Slots,
         live' = [live EXCEPT ![s[1]] = @ + 1],
         refs[s] = 0, refs'[s] > 0,
         \A q \in Slots : q # s => refs'[q] = refs[q]
  PROVE  LiveExact'
<1>1. \A h \in Shards : Used(h)' = IF h = s[1] THEN Used(h) \cup {s} ELSE Used(h)
  BY DEF Used
<1>2. s \notin Used(s[1]) /\ s[1] \in Shards
  BY SlotFields DEF Used
<1>3. Cardinality(Used(s[1]) \cup {s}) = Cardinality(Used(s[1])) + 1
  BY <1>2, UsedFinite, FS_AddElement
<1> QED
  BY <1>1, <1>2, <1>3 DEF LiveExact, TypeOK

\* An entry loses its last reference.
LEMMA LiveLoss ==
  ASSUME TypeOK, LiveExact, NEW s \in Slots,
         live' = [live EXCEPT ![s[1]] = @ - 1],
         refs[s] > 0, refs'[s] = 0,
         \A q \in Slots : q # s => refs'[q] = refs[q]
  PROVE  LiveExact'
<1>1. \A h \in Shards : Used(h)' = IF h = s[1] THEN Used(h) \ {s} ELSE Used(h)
  BY DEF Used
<1>2. s \in Used(s[1]) /\ s[1] \in Shards
  BY SlotFields DEF Used
<1>3. Cardinality(Used(s[1]) \ {s}) = Cardinality(Used(s[1])) - 1
  BY <1>2, UsedFinite, FS_RemoveElement
<1> QED
  BY <1>1, <1>2, <1>3 DEF LiveExact, TypeOK

LEMMA InternLists ==
  ASSUME IInv, Listed, LiveExact, NEW r \in Runs \cup {EmptyRun},
         NEW s \in Slots \cup {EmptySlot}, Intern(r, s)
  PROVE  Listed' /\ LiveExact'
<1> USE DeformPoolAssumption
<1>1. CASE UNCHANGED pool
  BY <1>1, LiveSame DEF pool, Listed
<1>2. CASE s \in Slots /\ r \in Runs /\ Found(r, s) /\ refs[s] = 0
  <2>1. free[s] = 1 /\ run[s] # NoRun
    BY <1>2 DEF Listed, Found
  <2>2. Listed'
    BY <1>2, <2>1 DEF Found, Listed, IInv, TypeOK
  <2>3. refs'[s] > 0 /\ \A q \in Slots : q # s => refs'[q] = refs[q]
    BY <1>2 DEF Found, IInv, TypeOK
  <2>4. LiveExact'
    BY <1>2, <2>3, LiveGain DEF Found, IInv
  <2> QED
    BY <2>2, <2>4
<1>3. CASE s \in Slots /\ r \in Runs /\ Found(r, s) /\ refs[s] # 0
  <2>1. Listed'
    BY <1>3 DEF Found, Listed, IInv, TypeOK
  <2>2. \A q \in Slots : refs'[q] > 0 <=> refs[q] > 0
    BY <1>3 DEF Found, IInv, TypeOK
  <2> QED
    BY <1>3, <2>1, <2>2, LiveSame DEF Found
<1>4. CASE s \in Slots /\ r \in Runs /\ Appended(r, s)
  <2>1. s[1] = ShardOf[r] /\ s[2] = size[s[1]] + 1 /\ size[s[1]] \in Nat
    BY <1>4, SlotFields DEF Appended, IInv, TypeOK
  <2>2. run[s] = NoRun /\ refs[s] = 0
    BY <1>4, <2>1 DEF IInv, TableEnd
  <2>3. /\ run' = [run EXCEPT ![s] = r] /\ refs' = [refs EXCEPT ![s] = 1]
        /\ live' = [live EXCEPT ![s[1]] = @ + 1] /\ free' = free
    BY <1>4, <2>1 DEF Appended
  <2>4. Listed'
    BY <1>4, <2>2, <2>3 DEF Listed, IInv, TypeOK
  <2>5. refs'[s] > 0 /\ \A q \in Slots : q # s => refs'[q] = refs[q]
    BY <1>4, <2>3 DEF IInv, TypeOK
  <2>6. LiveExact'
    BY <1>4, <2>2, <2>3, <2>5, LiveGain DEF IInv
  <2> QED
    BY <2>4, <2>6
<1> QED
  BY <1>1, <1>2, <1>3, <1>4 DEF Intern

\* retain() is only called on entries that are counted already.
LEMMA IncRefLists ==
  ASSUME IInv, Listed, LiveExact, NEW s \in SlotValues,
         s \in Slots => refs[s] > 0, IncRef(s)
  PROVE  Listed' /\ LiveExact'
<1>1. \A q \in Slots : refs'[q] > 0 <=> refs[q] > 0
  BY DEF IncRef, SlotValues, IInv, TypeOK
<1>2. Listed'
  BY <1>1 DEF IncRef, Listed, SlotValues, IInv, TypeOK
<1> QED
  BY <1>1, <1>2, LiveSame DEF IncRef

LEMMA DecRefLists ==
  ASSUME IInv, Listed, LiveExact, NEW s \in SlotValues,
         s \in Slots => refs[s] > 0, DecRef(s)
  PROVE  Listed' /\ LiveExact'
<1> USE DeformPoolAssumption
<1>1. CASE s = EmptySlot
  BY <1>1, LiveSame DEF DecRef, pool, Listed
<1>2. CASE s \in Slots /\ refs[s] = 1
  <2>1. /\ refs' = [refs EXCEPT ![s] = @ - 1] /\ free' = [free EXCEPT ![s] = @ + 1]
        /\ live' = [live EXCEPT ![s[1]] = @ - 1] /\ run' = run
    BY <1>2 DEF DecRef
  <2>2. run[s] # NoRun /\ free[s] = 0
    BY <1>2 DEF IInv, CountedInterned, Listed
  <2>3. Listed'
    BY <1>2, <2>1, <2>2 DEF Listed, IInv, TypeOK
  <2>4. refs[s] > 0 /\ refs'[s] = 0 /\ \A q \in Slots : q # s => refs'[q] = refs[q]
    BY <1>2, <2>1 DEF IInv, TypeOK
  <2>5. LiveExact'
    BY <1>2, <2>1, <2>4, LiveLoss DEF IInv
  <2> QED
    BY <2>3, <2>5
<1>3. CASE s \in Slots /\ refs[s] # 1
  <2>1. refs' = [refs EXCEPT ![s] = @ - 1] /\ UNCHANGED <<free, live, run>>
    BY <1>3 DEF DecRef
  <2>2. \A q \in Slots : refs'[q] > 0 <=> refs[q] > 0
    BY <1>3, <2>1 DEF IInv, TypeOK
  <2>3. Listed'
    BY <1>3, <2>1 DEF Listed, IInv, TypeOK
  <2> QED
    BY <2>1, <2>2, <2>3, LiveSame
<1> QED
  BY <1>1, <1>2, <1>3 DEF SlotValues

-----------------------------------------------------------------------------
(* What an operation in flight is about to touch is counted.               *)

LEMMA ValCounted ==
  ASSUME IInv, NEW t \in Threads, pc[t] \in {"retain", "release", "store", "drop"}
  PROVE  val[t] \in SlotValues /\ (val[t] \in Slots => refs[val[t]] > 0)
<1>1. val[t] \in SlotValues /\ {<<"intern", t>>, <<"reassign", t>>} \subseteq HolderIds
  BY DEF IInv, TypeOK, HolderIds
<1>2. CASE owns[t]
  <2>1. Holds(<<"intern", t>>, val[t])
    BY <1>2 DEF Holds
  <2> QED
    BY <1>1, <2>1, HeldCounted DEF IInv
<1>3. CASE pc[t] \in {"release", "store"}
  <2>1. Holds(<<"reassign", t>>, val[t])
    BY <1>3 DEF Holds
  <2> QED
    BY <1>1, <2>1, HeldCounted DEF IInv
<1>4. CASE pc[t] = "retain" /\ ~owns[t]
  <2>1. src[t] \in Cells /\ cell[src[t]] = val[t] /\ Held(src[t])
    BY <1>4 DEF IInv, Discipline, Held
  <2> QED
    BY <1>1, <2>1, CellHolds, HeldCounted DEF IInv
<1>5. pc[t] = "drop" => owns[t]
  BY DEF IInv, Discipline
<1> QED
  BY <1>2, <1>3, <1>4, <1>5

LEMMA HeldCellCounted ==
  ASSUME IInv, NEW c \in Cells, Held(c)
  PROVE  cell[c] \in SlotValues /\ (cell[c] \in Slots => refs[cell[c]] > 0)
BY CellHolds, HeldCounted DEF IInv, TypeOK

\* The slots the critical sections of a thread are called with.
LEMMA StepSlots ==
  ASSUME IInv, NEW t \in Threads
  PROVE  /\ pc[t] = "release" => /\ dst[t] \in Cells /\ cell[dst[t]] \in SlotValues
                                 /\ cell[dst[t]] \in Slots => refs[cell[dst[t]]] > 0
         /\ pc[t] = "hold" => /\ dst[t] \in Cells /\ cell[dst[t]] \in SlotValues
                              /\ cell[dst[t]] \in Slots => refs[cell[dst[t]]] > 0
<1>1. CASE pc[t] = "release"
  <2>1. dst[t] \in Cells /\ Held(dst[t])
    BY <1>1, CellHolds DEF IInv, Discipline
  <2> QED
    BY <1>1, <2>1, HeldCellCounted
<1>2. CASE pc[t] = "hold"
  <2>1. /\ dst[t] \in Cells /\ src[t] \in Cells /\ Held(src[t])
        /\ cell[dst[t]] = cell[src[t]]
    BY <1>2 DEF IInv, Discipline, Held
  <2> QED
    BY <1>2, <2>1, HeldCellCounted
<1> QED
  BY <1>1, <1>2

LEMMA ListsStep ==
  ASSUME IInv, Listed, LiveExact, [Next]_vars
  PROVE  Listed' /\ LiveExact'
<1>1. CASE UNCHANGED pool
  BY <1>1, LiveSame DEF pool, Listed
<1>2. ASSUME NEW t \in Threads, NEW c \in Cells, NEW r \in Runs \cup {EmptyRun},
             SetRun(t, c, r)
      PROVE  Listed' /\ LiveExact'
  BY <1>2, InternLists DEF SetRun
<1>3. ASSUME NEW t \in Threads, NEW c \in Cells,
             Wipe(t, c) \/ \E d \in Cells : Capture(t, c, d)
      PROVE  Listed' /\ LiveExact'
  <2>1. Writable(c) /\ DecRef(cell[c])
    BY <1>3 DEF Wipe, Capture, Begin
  <2>2. Held(c)
    BY <2>1, CellHolds DEF IInv
  <2> QED
    BY <2>1, <2>2, HeldCellCounted, DecRefLists
<1>4. ASSUME NEW t \in Threads, Step(t)
      PROVE  Listed' /\ LiveExact'
  <2>1. CASE RetainVal(t)
    BY <2>1, ValCounted, IncRefLists DEF RetainVal
  <2>2. CASE ReleaseOld(t)
    BY <2>2, StepSlots, DecRefLists DEF ReleaseOld
  <2>3. CASE Drop(t)
    BY <2>3, ValCounted, DecRefLists DEF Drop
  <2>4. CASE Hold(t)
    BY <2>4, StepSlots, IncRefLists DEF Hold
  <2>5. CASE Store(t) \/ Clear(t) \/ Memcpy(t)
    BY <2>5, <1>1 DEF Store, Clear, Memcpy
  <2> QED
    BY <1>4, <2>1, <2>2, <2>3, <2>4, <2>5 DEF Step
<1>5. ASSUME NEW h \in Shards, SweepShard(h)
      PROVE  Listed' /\ LiveExact'
  <2>1. Listed'
    BY <1>5, DeformPoolAssumption DEF SweepShard, Listed, IInv, TypeOK
  <2> QED
    BY <1>5, <2>1, LiveSame DEF SweepShard
<1>6. CASE UNCHANGED vars
  BY <1>6, <1>1 DEF vars, pool
<1>7. ASSUME NEW t \in Threads, NEW c \in Cells, NEW d \in Cells, Assign(t, c, d)
      PROVE  Listed' /\ LiveExact'
  BY <1>7, <1>1 DEF Assign
<1>8. ASSUME NEW c \in Cells, NEW d \in Cells, SwapCells(c, d)
      PROVE  Listed' /\ LiveExact'
  BY <1>8, <1>1 DEF SwapCells
<1> QED
  BY <1>2, <1>3, <1>4, <1>5, <1>6, <1>7, <1>8 DEF Next

LEMMA InitLists == Init => Listed /\ LiveExact
<1> SUFFICES ASSUME Init PROVE Listed /\ LiveExact
  OBVIOUS
<1>1. Listed
  BY DEF Init, Listed
<1>2. \A h \in Shards : Used(h) = {}
  BY DEF Init, Used
<1>3. LiveExact
  BY <1>2, FS_EmptySet DEF Init, LiveExact
<1> QED
  BY <1>1, <1>3

(* free_slots lists exactly the entries sweep() would reclaim, each once, and *)
(* live_count counts exactly the referenced ones, in every interleaving.      *)
THEOREM FreeListExactAlways == Spec => []FreeListExact
<1>1. Init => IInv /\ Listed /\ LiveExact
  BY InitIInv, InitLists
<1>2. IInv /\ Listed /\ LiveExact /\ [Next]_vars => (IInv /\ Listed /\ LiveExact)'
  BY NextIInv, ListsStep
<1>3. IInv /\ Listed /\ LiveExact => FreeListExact
  BY DEF Listed, LiveExact, Used, FreeListExact
<1> QED
  BY <1>1, <1>2, <1>3, PTL DEF Spec

-----------------------------------------------------------------------------
(* The pool implements a column of runs.                                   *)

\* A capture that is about to copy has already emptied its row.
Emptied == \A t \in Threads : pc[t] = "memcpy" => cell[dst[t]] = EmptySlot

LEMMA EmptiedStep ==
  ASSUME TypeOK, Discipline, Emptied, [Next]_vars
  PROVE  Emptied'
<1>1. CASE UNCHANGED vars
  BY <1>1 DEF vars, Emptied
<1>2. ASSUME NEW t \in Threads, NEW c \in Cells, NEW d, NEW s, NEW own,
             NEW label \in {"retain", "drop", "clear"},
             Begin(t, label, c, d, s, own), UNCHANGED cell
      PROVE  Emptied'
  BY <1>2 DEF Begin, Emptied, TypeOK
<1>3. ASSUME NEW t \in Threads, NEW c \in Cells, NEW r \in Runs \cup {EmptyRun},
             SetRun(t, c, r)
      PROVE  Emptied'
  BY <1>3, <1>2 DEF SetRun
<1>4. ASSUME NEW t \in Threads, NEW c \in Cells, NEW d \in Cells,
             Assign(t, c, d) \/ Capture(t, c, d) \/ Wipe(t, c)
      PROVE  Emptied'
  BY <1>4, <1>2 DEF Assign, Capture, Wipe
<1>5. ASSUME NEW t \in Threads, Step(t)
      PROVE  Emptied'
  <2>1. CASE RetainVal(t)
    BY <2>1 DEF RetainVal, Goto, Emptied, TypeOK
  <2>2. CASE ReleaseOld(t)
    BY <2>2 DEF ReleaseOld, Goto, Emptied, TypeOK
  <2>3. CASE Store(t)
    BY <2>3 DEF Store, Goto, Return, Emptied, TypeOK, Discipline
  <2>4. CASE Drop(t)
    BY <2>4 DEF Drop, Return, Emptied, TypeOK
  <2>5. CASE Clear(t)
    BY <2>5 DEF Clear, Goto, Return, Emptied, TypeOK, Discipline
  <2>6. CASE Memcpy(t)
    BY <2>6 DEF Memcpy, Goto, Emptied, TypeOK, Discipline
  <2>7. CASE Hold(t)
    BY <2>7 DEF Hold, Return, Emptied, TypeOK
  <2> QED
    BY <1>5, <2>1, <2>2, <2>3, <2>4, <2>5, <2>6, <2>7 DEF Step
<1>6. ASSUME NEW c \in Cells, NEW d \in Cells, SwapCells(c, d)
      PROVE  Emptied'
  <2>1. \A t \in Threads : pc[t] = "memcpy" => dst[t] \in Cells /\ dst[t] # c /\ dst[t] # d
    BY <1>6 DEF SwapCells, Writable, Discipline
  <2> QED
    BY <1>6, <2>1 DEF SwapCells, locals, Emptied, TypeOK
<1>7. ASSUME NEW h \in Shards, SweepShard(h)
      PROVE  Emptied'
  BY <1>7 DEF SweepShard, locals, Emptied
<1> QED
  BY <1>1, <1>3, <1>4, <1>5, <1>6, <1>7 DEF Next

\* Effective() without its choice: a cell has at most one writer.
EffectiveKnown(c) ==
  /\ \A t \in Threads : pc[t] = "store" /\ dst[t] = c => Effective(c) = val[t]
  /\ \A t \in Threads : pc[t] = "clear" /\ dst[t] = c => Effective(c) = EmptySlot
  /\ (\A t \in Threads : pc[t] \in {"store", "clear"} => dst[t] # c) =>
       Effective(c) = cell[c]

LEMMA EffectiveIs == Discipline => \A c \in Cells : EffectiveKnown(c)
<1> SUFFICES ASSUME Discipline, NEW c \in Cells PROVE EffectiveKnown(c)
  OBVIOUS
<1>1. ASSUME NEW t \in Threads, pc[t] = "store", dst[t] = c
      PROVE  Effective(c) = val[t]
  <2>1. \A u \in Threads : pc[u] = "store" /\ dst[u] = c => u = t
    BY <1>1 DEF Discipline
  <2>2. (CHOOSE u \in Threads : pc[u] = "store" /\ dst[u] = c) = t
    BY <1>1, <2>1
  <2> QED
    BY <1>1, <2>2 DEF Effective
<1>2. ASSUME NEW t \in Threads, pc[t] = "clear", dst[t] = c
      PROVE  Effective(c) = EmptySlot
  <2>1. ~ \E u \in Threads : pc[u] = "store" /\ dst[u] = c
    BY <1>2 DEF Discipline
  <2> QED
    BY <1>2, <2>1 DEF Effective
<1>3. ASSUME \A t \in Threads : pc[t] \in {"store", "clear"} => dst[t] # c
      PROVE  Effective(c) = cell[c]
  BY <1>3 DEF Effective
<1> QED
  BY <1>1, <1>2, <1>3 DEF EffectiveKnown

\* The slot a cell has in effect is counted, so sweep() and intern() leave its
\* run alone.
LEMMA EffectiveCounted ==
  ASSUME IInv, Emptied, NEW c \in Cells
  PROVE  /\ Effective(c) \in SlotValues
         /\ Effective(c) \in Slots => refs[Effective(c)] > 0 /\ run[Effective(c)] \in Runs
<1>0. EffectiveKnown(c)
  BY EffectiveIs DEF IInv
<1>1. /\ Effective(c) \in SlotValues
      /\ Effective(c) \in Slots => refs[Effective(c)] > 0
  <2>1. ASSUME NEW t \in Threads, pc[t] = "store", dst[t] = c
        PROVE  <1>1!1 /\ <1>1!2
    BY <2>1, ValCounted, <1>0 DEF EffectiveKnown
  <2>2. ASSUME NEW t \in Threads, pc[t] = "clear", dst[t] = c
        PROVE  <1>1!1 /\ <1>1!2
    BY <2>2, <1>0, DeformPoolAssumption DEF EffectiveKnown, SlotValues
  <2>3. ASSUME NEW t \in Threads, pc[t] = "memcpy", dst[t] = c
        PROVE  <1>1!1 /\ <1>1!2
    <3>1. Effective(c) = EmptySlot
      BY <2>3, <1>0 DEF EffectiveKnown, IInv, Discipline, Emptied
    <3> QED
      BY <3>1, DeformPoolAssumption DEF SlotValues
  <2>4. ASSUME NEW t \in Threads, pc[t] = "hold", dst[t] = c
        PROVE  <1>1!1 /\ <1>1!2
    <3>1. Effective(c) = cell[c]
      BY <2>4, <1>0 DEF EffectiveKnown, IInv, Discipline
    <3> QED
      BY <2>4, <3>1, StepSlots
  <2>5. ASSUME Held(c)
        PROVE  <1>1!1 /\ <1>1!2
    <3>1. Effective(c) = cell[c]
      BY <2>5, <1>0 DEF EffectiveKnown, Held
    <3> QED
      BY <2>5, <3>1, HeldCellCounted
  <2> QED
    BY <2>1, <2>2, <2>3, <2>4, <2>5 DEF Held
<1> QED
  BY <1>1 DEF IInv, CountedInterned

\* Everything the refinement needs of the pool.
RInv == IInv /\ Emptied

LEMMA RInvStep == RInv /\ [Next]_vars => RInv'
BY NextIInv, EmptiedStep DEF RInv, IInv

\* A cell that keeps its effective slot keeps its contents: no step changes the
\* run of a counted entry.
LEMMA CountedRunKept ==
  ASSUME IInv, [Next]_vars, NEW s \in Slots, refs[s] > 0
  PROVE  run'[s] = run[s]
<1>1. CASE run' = run
  BY <1>1
<1>2. ASSUME NEW t \in Threads, NEW c \in Cells, NEW r \in Runs \cup {EmptyRun},
             SetRun(t, c, r)
      PROVE  run'[s] = run[s]
  <2>1. PICK q \in Slots \cup {EmptySlot} : Intern(r, q)
    BY <1>2 DEF SetRun
  <2>2. CASE q \in Slots /\ Appended(r, q)
    <3>1. q[1] = ShardOf[r] /\ q[2] = size[q[1]] + 1 /\ run' = [run EXCEPT ![q] = r]
      BY <2>2, SlotFields DEF Appended
    <3>2. q[1] \in Shards /\ size[q[1]] \in Nat
      BY <2>2, SlotFields DEF IInv, TypeOK
    <3>3. refs[q] = 0
      BY <2>2, <3>1, <3>2 DEF IInv, TableEnd
    <3> QED
      BY <2>2, <3>1, <3>3 DEF IInv, TypeOK
  <2> QED
    BY <2>1, <2>2, <1>1 DEF Intern, Found, pool
<1>3. ASSUME NEW h \in Shards, SweepShard(h)
      PROVE  run'[s] = run[s]
  BY <1>3 DEF SweepShard, IInv, TypeOK
<1>4. ASSUME NEW t \in Threads, Step(t)
      PROVE  run' = run
  BY <1>4 DEF Step, RetainVal, ReleaseOld, Store, Drop, Clear, Memcpy, Hold, IncRef, DecRef, pool
<1>5. ASSUME NEW t \in Threads, NEW c \in Cells, NEW d \in Cells,
             Assign(t, c, d) \/ Capture(t, c, d) \/ Wipe(t, c)
      PROVE  run' = run
  BY <1>5 DEF Assign, Capture, Wipe, DecRef, pool
<1>6. ASSUME NEW c \in Cells, NEW d \in Cells, SwapCells(c, d)
      PROVE  run' = run
  BY <1>6 DEF SwapCells, pool
<1>7. CASE UNCHANGED vars
  BY <1>7, <1>1 DEF vars
<1> QED
  BY <1>1, <1>2, <1>3, <1>4, <1>5, <1>6, <1>7 DEF Next

LEMMA ContentsKept ==
  ASSUME RInv, [Next]_vars, NEW c \in Cells, Effective(c)' = Effective(c)
  PROVE  Contents'[c] = Contents[c]
<1>1. CASE Effective(c) = EmptySlot
  BY <1>1 DEF Contents
<1>2. CASE Effective(c) \in Slots
  <2>1. run'[Effective(c)] = run[Effective(c)]
    BY <1>2, EffectiveCounted, CountedRunKept DEF RInv
  <2>2. Effective(c) # EmptySlot
    BY <1>2, SlotFields
  <2> QED
    BY <2>1, <2>2 DEF Contents
<1> QED
  BY <1>1, <1>2, EffectiveCounted DEF RInv, SlotValues

\* Contents are runs.
LEMMA ContentsType ==
  ASSUME RInv
  PROVE  Contents \in [Cells -> Column!Values]
BY EffectiveCounted DEF RInv, Contents, Column!Values, SlotValues

\* The same of the state after a step.
LEMMA EffectiveIsNext == Discipline' => (\A c \in Cells : EffectiveKnown(c))'
BY EffectiveIs, PTL

\* A thread at work on cell c leaves what is in effect elsewhere.
LEMMA OthersKept ==
  ASSUME RInv, RInv', NEW t \in Threads, NEW c \in Cells, NEW b \in Cells, b # c,
         \A u \in Threads : u # t => pc'[u] = pc[u] /\ dst'[u] = dst[u] /\ val'[u] = val[u],
         pc[t] # "idle" => dst[t] = c, pc'[t] # "idle" => dst'[t] = c,
         cell'[b] = cell[b]
  PROVE  Effective(b)' = Effective(b)
<1>1. EffectiveKnown(b) /\ EffectiveKnown(b)'
  BY EffectiveIs, EffectiveIsNext DEF RInv, IInv
<1>2. ASSUME NEW u \in Threads, dst[u] = b, pc[u] \in {"store", "clear"}
      PROVE  Effective(b)' = Effective(b)
  <2>1. u # t /\ pc'[u] = pc[u] /\ dst'[u] = b /\ val'[u] = val[u]
    BY <1>2
  <2> QED
    BY <1>1, <1>2, <2>1 DEF EffectiveKnown
<1>3. ASSUME \A u \in Threads : pc[u] \in {"store", "clear"} => dst[u] # b
      PROVE  Effective(b)' = Effective(b)
  <2>1. \A u \in Threads : pc'[u] \in {"store", "clear"} => dst'[u] # b
    BY <1>3
  <2> QED
    BY <1>1, <1>3, <2>1 DEF EffectiveKnown
<1> QED
  BY <1>2, <1>3

\* A cell whose only writer is not between two of its steps reads as it is.
LEMMA EffectiveAtRest ==
  ASSUME RInv, NEW c \in Cells,
         \A t \in Threads : pc[t] \in {"store", "clear"} => dst[t] # c
  PROVE  Effective(c) = cell[c]
BY EffectiveIs DEF RInv, IInv, EffectiveKnown

LEMMA EffectiveAtRestNext ==
  ASSUME RInv', NEW c \in Cells,
         \A t \in Threads : pc'[t] \in {"store", "clear"} => dst'[t] # c
  PROVE  Effective(c)' = cell'[c]
BY EffectiveIsNext DEF RInv, IInv, EffectiveKnown

LEMMA Quiet ==
  ASSUME RInv, [Next]_vars, \A c \in Cells : Effective(c)' = Effective(c)
  PROVE  Contents' = Contents
<1>1. \A c \in Cells : Contents'[c] = Contents[c]
  BY ContentsKept
<1> QED
  BY <1>1 DEF Contents

LEMMA ContentsTypeNext == RInv' => (Contents \in [Cells -> Column!Values])'
<1>1. RInv => Contents \in [Cells -> Column!Values]
  BY ContentsType
<1> QED
  BY <1>1, PTL

\* A step that changes one cell is a write to it.
LEMMA OneWrite ==
  ASSUME RInv, RInv', [Next]_vars, NEW c \in Cells,
         \A b \in Cells : b # c => Effective(b)' = Effective(b)
  PROVE  Column!Next
<1>1. Contents \in [Cells -> Column!Values] /\ Contents' \in [Cells -> Column!Values]
  BY ContentsType, ContentsTypeNext DEF Column!Values
<1>2. \A b \in Cells : b # c => Contents'[b] = Contents[b]
  BY ContentsKept
<1>3. Contents' = [Contents EXCEPT ![c] = Contents'[c]] /\ Contents'[c] \in Column!Values
  BY <1>1, <1>2
<1> QED
  BY <1>3 DEF Column!Next, Column!Write

\* intern() and the start of an assignment write nothing yet.
LEMMA BeginRefines ==
  ASSUME RInv, RInv', [Next]_vars, NEW t \in Threads, NEW c \in Cells, NEW d, NEW s,
         NEW own, NEW label \in {"retain", "drop"},
         Begin(t, label, c, d, s, own), UNCHANGED cell
  PROVE  Contents' = Contents
<1>1. /\ \A u \in Threads : u # t => pc'[u] = pc[u] /\ dst'[u] = dst[u] /\ val'[u] = val[u]
      /\ pc[t] = "idle" /\ pc'[t] = label /\ dst'[t] = c
  BY DEF Begin, RInv, IInv, TypeOK
<1>2. \A u \in Threads : u # t /\ pc[u] # "idle" => dst[u] # c
  BY DEF Begin, Writable
<1>3. Effective(c)' = Effective(c)
  BY <1>1, <1>2, EffectiveAtRest, EffectiveAtRestNext
<1>4. \A b \in Cells : b # c => Effective(b)' = Effective(b)
  BY <1>1, OthersKept
<1> QED
  BY <1>3, <1>4, Quiet

\* Releasing what a cell or a row names empties it.
LEMMA WipeRefines ==
  ASSUME RInv, RInv', [Next]_vars, NEW t \in Threads, NEW c \in Cells, NEW d, NEW s, NEW own,
         Begin(t, "clear", c, d, s, own), UNCHANGED cell
  PROVE  Column!Next
<1>1. /\ \A u \in Threads : u # t => pc'[u] = pc[u] /\ dst'[u] = dst[u] /\ val'[u] = val[u]
      /\ pc[t] = "idle" /\ dst'[t] = c
  BY DEF Begin, RInv, IInv, TypeOK
<1>2. \A b \in Cells : b # c => Effective(b)' = Effective(b)
  BY <1>1, OthersKept
<1> QED
  BY <1>2, OneWrite

\* What a thread's step does to other threads' locals and to other cells.
LEMMA StepFrame ==
  ASSUME RInv, NEW t \in Threads, Step(t)
  PROVE  /\ pc[t] # "idle" /\ dst[t] \in Cells
         /\ \A u \in Threads : u # t => /\ pc'[u] = pc[u] /\ dst'[u] = dst[u]
                                        /\ val'[u] = val[u]
                                        /\ pc[u] # "idle" => dst[u] # dst[t]
         /\ pc'[t] # "idle" => dst'[t] = dst[t]
         /\ \A b \in Cells : b # dst[t] => cell'[b] = cell[b]
<1>1. pc[t] # "idle" /\ dst[t] \in Cells
  BY DEF Step, RetainVal, ReleaseOld, Store, Drop, Clear, Memcpy, Hold, RInv, IInv, Discipline
<1>2. \A u \in Threads : u # t /\ pc[u] # "idle" => dst[u] # dst[t]
  BY <1>1 DEF RInv, IInv, Discipline
<1>3. ASSUME NEW label, Goto(t, label) \/ Return(t)
      PROVE  /\ \A u \in Threads : u # t => pc'[u] = pc[u] /\ dst'[u] = dst[u] /\ val'[u] = val[u]
             /\ pc'[t] # "idle" => dst'[t] = dst[t]
  BY <1>3 DEF Goto, Return, RInv, IInv, TypeOK
<1>4. \E label : Goto(t, label) \/ Return(t)
  BY DEF Step, RetainVal, ReleaseOld, Store, Drop, Clear, Memcpy, Hold
<1>5. \A b \in Cells : b # dst[t] => cell'[b] = cell[b]
  BY DEF Step, RetainVal, ReleaseOld, Store, Drop, Clear, Memcpy, Hold, RInv, IInv, TypeOK
<1> QED
  BY <1>1, <1>2, <1>3, <1>4, <1>5

LEMMA StepRefines ==
  ASSUME RInv, RInv', [Next]_vars, NEW t \in Threads, Step(t)
  PROVE  Column!Next \/ Contents' = Contents
<1>0. PICK c \in Cells : c = dst[t]
  BY StepFrame
<1>1. \A b \in Cells : b # c => Effective(b)' = Effective(b)
  BY <1>0, StepFrame, OthersKept
<1>2. CASE ReleaseOld(t) \/ Memcpy(t)
  BY <1>1, OneWrite
<1>3. CASE RetainVal(t) \/ Drop(t) \/ Hold(t)
  <2>1. pc[t] \in {"retain", "drop", "hold"} /\ pc'[t] \in {"release", "idle"} /\ cell' = cell
    BY <1>3 DEF RetainVal, Drop, Hold, Goto, Return, RInv, IInv, TypeOK
  <2>2. \A u \in Threads : /\ pc[u] \in {"store", "clear"} => dst[u] # c
                           /\ pc'[u] \in {"store", "clear"} => dst'[u] # c
    BY <1>0, <2>1, StepFrame
  <2>3. Effective(c)' = Effective(c)
    BY <2>1, <2>2, EffectiveAtRest, EffectiveAtRestNext
  <2> QED
    BY <1>1, <2>3, Quiet
<1>4. CASE Store(t)
  <2>1. pc[t] = "store" /\ pc'[t] \in {"drop", "idle"} /\ cell'[c] = val[t]
    BY <1>0, <1>4 DEF Store, Goto, Return, RInv, IInv, TypeOK
  <2>2. \A u \in Threads : pc'[u] \in {"store", "clear"} => dst'[u] # c
    BY <1>0, <2>1, StepFrame
  <2>3. Effective(c) = val[t]
    BY <1>0, <2>1, EffectiveIs DEF RInv, IInv, EffectiveKnown
  <2>4. Effective(c)' = Effective(c)
    BY <2>1, <2>2, <2>3, EffectiveAtRestNext
  <2> QED
    BY <1>1, <2>4, Quiet
<1>5. CASE Clear(t)
  <2>1. pc[t] = "clear" /\ pc'[t] \in {"memcpy", "idle"} /\ cell'[c] = EmptySlot
    BY <1>0, <1>5 DEF Clear, Goto, Return, RInv, IInv, TypeOK
  <2>2. \A u \in Threads : pc'[u] \in {"store", "clear"} => dst'[u] # c
    BY <1>0, <2>1, StepFrame
  <2>3. Effective(c) = EmptySlot
    BY <1>0, <2>1, EffectiveIs DEF RInv, IInv, EffectiveKnown
  <2>4. Effective(c)' = Effective(c)
    BY <2>1, <2>2, <2>3, EffectiveAtRestNext
  <2> QED
    BY <1>1, <2>4, Quiet
<1> QED
  BY <1>2, <1>3, <1>4, <1>5 DEF Step

\* Undo exchanges the contents of two cells.
LEMMA SwapRefines ==
  ASSUME RInv, RInv', [Next]_vars, NEW c \in Cells, NEW d \in Cells, SwapCells(c, d)
  PROVE  Column!Next
<1>1. UNCHANGED locals /\ UNCHANGED run /\ cell' = [cell EXCEPT ![c] = cell[d], ![d] = cell[c]]
  BY DEF SwapCells, pool
<1>2. \A u \in Threads : pc[u] # "idle" => dst[u] # c /\ dst[u] # d
  BY DEF SwapCells, Writable
<1>3. /\ Effective(c) = cell[c] /\ Effective(c)' = cell[d]
      /\ Effective(d) = cell[d] /\ Effective(d)' = cell[c]
  BY <1>1, <1>2, EffectiveAtRest, EffectiveAtRestNext DEF locals, RInv, IInv, TypeOK
<1>4. ASSUME NEW b \in Cells, b # c, b # d
      PROVE  Effective(b)' = Effective(b)
  <2>1. EffectiveKnown(b) /\ EffectiveKnown(b)' /\ cell'[b] = cell[b]
    BY <1>1, <1>4, EffectiveIs, EffectiveIsNext DEF RInv, IInv, TypeOK
  <2> QED
    BY <1>1, <2>1 DEF EffectiveKnown, locals
<1>5. /\ Contents'[c] = Contents[d] /\ Contents'[d] = Contents[c]
      /\ \A b \in Cells : b # c /\ b # d => Contents'[b] = Contents[b]
  BY <1>1, <1>3, <1>4 DEF Contents
<1>6. Contents \in [Cells -> Column!Values] /\ Contents' \in [Cells -> Column!Values]
  BY ContentsType, ContentsTypeNext DEF Column!Values
<1>7. Contents' = [Contents EXCEPT ![c] = Contents[d], ![d] = Contents[c]]
  BY <1>5, <1>6
<1> QED
  BY <1>7 DEF Column!Next, Column!Swap

LEMMA NextRefines == RInv /\ RInv' /\ [Next]_vars => [Column!Next]_Contents
<1> SUFFICES ASSUME RInv, RInv', [Next]_vars
             PROVE  Column!Next \/ Contents' = Contents
  OBVIOUS
<1>1. ASSUME NEW t \in Threads, NEW c \in Cells, NEW r \in Runs \cup {EmptyRun},
             SetRun(t, c, r)
      PROVE  Contents' = Contents
  BY <1>1, BeginRefines DEF SetRun
<1>2. ASSUME NEW t \in Threads, NEW c \in Cells, NEW d \in Cells, Assign(t, c, d)
      PROVE  Contents' = Contents
  BY <1>2, BeginRefines DEF Assign
<1>3. ASSUME NEW t \in Threads, NEW c \in Cells, NEW d \in Cells,
             Capture(t, c, d) \/ Wipe(t, c)
      PROVE  Column!Next
  BY <1>3, WipeRefines DEF Capture, Wipe
<1>4. ASSUME UNCHANGED <<cell, locals>>
      PROVE  Contents' = Contents
  <2>1. ASSUME NEW b \in Cells
        PROVE  Effective(b)' = Effective(b)
    <3>1. EffectiveKnown(b) /\ EffectiveKnown(b)'
      BY EffectiveIs, EffectiveIsNext DEF RInv, IInv
    <3> QED
      BY <1>4, <3>1 DEF EffectiveKnown, locals
  <2> QED
    BY <2>1, Quiet
<1>5. CASE UNCHANGED vars
  BY <1>5, <1>4 DEF vars, locals
<1>6. ASSUME NEW h \in Shards, SweepShard(h)
      PROVE  Contents' = Contents
  BY <1>6, <1>4 DEF SweepShard
<1> QED
  BY <1>1, <1>2, <1>3, <1>5, <1>6, StepRefines, SwapRefines DEF Next

LEMMA InitRefines == Init => Column!Init
<1> SUFFICES ASSUME Init PROVE Column!Init
  OBVIOUS
<1>1. \A c \in Cells : Effective(c) = EmptySlot
  BY DEF Init, Effective
<1> QED
  BY <1>1 DEF Contents, Column!Init

(* The pool implements a plain column: a cell reads as the run last written   *)
(* to it, and no other cell's operation, no interning and no sweep is seen.   *)
THEOREM ImplementsColumn == Spec => ColumnSpec
<1>1. Init => RInv
  BY InitIInv DEF RInv, Emptied, Init
<1>2. RInv /\ [Next]_vars => RInv' /\ [Column!Next]_Contents
  BY RInvStep, NextRefines
<1> QED
  BY <1>1, <1>2, InitRefines, PTL DEF Spec, ColumnSpec, Column!Spec
=============================================================================
