----------------------------- MODULE DeformPool -----------------------------
(***************************************************************************)
(* The sharded pool of interned, reference-counted weight runs             *)
(* (mesh/deform_pool.{h,cc}) together with every writer of a WEIGHTS cell: *)
(* WeightsRef (mesh/attr_weights.h), AttrGroup::set_default, mergeWeights  *)
(* and the undo rows of meshlog/meshlog_row.h.                             *)
(*                                                                         *)
(* A cell is one element of a mesh column or one weight cell of an undo    *)
(* row.  Each operation on a cell is split at the critical sections of the *)
(* pool, so that threads interleave exactly where the shard mutex is not   *)
(* held.  A shard's table starts after the immortal entry of the empty run *)
(* (slot 0), which every operation returns early on.                       *)
(***************************************************************************)
EXTENDS Integers, FiniteSets

CONSTANTS
  Cells,      \* cells of mesh columns and of undo rows
  Threads,    \* threads that write cells
  Runs,       \* non-empty canonical runs
  EmptyRun,   \* the empty run
  NoRun,      \* what a swept table entry holds
  Shards,     \* the pool's shards
  ShardOf,    \* shard a run hashes to
  MaxLocal,   \* bound on the entries of a shard's table
  EmptySlot,  \* WeightSlot(0)
  NoCell

Slots == Shards \X (1 .. MaxLocal)

ASSUME DeformPoolAssumption ==
  /\ IsFiniteSet(Cells) /\ IsFiniteSet(Threads)
  /\ MaxLocal \in Nat
  /\ ShardOf \in [Runs -> Shards]
  /\ EmptyRun \notin Runs /\ NoRun \notin Runs /\ EmptyRun # NoRun
  /\ EmptySlot \notin Slots
  /\ NoCell \notin Cells

VARIABLES
  size,   \* entries of each shard's table
  run,    \* run an entry's arena range holds, NoRun once swept
  refs,   \* Slot::refs
  free,   \* times an entry occurs in the shard's free_slots
  live,   \* Shard::live_count
  cell,   \* slot a cell names
  pc,     \* where a thread's operation stands between critical sections
  dst,    \* cell the operation writes
  src,    \* cell the operation reads, NoCell when it reads none
  val,    \* slot the operation is about to store
  owns    \* does the operation hold the reference intern() handed it

pool == <<size, run, refs, free, live>>
locals == <<pc, dst, src, val, owns>>
vars == <<size, run, refs, free, live, cell, pc, dst, src, val, owns>>

Labels == {"idle", "retain", "release", "store", "drop", "clear", "memcpy", "hold"}

Init ==
  /\ size = [h \in Shards |-> 0]
  /\ run = [s \in Slots |-> NoRun]
  /\ refs = [s \in Slots |-> 0]
  /\ free = [s \in Slots |-> 0]
  /\ live = [h \in Shards |-> 0]
  /\ cell = [c \in Cells |-> EmptySlot]
  /\ pc = [t \in Threads |-> "idle"]
  /\ dst = [t \in Threads |-> NoCell]
  /\ src = [t \in Threads |-> NoCell]
  /\ val = [t \in Threads |-> EmptySlot]
  /\ owns = [t \in Threads |-> FALSE]

-----------------------------------------------------------------------------
(* The pool's critical sections.                                           *)

\* retain(): a bare increment; it neither relists nor recounts the entry.
IncRef(s) ==
  /\ refs' = IF s = EmptySlot THEN refs ELSE [refs EXCEPT ![s] = @ + 1]
  /\ UNCHANGED <<size, run, free, live>>

\* release(): the last reference lists the entry for sweep() but leaves its
\* run interned and addressable.
DecRef(s) ==
  IF s = EmptySlot \/ refs[s] = 0
  THEN UNCHANGED pool
  ELSE /\ refs' = [refs EXCEPT ![s] = @ - 1]
       /\ IF refs[s] = 1
          THEN /\ free' = [free EXCEPT ![s] = @ + 1]
               /\ live' = [live EXCEPT ![s[1]] = @ - 1]
          ELSE UNCHANGED <<free, live>>
       /\ UNCHANGED <<size, run>>

\* Mutant: a hit forgets that the entry was waiting for sweep().
FoundStaysListed(r, s) ==
  /\ run[s] = r
  /\ IncRef(s)

\* intern() finds the run on its hash chain; an entry waiting for sweep() is
\* unlisted and counted live again.
Found(r, s) ==
  /\ run[s] = r
  /\ refs' = [refs EXCEPT ![s] = @ + 1]
  /\ IF refs[s] = 0
     THEN /\ free' = [free EXCEPT ![s] = IF @ > 0 THEN @ - 1 ELSE 0]
          /\ live' = [live EXCEPT ![s[1]] = @ + 1]
     ELSE UNCHANGED <<free, live>>
  /\ UNCHANGED <<size, run>>

\* Mutant: the lookup skips the entries that wait for sweep().
AppendedPastPending(r, s) ==
  LET h == ShardOf[r] IN
  /\ \A q \in Slots : run[q] = r => refs[q] = 0
  /\ size[h] < MaxLocal
  /\ s = <<h, size[h] + 1>>
  /\ size' = [size EXCEPT ![h] = @ + 1]
  /\ run' = [run EXCEPT ![s] = r]
  /\ refs' = [refs EXCEPT ![s] = 1]
  /\ live' = [live EXCEPT ![h] = @ + 1]
  /\ UNCHANGED free

\* intern() misses: the entry is appended at the end of the table.
Appended(r, s) ==
  LET h == ShardOf[r] IN
  /\ \A q \in Slots : run[q] # r
  /\ size[h] < MaxLocal
  /\ s = <<h, size[h] + 1>>
  /\ size' = [size EXCEPT ![h] = @ + 1]
  /\ run' = [run EXCEPT ![s] = r]
  /\ refs' = [refs EXCEPT ![s] = 1]
  /\ live' = [live EXCEPT ![h] = @ + 1]
  /\ UNCHANGED free

Intern(r, s) ==
  \/ r = EmptyRun /\ s = EmptySlot /\ UNCHANGED pool
  \/ r \in Runs /\ s \in Slots /\ (Found(r, s) \/ Appended(r, s))

\* Mutant: sweep() takes an entry with one reference for an unused one.
SweepLastReference(h) ==
  /\ \E s \in Slots : s[1] = h /\ free[s] > 0
  /\ run' = [s \in Slots |-> IF s[1] = h /\ refs[s] <= 1 THEN NoRun ELSE run[s]]
  /\ free' = [s \in Slots |-> IF s[1] = h THEN 0 ELSE free[s]]
  /\ UNCHANGED <<size, refs, live, cell, locals>>

\* sweep() of one shard: entries without references lose their run, the
\* chains are rebuilt from the survivors, free_slots is emptied.
SweepShard(h) ==
  /\ \E s \in Slots : s[1] = h /\ free[s] > 0
  /\ run' = [s \in Slots |-> IF s[1] = h /\ refs[s] = 0 THEN NoRun ELSE run[s]]
  /\ free' = [s \in Slots |-> IF s[1] = h THEN 0 ELSE free[s]]
  /\ UNCHANGED <<size, refs, live, cell, locals>>

-----------------------------------------------------------------------------
(* Operations on cells.  Two threads never write one cell, and none writes *)
(* a cell another is reading: parallel capture hands out disjoint rows and *)
(* runs while the mesh is not being written.                               *)

Writable(c) == \A t \in Threads : pc[t] # "idle" => dst[t] # c /\ src[t] # c
Readable(d) == \A t \in Threads : pc[t] # "idle" => dst[t] # d

Begin(t, label, c, d, s, own) ==
  /\ pc[t] = "idle"
  /\ Writable(c)
  /\ pc' = [pc EXCEPT ![t] = label]
  /\ dst' = [dst EXCEPT ![t] = c]
  /\ src' = [src EXCEPT ![t] = d]
  /\ val' = [val EXCEPT ![t] = s]
  /\ owns' = [owns EXCEPT ![t] = own]

Goto(t, label) ==
  /\ pc' = [pc EXCEPT ![t] = label]
  /\ UNCHANGED <<dst, src, val, owns>>

\* The call returns and its locals are gone.
Return(t) ==
  /\ pc' = [pc EXCEPT ![t] = "idle"]
  /\ dst' = [dst EXCEPT ![t] = NoCell]
  /\ src' = [src EXCEPT ![t] = NoCell]
  /\ val' = [val EXCEPT ![t] = EmptySlot]
  /\ owns' = [owns EXCEPT ![t] = FALSE]

\* WeightsRef::setRun and the interning path of mergeWeights: intern the run;
\* reassign() does nothing when the cell already names its slot.
SetRun(t, c, r) ==
  \E s \in Slots \cup {EmptySlot} :
    /\ Intern(r, s)
    /\ Begin(t, IF cell[c] = s THEN "drop" ELSE "retain", c, NoCell, s, TRUE)
    /\ UNCHANGED cell

\* reassign() from another cell: setSlot, the endpoint cases of mergeWeights,
\* ChunkElemRow::writeTo and refreshDataColumns, ChunkElemData::cpyFrom.
Assign(t, c, d) ==
  /\ Readable(d) /\ cell[c] # cell[d]
  /\ Begin(t, "retain", c, d, cell[d], FALSE)
  /\ UNCHANGED <<pool, cell>>

\* The three steps of reassign() and setRun's closing release.
RetainVal(t) ==
  pc[t] = "retain" /\ IncRef(val[t]) /\ Goto(t, "release") /\ UNCHANGED cell

ReleaseOld(t) ==
  pc[t] = "release" /\ DecRef(cell[dst[t]]) /\ Goto(t, "store") /\ UNCHANGED cell

\* Mutant: setRun() keeps the reference intern() handed it.
StoreNeverDrops(t) ==
  /\ pc[t] = "store"
  /\ cell' = [cell EXCEPT ![dst[t]] = val[t]]
  /\ Return(t)
  /\ UNCHANGED pool

Store(t) ==
  /\ pc[t] = "store"
  /\ cell' = [cell EXCEPT ![dst[t]] = val[t]]
  /\ IF owns[t] THEN Goto(t, "drop") ELSE Return(t)
  /\ UNCHANGED pool

Drop(t) ==
  pc[t] = "drop" /\ DecRef(val[t]) /\ Return(t) /\ UNCHANGED cell

\* weightsReleaseElem (an element is re-allocated), weightsReleaseFrom (a layer
\* or a page goes) and releaseWeights (an undo row goes).
Wipe(t, c) ==
  /\ Begin(t, "clear", c, NoCell, EmptySlot, FALSE)
  /\ DecRef(cell[c])
  /\ UNCHANGED cell

\* ChunkElemRow::captureFrom begins by releasing what the reused row names.
Capture(t, c, d) ==
  /\ c # d /\ Readable(d)
  /\ Begin(t, "clear", c, d, EmptySlot, FALSE)
  /\ DecRef(cell[c])
  /\ UNCHANGED cell

Clear(t) ==
  /\ pc[t] = "clear"
  /\ cell' = [cell EXCEPT ![dst[t]] = EmptySlot]
  /\ IF src[t] = NoCell THEN Return(t) ELSE Goto(t, "memcpy")
  /\ UNCHANGED pool

\* The raw copy of the column's bytes, then retainWeights().
Memcpy(t) ==
  /\ pc[t] = "memcpy"
  /\ cell' = [cell EXCEPT ![dst[t]] = cell[src[t]]]
  /\ Goto(t, "hold")
  /\ UNCHANGED pool

Hold(t) ==
  pc[t] = "hold" /\ IncRef(cell[dst[t]]) /\ Return(t) /\ UNCHANGED cell

\* ChunkElemRow::swapWith on undo and redo: the references move with the slots.
SwapCells(c, d) ==
  /\ c # d /\ Writable(c) /\ Writable(d)
  /\ cell' = [cell EXCEPT ![c] = cell[d], ![d] = cell[c]]
  /\ UNCHANGED <<pool, locals>>

Step(t) ==
  \/ RetainVal(t) \/ ReleaseOld(t) \/ Store(t) \/ Drop(t)
  \/ Clear(t) \/ Memcpy(t) \/ Hold(t)

Next ==
  \/ \E t \in Threads, c \in Cells :
       \/ \E r \in Runs \cup {EmptyRun} : SetRun(t, c, r)
       \/ \E d \in Cells : Assign(t, c, d) \/ Capture(t, c, d)
       \/ Wipe(t, c)
  \/ \E t \in Threads : Step(t)
  \/ \E c, d \in Cells : SwapCells(c, d)
  \/ \E h \in Shards : SweepShard(h)

Spec == Init /\ [][Next]_vars

-----------------------------------------------------------------------------
(* Properties.                                                             *)

SlotValues == Slots \cup {EmptySlot}

(* Every variable has its type: counts never go negative, an operation names  *)
(* cells and slots that exist (the fields of deform_pool.h's Slot and Shard). *)
TypeOK ==
  /\ size \in [Shards -> 0 .. MaxLocal]
  /\ run \in [Slots -> Runs \cup {NoRun}]
  /\ refs \in [Slots -> Nat]
  /\ free \in [Slots -> Nat]
  /\ live \in [Shards -> Int]
  /\ cell \in [Cells -> SlotValues]
  /\ pc \in [Threads -> Labels]
  /\ dst \in [Threads -> Cells \cup {NoCell}]
  /\ src \in [Threads -> Cells \cup {NoCell}]
  /\ val \in [Threads -> SlotValues]
  /\ owns \in [Threads -> BOOLEAN]

\* A cell's reference to its slot is missing while an operation on it stands
\* between releasing the old slot and storing the new one, or between copying
\* the bytes and retaining them.
Held(c) == \A t \in Threads : pc[t] \in {"store", "clear", "memcpy", "hold"} => dst[t] # c

\* Everything that can hold a reference: a cell, an operation that owns the
\* reference intern() returned, an operation whose reassign() has retained.
HolderIds == ({"cell"} \X Cells) \cup ({"intern", "reassign"} \X Threads)

Holds(x, s) ==
  \/ x[1] = "cell" /\ Held(x[2]) /\ cell[x[2]] = s
  \/ x[1] = "intern" /\ owns[x[2]] /\ val[x[2]] = s
  \/ x[1] = "reassign" /\ pc[x[2]] \in {"release", "store"} /\ val[x[2]] = s

Holders(s) == {x \in HolderIds : Holds(x, s)}

(* auditRefcounts() finds no mismatch, in the middle of operations as well:  *)
(* an entry's count is the number of cells that name it plus the references  *)
(* operations in flight hold, so no interleaving loses or invents one.       *)
RefsExact == \A s \in Slots : refs[s] = Cardinality(Holders(s))

(* Equal weight sets land on one slot (deform_pool.h, intern): no run is     *)
(* interned twice, whatever intern, release-to-zero and sweep do meanwhile.  *)
InternedOnce ==
  \A s, q \in Slots : run[s] = run[q] /\ run[s] # NoRun => s = q

(* free_slots lists exactly the entries that wait for sweep(), each once, and *)
(* live_count counts exactly the entries somebody references.                 *)
FreeListExact ==
  /\ \A s \in Slots : free[s] = (IF refs[s] = 0 /\ run[s] # NoRun THEN 1 ELSE 0)
  /\ \A h \in Shards : live[h] = Cardinality({s \in Slots : s[1] = h /\ refs[s] > 0})

(* No cell at rest names an entry that sweep() reclaimed or may reclaim, even *)
(* if sweep() runs at any moment: the bare index in a column or an undo row   *)
(* still resolves to a run.                                                   *)
NoDangling ==
  \A c \in Cells : Held(c) /\ cell[c] # EmptySlot =>
                      refs[cell[c]] > 0 /\ run[cell[c]] \in Runs

\* The slot a cell has in effect: once the old reference is gone an operation
\* is as good as done.
Effective(c) ==
  IF \E t \in Threads : pc[t] = "store" /\ dst[t] = c
  THEN val[CHOOSE t \in Threads : pc[t] = "store" /\ dst[t] = c]
  ELSE IF \E t \in Threads : pc[t] = "clear" /\ dst[t] = c THEN EmptySlot
  ELSE cell[c]

\* What the cells read as: the run of the slot each has in effect.
Contents ==
  [c \in Cells |-> IF Effective(c) = EmptySlot THEN EmptyRun ELSE run[Effective(c)]]

Column == INSTANCE WeightColumn WITH value <- Contents

(* The pool implements a plain column of runs: what a cell reads is the run   *)
(* last written to it, until its own writer changes it; interning, other      *)
(* cells' releases and sweep() are invisible.                                 *)
ColumnSpec == Column!Spec
=============================================================================
