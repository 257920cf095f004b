----------------------------- MODULE LogReplay -----------------------------
(***************************************************************************)
(* The pure half of the undo log: what replaying one chunk of a step does  *)
(* to the mesh and to the chunk (meshlog/meshlog_topo.h, meshlog_chunk.h,  *)
(* meshlog_row.h, meshlog_reorder.h).                                      *)
(*                                                                         *)
(* A mesh is one element domain: the live indices, the data columns of     *)
(* every slot, and the save gate, the NOCOPY column .strokeid that says    *)
(* what of an element this stroke has saved.  A chunk is a record          *)
(*   [kind |-> "topo",    recs]           LogChunkTopo                     *)
(*   [kind |-> "elems",   cols, rows, swapped]  LogChunkElems              *)
(*   [kind |-> "reorder", perm]           LogChunkReorder                  *)
(***************************************************************************)
EXTENDS Integers, Sequences, Functions

CONSTANTS
  Elems,    \* element indices of the domain
  Cols,     \* its columns
  TopoCols, \* those that hold connectivity (AttrFlag::TOPO)
  Default   \* a column's default value

DataCols == Cols \ TopoCols

DefaultRow == [c \in Cols |-> Default]

\* An element nothing was saved of: the stamp 0.
NoStamp == [sid |-> 0, saved |-> {}]

\* ElemData::alloc at an index: every column, the gate included, restarts at
\* its default.
Alloc(m, i) ==
  [live |-> m.live \cup {i},
   data |-> [m.data EXCEPT ![i] = DefaultRow],
   gate |-> [m.gate EXCEPT ![i] = NoStamp]]

\* ElemData::release leaves the slot's bytes where they are.
Release(m, i) == [m EXCEPT !.live = @ \ {i}]

\* The row a with the columns cols of b.
Mix(cols, a, b) == [c \in Cols |-> IF c \in cols THEN b[c] ELSE a[c]]

\* ChunkElemRow::writeTo of a row laid out for cols: NOCOPY columns are written
\* back as zeros.
WriteTo(m, i, cols, row) ==
  [m EXCEPT !.data[i] = Mix(cols, @, row), !.gate[i] = NoStamp]

-----------------------------------------------------------------------------
(* Loops.  Op is applied to the indices 1 to n of a chunk or a step in order,  *)
(* or from n down to 1.                                                        *)

\* F of the value of v, which TLC computes once (a LET is computed at each use).
Bind(v, F(_)) == CHOOSE r \in {F(x) : x \in {v}} : TRUE

Forward(Op(_, _), base, n) ==
  LET acc[k \in 0 .. n] ==
        IF k = 0 THEN base ELSE Bind(acc[k - 1], LAMBDA a : Op(a, k))
  IN acc[n]

Backward(Op(_, _), base, n) == Forward(LAMBDA a, k : Op(a, n + 1 - k), base, n)

-----------------------------------------------------------------------------
(* Topology records: a is [mesh, chunk].  A record's what is "created"         *)
(* (Created and Live, body is end_body), "changed" (Existed and Live) or       *)
(* "killed" (Existed and Dead, body is begin_body); one Created and Dead was   *)
(* dropped.                                                                    *)

Restored(m, e) == WriteTo(Alloc(m, e.idx), e.idx, Cols, e.body)

\* ChunkElemRow::swapWith exchanges the data columns and leaves the gate.
SwapBody(a, k) ==
  LET i == a.chunk.recs[k].idx IN
  [mesh |-> [a.mesh EXCEPT !.data[i] = a.chunk.recs[k].body],
   chunk |-> [a.chunk EXCEPT !.recs[k].body = a.mesh.data[i]]]

UndoRecord(a, k) ==
  LET e == a.chunk.recs[k] IN
  CASE e.what = "created" -> [a EXCEPT !.mesh = Release(@, e.idx)]
    [] e.what = "changed" -> SwapBody(a, k)
    [] e.what = "killed"  -> [a EXCEPT !.mesh = Restored(@, e)]

RedoRecord(a, k) ==
  LET e == a.chunk.recs[k] IN
  CASE e.what = "created" -> [a EXCEPT !.mesh = Restored(@, e)]
    [] e.what = "changed" -> SwapBody(a, k)
    [] e.what = "killed"  -> [a EXCEPT !.mesh = Release(@, e.idx)]

-----------------------------------------------------------------------------
(* Rows of the element store.                                                  *)

\* ChunkElemData::swapWith: a row is swapped in every column the store has,
\* whether or not the row was captured with it.
SwapRow(a, k) ==
  LET row == a.chunk.rows[k] IN
  [mesh |-> [a.mesh EXCEPT !.data[row.idx] = Mix(a.chunk.cols, @, row.vals)],
   chunk |-> [a.chunk EXCEPT !.rows[k].vals =
                Mix(a.chunk.cols, @, a.mesh.data[row.idx])]]

\* ChunkElemData::swap: newest row first, and oldest first on the way back.
SwapRows(a) ==
  LET b == [a EXCEPT !.chunk.swapped = ~@] IN
  IF a.chunk.swapped THEN Forward(SwapRow, b, Len(a.chunk.rows))
                     ELSE Backward(SwapRow, b, Len(a.chunk.rows))

-----------------------------------------------------------------------------
(* Chunks and steps.                                                           *)

\* applyReorderIncremental: slots move with all their columns and liveness.
Permute(m, perm) ==
  LET From == AntiFunction(perm) IN
  [live |-> {perm[i] : i \in m.live},
   data |-> [i \in Elems |-> m.data[From[i]]],
   gate |-> [i \in Elems |-> m.gate[From[i]]]]

\* LogChunk::undo and redo of [mesh, chunk].
UndoChunk(a) ==
  CASE a.chunk.kind = "topo"    -> Backward(UndoRecord, a, Len(a.chunk.recs))
    [] a.chunk.kind = "elems"   -> SwapRows(a)
    [] a.chunk.kind = "reorder" -> [a EXCEPT !.mesh = Permute(@, AntiFunction(a.chunk.perm))]

RedoChunk(a) ==
  CASE a.chunk.kind = "topo"    -> Forward(RedoRecord, a, Len(a.chunk.recs))
    [] a.chunk.kind = "elems"   -> SwapRows(a)
    [] a.chunk.kind = "reorder" -> [a EXCEPT !.mesh = Permute(@, a.chunk.perm)]

\* A step is [mesh, chunks]: newest chunk first on undo, oldest first on redo.
ReplayChunk(Op(_), s, k) ==
  Bind(Op([mesh |-> s.mesh, chunk |-> s.chunks[k]]),
       LAMBDA r : [mesh |-> r.mesh, chunks |-> [s.chunks EXCEPT ![k] = r.chunk]])

UndoStep(s) == Backward(LAMBDA b, k : ReplayChunk(UndoChunk, b, k), s, Len(s.chunks))
RedoStep(s) == Forward(LAMBDA b, k : ReplayChunk(RedoChunk, b, k), s, Len(s.chunks))
=============================================================================
