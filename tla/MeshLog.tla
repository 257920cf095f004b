------------------------------ MODULE MeshLog ------------------------------
(***************************************************************************)
(* The undo log (meshlog/meshlog_base.h and meshlog_*.cc) with the clients *)
(* that drive it: brush strokes and dyntopo strokes (brush_executor*.cc),  *)
(* their live-preview dabs, mesh operators and selection steps.            *)
(*                                                                         *)
(* One element domain stands for the five.  A column is a data column      *)
(* (position, color, selection) or connectivity (an attribute flagged      *)
(* TOPO).  LogReplay says what replaying a chunk does; this module says    *)
(* what is recorded, when, and who owns an element's pre-step value: the   *)
(* topology chunk that touched it first or the step's element store.       *)
(***************************************************************************)
EXTENDS LogReplay, SequencesExt, FiniteSets

CONSTANTS
  Vals,        \* values of a column
  Kernels,     \* save sets of the brush kernels a stroke may run
  Modes,       \* kinds of step the clients make
  Styles,      \* the dabs a stroke makes, one set a stroke: {"real"},
               \* {"preview"} or, mixed, both
  NoElem,      \* no element, and what the document has in a dead slot
  InitLive,    \* elements the mesh may start with: a set of sets
  InitRow,     \* what they hold
  StrokeMod,   \* the stamp keeps the stroke id modulo this (2^16 in the code)
  MaxStrokes,  \* bound on the steps ever begun
  MaxLog,      \* bound on the rows and records of a step
  MaxChunks,   \* bound on the chunks of a step
  Limits       \* undo limits the application sets, -1 for none

ASSUME MeshLogAssumption ==
  /\ TopoCols \subseteq Cols /\ Default \in Vals
  /\ Kernels \subseteq SUBSET DataCols \ {{}}
  /\ Modes \subseteq {"brush", "dyntopo", "op", "callbacks", "select"}
  /\ Styles \subseteq SUBSET {"real", "preview"}
  /\ NoElem \notin Elems
  /\ InitLive \subseteq SUBSET Elems /\ InitRow \in [Cols -> Vals]
  /\ StrokeMod \in Nat \ {0} /\ MaxStrokes \in Nat
  /\ MaxLog \in Nat /\ MaxChunks \in Nat /\ Limits \subseteq Nat \cup {-1}

VARIABLES
  mesh,      \* the element domain, see LogReplay
  active,    \* active_vert_
  entries,   \* the steps: [chunks, topo, finalized, snap]; topo is the index
             \* of topo_chunk_ in chunks, 0 for null
  curStep,   \* curStep_, the steps that are done
  strokeId,  \* strokeId_
  maxUndo,   \* maxUndoSteps_
  stamps,    \* elements chunk_stamp_ holds at its current generation
  preview,   \* PreviewState: [active, baseline, rows, gated]
  client     \* [mode, style, dab, committed]: the step the client has open, the
             \* dabs it makes, how far its dab is, whether it has committed its
             \* preview

log == <<active, entries, curStep, strokeId, maxUndo, stamps, preview>>
vars == <<mesh, active, entries, curStep, strokeId, maxUndo, stamps, preview, client>>

Rows == [Cols -> Vals]
AllFlags == DataCols \cup {"rest"}   \* the flag mask 0xffff

NewTopo == [kind |-> "topo", recs |-> <<>>]
NewStore == [kind |-> "elems", cols |-> {}, rows |-> <<>>, swapped |-> FALSE]
NewEntry(a) == [chunks |-> <<>>, topo |-> 0, finalized |-> FALSE, snap |-> a]
NoRows == [i \in {} |-> InitRow]
NoPreview == [active |-> FALSE, baseline |-> 0, rows |-> NoRows, gated |-> {}]
Closed == [mode |-> "closed", style |-> {}, dab |-> "idle", committed |-> FALSE]

\* The constructor grows one entry that no beginStep() opened.
Init ==
  /\ \E L \in InitLive :
       mesh = [live |-> L,
               data |-> [i \in Elems |-> IF i \in L THEN InitRow ELSE DefaultRow],
               gate |-> [i \in Elems |-> NoStamp]]
  /\ active = NoElem
  /\ entries = <<NewEntry(NoElem)>>
  /\ curStep = 0
  /\ strokeId = 0
  /\ maxUndo = -1
  /\ stamps = {}
  /\ preview = NoPreview
  /\ client = Closed

-----------------------------------------------------------------------------
(* The save gate.                                                          *)

Sid == strokeId % StrokeMod   \* curStrokeId()

NeedsData(m, i, flags) == ~(m.gate[i].sid = Sid /\ flags \subseteq m.gate[i].saved)

UpdateSaved(m, i, flags) ==
  [m EXCEPT !.gate[i] = [sid |-> Sid,
                         saved |-> flags \cup IF @.sid = Sid THEN @.saved ELSE {}]]

\* stampUndoGate: a topology touch owns the element for the rest of the step;
\* during a preview the touches that were the first are remembered.
Gated(m, i) ==
  [preview EXCEPT !.gated = @ \cup IF preview.active /\ NeedsData(m, i, AllFlags)
                                   THEN {i} ELSE {}]

-----------------------------------------------------------------------------
(* The open step's chunks.                                                 *)

cur == entries[curStep + 1]   \* curEntry()

\* LogChunkTopo::finalizeStep: what was created in the chunk, as it is now.
Finalized(ch, m) ==
  LET End(r) == IF r.what = "created" THEN [r EXCEPT !.body = m.data[r.idx]] ELSE r
  IN [ch EXCEPT !.recs = [k \in DOMAIN @ |-> End(@[k])]]

\* Mutant: endStep() forgets the cross-dab refresh.
NotRefreshed(ch, m) == ch

\* refreshCreatedVertData and refreshCreatedFaceData: the data columns of what
\* was created and lives, connectivity stays frozen.
Refreshed(ch, m) ==
  LET End(r) == IF r.what = "created" /\ r.idx \in m.live
                THEN [r EXCEPT !.body = Mix(DataCols, @, m.data[r.idx])] ELSE r
  IN IF ch.kind = "topo" THEN [ch EXCEPT !.recs = [k \in DOMAIN @ |-> End(@[k])]] ELSE ch

Sealed(e, m) ==
  IF e.topo = 0 THEN e.chunks ELSE [e.chunks EXCEPT ![e.topo] = Finalized(@, m)]

\* pushTopoChunk: the outgoing chunk is finalized before the new one is active.
PushTopoChunk(e, m) ==
  [e EXCEPT !.chunks = Append(Sealed(e, m), NewTopo), !.topo = Len(e.chunks) + 1]

\* getTopoChunk: pushing a chunk also forgets the stamps.
GetTopoChunk(e, m) == IF e.topo = 0 THEN PushTopoChunk(e, m) ELSE e
FreshStamps(e) == IF e.topo = 0 THEN {} ELSE stamps

\* finalizeStroke
FinalizedEntry(e, m) ==
  IF e.finalized THEN e
  ELSE [e EXCEPT !.chunks = [k \in DOMAIN @ |-> Refreshed(Sealed(e, m)[k], m)],
                 !.topo = 0, !.finalized = TRUE]

\* elemStore: the step's store, appended to its chunks when there is none.
StoreOf(e) == {k \in DOMAIN e.chunks : e.chunks[k].kind = "elems"}
WithStore(e) == IF StoreOf(e) = {} THEN [e EXCEPT !.chunks = Append(@, NewStore)] ELSE e

\* ensureAttr for every saved column, whether or not a row is captured.
WithColumns(e, cols) ==
  LET f == WithStore(e) IN
  [f EXCEPT !.chunks[CHOOSE k \in StoreOf(f) : TRUE].cols = @ \cup cols]

\* appendFrom and cpyFrom: a row holds every column the store has by now; a
\* column the store gets later reads as its default in the rows before.
CaptureRow(e, m, i) ==
  LET k == CHOOSE j \in StoreOf(e) : TRUE IN
  [e EXCEPT !.chunks[k].rows =
     Append(@, [idx |-> i, vals |-> Mix(e.chunks[k].cols, DefaultRow, m.data[i])])]

\* Mutant: the loop forgets to stop at the cursor.
TrimAnyway(es, done, max) ==
  LET n == IF max < 0 \/ Len(es) <= max THEN 0 ELSE Len(es) - max
  IN [entries |-> SubSeq(es, n + 1, Len(es)), curStep |-> done - n]

\* trimHistory: the oldest steps go while there are too many.
Trim(es, done, max) ==
  LET Excess == IF max < 0 \/ Len(es) <= max THEN 0 ELSE Len(es) - max
      n == IF Excess < done THEN Excess ELSE done
  IN [entries |-> SubSeq(es, n + 1, Len(es)), curStep |-> done - n]

\* Bounds: rows, records and chunks of the open step.
LogSize(e) ==
  FoldLeft(LAMBDA n, ch : n + (CASE ch.kind = "topo" -> Len(ch.recs)
                                 [] ch.kind = "elems" -> Len(ch.rows)
                                 [] OTHER -> 1), 0, e.chunks)
Room(e) == LogSize(e) <= MaxLog /\ Len(e.chunks) <= MaxChunks

SetCur(e) == Room(e) /\ entries' = [entries EXCEPT ![curStep + 1] = e]

-----------------------------------------------------------------------------
(* Steps.                                                                  *)

Strokes == {"brush", "dyntopo"}

\* Mutant: beginStep() keeps the redo tail.
BeginStepKeepsTail(mode) ==
  /\ client.mode = "closed" /\ strokeId < MaxStrokes
  /\ LET e == NewEntry(active) IN
       entries' = Append(entries, IF mode = "dyntopo" THEN PushTopoChunk(e, mesh) ELSE e)
  /\ stamps' = IF mode = "dyntopo" THEN {} ELSE stamps
  /\ strokeId' = strokeId + 1
  /\ \E style \in IF mode \in Strokes THEN Styles ELSE {{}} :
       client' = [Closed EXCEPT !.mode = mode, !.style = style]
  /\ UNCHANGED <<mesh, active, curStep, maxUndo, preview>>

\* MeshLog::beginStep: the redo tail goes; only a dyntopo step pushes a chunk,
\* and only a push forgets the stamps.
BeginStep(mode) ==
  /\ client.mode = "closed" /\ strokeId < MaxStrokes
  /\ LET e == NewEntry(active) IN
       entries' = Append(SubSeq(entries, 1, curStep),
                         IF mode = "dyntopo" THEN PushTopoChunk(e, mesh) ELSE e)
  /\ stamps' = IF mode = "dyntopo" THEN {} ELSE stamps
  /\ strokeId' = strokeId + 1
  /\ \E style \in IF mode \in Strokes THEN Styles ELSE {{}} :
       client' = [Closed EXCEPT !.mode = mode, !.style = style]
  /\ UNCHANGED <<mesh, active, curStep, maxUndo, preview>>

Idle(mode) == client.mode = mode /\ client.dab = "idle" /\ ~cur.finalized

\* MeshLog::endStep.  Clients commit or roll back a preview before.
EndStep ==
  /\ client.mode # "closed" /\ client.dab = "idle" /\ ~preview.active
  /\ LET t == Trim([entries EXCEPT ![curStep + 1] = FinalizedEntry(@, mesh)],
                   curStep + 1, maxUndo)
     IN entries' = t.entries /\ curStep' = t.curStep
  /\ client' = Closed
  /\ UNCHANGED <<mesh, active, strokeId, maxUndo, stamps, preview>>

\* compactIfFragmented at the end of a stroke, the step still open: the step is
\* finalized against the mesh before, then live elements trade slots.
Compact(perm) ==
  /\ \E m \in Strokes : Idle(m)
  /\ ~preview.active
  /\ \A i \in Elems : i \notin mesh.live => perm[i] = i
  /\ LET e == FinalizedEntry(cur, mesh)
     IN SetCur([e EXCEPT !.chunks = Append(@, [kind |-> "reorder", perm |-> perm])])
  /\ mesh' = Permute(mesh, perm)
  /\ stamps' = {}
  /\ UNCHANGED <<active, curStep, strokeId, maxUndo, preview, client>>

\* reorderForLocality: a step of its own, done before the mesh is permuted.
ReorderForLocality(perm) ==
  /\ client.mode = "closed" /\ strokeId < MaxStrokes
  /\ LET e == [NewEntry(active) EXCEPT
                 !.chunks = <<[kind |-> "reorder", perm |-> perm]>>, !.finalized = TRUE]
         t == Trim(Append(SubSeq(entries, 1, curStep), e), curStep + 1, maxUndo)
     IN entries' = t.entries /\ curStep' = t.curStep
  /\ strokeId' = strokeId + 1
  /\ mesh' = Permute(mesh, perm)
  /\ stamps' = {}
  /\ UNCHANGED <<active, maxUndo, preview, client>>

SetMaxUndoSteps(n) ==
  /\ n # maxUndo
  /\ maxUndo' = n
  /\ LET t == Trim(entries, curStep, n)
     IN entries' = t.entries /\ curStep' = t.curStep
  /\ UNCHANGED <<mesh, active, strokeId, stamps, preview, client>>

\* freeStep of the oldest step, the one the application evicts.
FreeStep ==
  /\ curStep > 0
  /\ entries' = Tail(entries)
  /\ curStep' = curStep - 1
  /\ UNCHANGED <<mesh, active, strokeId, maxUndo, stamps, preview, client>>

-----------------------------------------------------------------------------
(* Topology callbacks.                                                     *)

\* A commit ends the stroke; a stroke that previews previews every dab, unless
\* its style mixes them.
MayDab == preview.active \/ ("real" \in client.style /\ ~client.committed)

PreviewChunks(e) ==
  {k \in DOMAIN e.chunks : k > preview.baseline /\ e.chunks[k].kind = "topo"}

\* The records the preview's chunks have of an element.
PreviewRecords(i) ==
  {r \in UNION {{cur.chunks[k].recs[n] : n \in DOMAIN cur.chunks[k].recs} :
                k \in PreviewChunks(cur)} : r.idx = i}

\* The captured region covers what a preview deforms, and it is captured before
\* the preview's topology reaches it; dyntopo may touch elements beyond it.
InRegion(i) ==
  preview.active => i \in DOMAIN preview.rows \/ PreviewRecords(i) # {}
NotTouched(i) == \A r \in PreviewRecords(i) : r.what = "created"

\* dyntopo runs before the brush kernels of a dab.  An operator's first
\* callback is a creation or a kill.
MayTouch ==
  \/ client.mode \in {"op", "callbacks"}
  \/ client.mode = "dyntopo" /\ client.dab # "deform" /\ MayDab /\ ~cur.finalized

Dabbing(step) ==
  client' = [client EXCEPT !.dab = IF client.mode = "dyntopo" THEN step ELSE @]

Mapped(recs, i) == {k \in DOMAIN recs : recs[k].idx = i /\ recs[k].what # "killed"}

OnCreate(recs, i) == Append(recs, [idx |-> i, what |-> "created", body |-> DefaultRow])

OnChange(recs, i, m) ==
  IF Mapped(recs, i) # {} THEN recs
  ELSE Append(recs, [idx |-> i, what |-> "changed", body |-> m.data[i]])

\* A creation and its kill cancel out; a changed element keeps its first body.
OnKill(recs, i, m) ==
  IF Mapped(recs, i) = {}
  THEN Append(recs, [idx |-> i, what |-> "killed", body |-> m.data[i]])
  ELSE LET k == CHOOSE j \in Mapped(recs, i) : TRUE IN
       IF recs[k].what = "created" THEN RemoveAt(recs, k)
       ELSE [recs EXCEPT ![k].what = "killed"]

\* Mutant: the create callback does not stamp the gate.
TopoCreateUngated(i, row) ==
  /\ MayTouch /\ i \notin mesh.live
  /\ LET e == GetTopoChunk(cur, mesh)
     IN SetCur([e EXCEPT !.chunks[e.topo].recs = OnCreate(@, i)])
  /\ mesh' = [Alloc(mesh, i) EXCEPT !.data[i] = row]
  /\ stamps' = FreshStamps(cur) \cup {i}
  /\ Dabbing("topo")
  /\ UNCHANGED <<active, curStep, strokeId, maxUndo, preview>>

\* The mutator allocates the element and fills it, then fires onVertCreate.
TopoCreate(i, row) ==
  /\ MayTouch /\ i \notin mesh.live
  /\ LET e == GetTopoChunk(cur, mesh)
         m == [Alloc(mesh, i) EXCEPT !.data[i] = row]
     IN /\ SetCur([e EXCEPT !.chunks[e.topo].recs = OnCreate(@, i)])
        /\ mesh' = UpdateSaved(m, i, AllFlags)
        /\ preview' = Gated(m, i)
  /\ stamps' = FreshStamps(cur) \cup {i}
  /\ Dabbing("topo")
  /\ UNCHANGED <<active, curStep, strokeId, maxUndo>>

\* onVertChange, then the mutator's write: a stamp already set means that
\* there is nothing to record and nothing to gate.
TopoChange(i, row) ==
  /\ MayTouch /\ i \in mesh.live
  /\ client.mode = "op" => cur.topo # 0
  /\ IF i \in stamps
     THEN /\ mesh' = [mesh EXCEPT !.data[i] = row]
          /\ UNCHANGED <<entries, stamps, preview>>
     ELSE LET e == GetTopoChunk(cur, mesh) IN
          /\ SetCur([e EXCEPT !.chunks[e.topo].recs = OnChange(@, i, mesh)])
          /\ mesh' = [UpdateSaved(mesh, i, AllFlags) EXCEPT !.data[i] = row]
          /\ preview' = Gated(mesh, i)
          /\ stamps' = FreshStamps(cur) \cup {i}
  /\ Dabbing("topo")
  /\ UNCHANGED <<active, curStep, strokeId, maxUndo>>

\* onVertKill, then the release of the slot.
TopoKill(i) ==
  /\ MayTouch /\ i \in mesh.live
  /\ LET e == GetTopoChunk(cur, mesh)
     IN SetCur([e EXCEPT !.chunks[e.topo].recs = OnKill(@, i, mesh)])
  /\ mesh' = Release(mesh, i)
  /\ stamps' = FreshStamps(cur) \ {i}
  /\ Dabbing("topo")
  /\ UNCHANGED <<active, curStep, strokeId, maxUndo, preview>>

-----------------------------------------------------------------------------
(* Data writes.                                                            *)

\* Mutant: the claim marks the element before it asks the gate.
DeformMarksFirst(i, cols, v) ==
  /\ client.mode \in Strokes /\ MayDab /\ ~cur.finalized
  /\ i \in mesh.live /\ InRegion(i)
  /\ SetCur(WithColumns(cur, cols))
  /\ mesh' = [UpdateSaved(mesh, i, cols) EXCEPT
                !.data[i] = [c \in Cols |-> IF c \in cols THEN v ELSE @[c]]]
  /\ Dabbing("deform")
  /\ UNCHANGED <<active, curStep, strokeId, maxUndo, stamps, preview>>

\* A brush kernel on one element: its capture stage appends a row when the gate
\* says so, then it writes the columns it saves.
Deform(i, cols, v) ==
  /\ client.mode \in Strokes /\ MayDab /\ ~cur.finalized
  /\ i \in mesh.live /\ InRegion(i)
  /\ LET e == WithColumns(cur, cols)
         m == IF NeedsData(mesh, i, cols) THEN UpdateSaved(mesh, i, cols) ELSE mesh
     IN /\ SetCur(IF NeedsData(mesh, i, cols) THEN CaptureRow(e, mesh, i) ELSE e)
        /\ mesh' = [m EXCEPT !.data[i] = [c \in Cols |-> IF c \in cols THEN v ELSE @[c]]]
  /\ Dabbing("deform")
  /\ UNCHANGED <<active, curStep, strokeId, maxUndo, stamps, preview>>

\* Mutant: the seal keeps the stamps of the chunk it closed.
SealKeepsStamps ==
  /\ client.mode = "dyntopo" /\ ~cur.finalized /\ MayDab
  /\ SetCur(PushTopoChunk(cur, mesh))
  /\ client' = [client EXCEPT !.dab = "idle"]
  /\ UNCHANGED <<mesh, active, curStep, strokeId, maxUndo, stamps, preview>>

\* The end of a dyntopo dab seals its chunk, whether or not it changed a thing.
Seal ==
  /\ client.mode = "dyntopo" /\ ~cur.finalized /\ MayDab
  /\ SetCur(PushTopoChunk(cur, mesh))
  /\ stamps' = {}
  /\ client' = [client EXCEPT !.dab = "idle"]
  /\ UNCHANGED <<mesh, active, curStep, strokeId, maxUndo, preview>>

\* An operator's drag moves what the step created, without a capture.
Drag(i, v) ==
  /\ client.mode = "op" /\ i \in mesh.live
  /\ \E k \in DOMAIN cur.chunks :
       /\ cur.chunks[k].kind = "topo"
       /\ \E n \in Mapped(cur.chunks[k].recs, i) : cur.chunks[k].recs[n].what = "created"
  /\ mesh' = [mesh EXCEPT !.data[i] = [c \in Cols |-> IF c \in DataCols THEN v ELSE @[c]]]
  /\ UNCHANGED <<log, client>>

\* selectOne: recorded past the stamps and the gate.
Select(i, v) ==
  /\ client.mode = "select" /\ i \in mesh.live
  /\ LET e == GetTopoChunk(cur, mesh)
     IN SetCur([e EXCEPT !.chunks[e.topo].recs = OnChange(@, i, mesh)])
  /\ mesh' = [mesh EXCEPT !.data[i] = [c \in Cols |-> IF c \in DataCols THEN v ELSE @[c]]]
  /\ stamps' = FreshStamps(cur)
  /\ UNCHANGED <<active, curStep, strokeId, maxUndo, preview, client>>

SetActiveElem(i) ==
  /\ client.mode = "select" /\ active' = i
  /\ UNCHANGED <<mesh, entries, curStep, strokeId, maxUndo, stamps, preview, client>>

-----------------------------------------------------------------------------
(* Preview dabs.                                                           *)

\* Mutant: the chunk the last seal left is not counted to the preview.
BeginPreviewDabAfterChunk ==
  /\ \E m \in Strokes : Idle(m)
  /\ ~preview.active
  /\ "preview" \in client.style /\ ~client.committed
  /\ preview' = [NoPreview EXCEPT !.active = TRUE, !.baseline = Len(cur.chunks)]
  /\ UNCHANGED <<mesh, active, entries, curStep, strokeId, maxUndo, stamps, client>>

\* beginPreviewDab: the empty chunk the last seal left is part of the preview.
BeginPreviewDab ==
  /\ \E m \in Strokes : Idle(m)
  /\ ~preview.active
  /\ "preview" \in client.style /\ ~client.committed
  /\ preview' = [NoPreview EXCEPT
                   !.active = TRUE,
                   !.baseline = Len(cur.chunks) - IF cur.topo = 0 THEN 0 ELSE 1]
  /\ UNCHANGED <<mesh, active, entries, curStep, strokeId, maxUndo, stamps, client>>

\* capturePreviewNodes for one element of the region, before the dab or, for
\* a mirror image, between two dabs.
CapturePreview(i) ==
  /\ preview.active /\ client.dab = "idle"
  /\ i \in mesh.live /\ i \notin DOMAIN preview.rows /\ NotTouched(i)
  /\ preview' = [preview EXCEPT !.rows =
                   [j \in DOMAIN @ \cup {i} |-> IF j = i THEN mesh.data[i] ELSE @[j]]]
  /\ IF NeedsData(mesh, i, AllFlags)
     THEN /\ SetCur(CaptureRow(WithColumns(cur, DataCols), mesh, i))
          /\ mesh' = UpdateSaved(mesh, i, AllFlags)
     ELSE UNCHANGED <<entries, mesh>>
  /\ UNCHANGED <<active, curStep, strokeId, maxUndo, stamps, client>>

\* rollbackPreviewDab: the preview's chunks undone from the last one down, the
\* gates of what they touched reset, the captured rows of what lives written back.
PopChunk(b, k) ==
  IF k \in PreviewChunks(cur) THEN UndoChunk([mesh |-> b, chunk |-> cur.chunks[k]]).mesh
  ELSE b

WrittenBack(p) ==
  LET back == DOMAIN preview.rows \cap p.live IN
  [live |-> p.live,
   data |-> [i \in Elems |-> IF i \in back
                             THEN WriteTo(p, i, DataCols, preview.rows[i]).data[i]
                             ELSE p.data[i]],
   gate |-> [i \in Elems |-> IF i \in back \cup preview.gated THEN NoStamp
                             ELSE p.gate[i]]]

RolledBack(m) == Bind(Backward(PopChunk, m, Len(cur.chunks)), WrittenBack)

\* The items of the list s at the places K, in order.
Kept(s, K) ==
  [n \in 1 .. Cardinality(K) |->
     s[CHOOSE k \in K : Cardinality({j \in K : j <= k}) = n]]

RollbackPreviewDab ==
  /\ preview.active /\ client.dab = "idle"
  /\ mesh' = RolledBack(mesh)
  /\ SetCur([cur EXCEPT !.topo = 0,
                        !.chunks = Kept(@, DOMAIN @ \ PreviewChunks(cur))])
  /\ stamps' = {}
  /\ preview' = NoPreview
  /\ UNCHANGED <<active, curStep, strokeId, maxUndo, client>>

CommitPreviewDab ==
  /\ preview.active /\ client.dab = "idle"
  /\ preview' = NoPreview
  /\ client' = [client EXCEPT !.committed = TRUE]
  /\ UNCHANGED <<mesh, active, entries, curStep, strokeId, maxUndo, stamps>>

-----------------------------------------------------------------------------
(* Undo and redo.                                                          *)

Undo ==
  /\ client.mode = "closed" /\ curStep > 0
  /\ \E r \in {UndoStep([mesh |-> mesh, chunks |-> entries[curStep].chunks])} :
       /\ mesh' = r.mesh
       /\ entries' = [entries EXCEPT ![curStep].chunks = r.chunks, ![curStep].snap = active]
  /\ active' = entries[curStep].snap
  /\ curStep' = curStep - 1
  /\ UNCHANGED <<strokeId, maxUndo, stamps, preview, client>>

Redo ==
  /\ client.mode = "closed" /\ curStep < Len(entries)
  /\ \E r \in {RedoStep([mesh |-> mesh, chunks |-> cur.chunks])} :
       /\ mesh' = r.mesh
       /\ entries' = [entries EXCEPT ![curStep + 1].chunks = r.chunks,
                                     ![curStep + 1].snap = active]
  /\ active' = cur.snap
  /\ curStep' = curStep + 1
  /\ UNCHANGED <<strokeId, maxUndo, stamps, preview, client>>

\* A reorder is a permutation of the slots.
Perms == Bijection(Elems, Elems)

Next ==
  \/ \E mode \in Modes : BeginStep(mode)
  \/ EndStep
  \/ \E p \in Perms : Compact(p) \/ ReorderForLocality(p)
  \/ \E n \in Limits : SetMaxUndoSteps(n)
  \/ FreeStep
  \/ \E i \in Elems :
       \/ \E row \in Rows : TopoCreate(i, row) \/ TopoChange(i, row)
       \/ TopoKill(i)
       \/ \E v \in Vals : Drag(i, v) \/ Select(i, v)
       \/ \E K \in Kernels, v \in Vals : Deform(i, K, v)
       \/ CapturePreview(i)
  \/ \E i \in Elems \cup {NoElem} : SetActiveElem(i)
  \/ Seal
  \/ BeginPreviewDab \/ RollbackPreviewDab \/ CommitPreviewDab
  \/ Undo \/ Redo

Spec == Init /\ [][Next]_vars

-----------------------------------------------------------------------------
(* Properties.                                                             *)

Open == client.mode # "closed"

RecordType ==
  [idx : Elems, what : {"created", "changed", "killed"}, body : Rows]

IsChunk(ch) ==
  \/ ch.kind = "topo" /\ ch.recs \in Seq(RecordType)
  \/ ch.kind = "elems" /\ ch.cols \subseteq DataCols /\ ch.swapped \in BOOLEAN
     /\ ch.rows \in Seq([idx : Elems, vals : Rows])
  \/ ch.kind = "reorder" /\ ch.perm \in [Elems -> Elems]

(* Every variable has its type; topo_chunk_ names a topology chunk of the     *)
(* open step or nothing, one step has one element store, and the cursor never *)
(* leaves the list of steps (the fields of meshlog_base.h).                   *)
TypeOK ==
  /\ mesh.live \subseteq Elems /\ mesh.data \in [Elems -> Rows]
  /\ mesh.gate \in [Elems -> [sid : 0 .. StrokeMod - 1, saved : SUBSET AllFlags]]
  /\ active \in Elems \cup {NoElem}
  /\ curStep \in 0 .. Len(entries) /\ (Open => Len(entries) = curStep + 1)
  /\ \A n \in DOMAIN entries :
       /\ \A k \in DOMAIN entries[n].chunks : IsChunk(entries[n].chunks[k])
       /\ Cardinality(StoreOf(entries[n])) <= 1
       /\ entries[n].topo # 0 =>
            /\ entries[n].topo \in DOMAIN entries[n].chunks
            /\ entries[n].chunks[entries[n].topo].kind = "topo"
            /\ Open /\ n = curStep + 1
  /\ strokeId \in 0 .. MaxStrokes
  /\ stamps \subseteq Elems
  /\ preview.active \in BOOLEAN /\ preview.baseline \in Nat
  /\ preview.gated \subseteq Elems /\ DOMAIN preview.rows \subseteq Elems
  /\ client.mode \in Modes \cup {"closed"} /\ client.dab \in {"idle", "topo", "deform"}
  /\ client.style \in Styles \cup {{}} /\ client.committed \in BOOLEAN

Recorded(ch, i) == ch.kind = "topo" /\ \E n \in DOMAIN ch.recs : ch.recs[n].idx = i

Editing == Open /\ ~cur.finalized

(* The gate is honest: a column it says is saved of an element in this stroke *)
(* has its pre-step value in the step, in a row or in a topology record       *)
(* (AttrSaver::needsData lets the kernel overwrite it without another copy).  *)
GateHonest ==
  Editing => \A i \in mesh.live : mesh.gate[i].sid = Sid =>
    \A c \in mesh.gate[i].saved \cap DataCols :
      \E k \in DOMAIN cur.chunks :
        LET ch == cur.chunks[k] IN
        \/ Recorded(ch, i)
        \/ /\ ch.kind = "elems" /\ c \in ch.cols
           /\ \E n \in DOMAIN ch.rows : ch.rows[n].idx = i

(* The per-chunk stamps are sound: while a topology chunk is active an        *)
(* element is stamped only if that chunk has a record of it, so the callbacks *)
(* that return early on a stamp lose no capture, across kills, reuse of an    *)
(* index, seals, rollbacks, undo and redo.                                    *)
StampsSound ==
  Editing /\ cur.topo # 0 => \A i \in stamps : Recorded(cur.chunks[cur.topo], i)

(* What a topology chunk of the open step owns stays out of the element store *)
(* for the rest of the step (stampUndoGate), across seals, other dabs and     *)
(* rolled back previews.                                                      *)
TopoOwnedStayGated ==
  Editing /\ client.mode \in Strokes =>
    \A i \in mesh.live : (\E k \in DOMAIN cur.chunks : Recorded(cur.chunks[k], i))
                           => ~NeedsData(mesh, i, AllFlags)

\* The document: what a user sees of the mesh.
Doc(m, a) == [elems |-> [i \in Elems |-> IF i \in m.live THEN m.data[i] ELSE NoElem],
              active |-> a]
Docs == [elems : [Elems -> Rows \cup {NoElem}], active : Elems \cup {NoElem}]

\* The documents that undoing step after step from here would show, the open
\* step the first to go.
Past ==
  LET Back(acc, k) ==
        Bind(UndoStep([mesh |-> acc.mesh, chunks |-> entries[k].chunks]).mesh,
             LAMBDA m : [mesh |-> m, docs |-> <<Doc(m, entries[k].snap)>> \o acc.docs])
  IN Backward(Back, [mesh |-> mesh, docs |-> <<>>], IF Open THEN curStep + 1 ELSE curStep).docs

\* The documents that redoing step after step from here would show.
Future ==
  LET Ahead(acc, k) ==
        Bind(RedoStep([mesh |-> acc.mesh, chunks |-> entries[curStep + k].chunks]).mesh,
             LAMBDA m : [mesh |-> m,
                         docs |-> Append(acc.docs, Doc(m, entries[curStep + k].snap))])
  IN Forward(Ahead, [mesh |-> mesh, docs |-> <<>>], IF Open THEN 0 ELSE Len(entries) - curStep).docs

History == INSTANCE Timeline WITH
  Docs <- Docs, doc <- Doc(mesh, active), past <- Past, future <- Future, open <- Open

(* The log implements a history of whole documents: at every moment, in the   *)
(* middle of a dab or of a preview too, undoing and redoing from here would   *)
(* show exactly the documents there were before and after each step; only the *)
(* oldest are ever given up.                                                  *)
HistorySpec == History!Spec

(* A preview leaves no trace: from beginPreviewDab on, rolling back would     *)
(* restore exactly the document that was there when it began, whatever its    *)
(* dabs create, change, kill or deform.                                       *)
BeforePreview == IF preview.active THEN RolledBack(mesh) ELSE mesh
PreviewVanishes ==
  [][preview'.active => Doc(BeforePreview, active)' = Doc(BeforePreview, active)]_vars

(* The document the open step would be undone to never changes while the step *)
(* is being made (what every capture of the step is for).                     *)
UndoTargetFixed ==
  [][Open /\ Open' => Last(Past)' = Last(Past)]_vars
=============================================================================
