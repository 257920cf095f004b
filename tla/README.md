# A verification development for sculptcore

sculptcore is a C++20 sculpting and mesh engine (native and WebAssembly).  This
directory holds TLA+ models of the parts of it whose correctness is a matter of
order and bookkeeping, TLC configurations that check them on small instances,
and TLAPS proofs about them.  Paths below are relative to `src/source/` unless
they start with `tests/`.  `PROJECT.json` lists the components with their status,
the hazards line by line, the runs, and for each definition the lines it models.

## 1. Inventory

| Part | State | Operations | Talks to | What makes it correct |
|---|---|---|---|---|
| Deform-weight pool (`mesh/deform_pool.*`, `mesh/attr_weights.*`, `mesh/attr_merge.cc`) | 64 shards: table of entries with a count, hash chains, list of free slots, arena | intern, retain, release, reassign, sweep, audit | columns of type WEIGHTS and undo rows hold bare slot indices; threads of parallel capture | counts equal holders; equal runs share a slot; sweep never takes what is named |
| Element allocator (`mesh/elem_data.h`) | free map, buckets of free slots per page, stack of pages | alloc, alloc near a hint, alloc at an index, release, free trailing pages, reorder | mesh mutators, undo | no slot given out twice, no hole lost, growth only when full |
| Undo log (`meshlog/`) | steps with their chunks, cursor, stroke id, undo limit, per-chunk stamps, save gate (mesh attributes), preview snapshot | beginStep, endStep, undo, redo, trim, free, topology callbacks, element store, seal, compaction, locality reorder, preview begin/capture/rollback/commit, selection | brush executor, dyntopo, mesh operators, spatial tree | undo and redo show exactly the documents there were; a rolled back preview leaves no trace |
| Brush executor (`brush/brush_executor*`, `brush/capture_policy.h`, `meshlog/parallel_capture.h`) | the open step, dab nodes, preview flags, pending UV reprojection | beginStep, applyDab (dyntopo, capture, kernels, seal), preview verbs, endStep | undo log, spatial tree, thread pool | captures before it writes; every exit leaves the step consistent |
| Mesh topology (`mesh/mesh.cc`, `mesh/mesh_topo_cache.cc`) | disk cycles of edges, radial cycles of corners, loops, frozen snapshot and stamps | make/kill of elements, splice, swap, reverse, freeze, thaw | callbacks to the log | cycles closed and symmetric; what a thaw gives back is what was frozen |
| Mesh operators (`mesh/ops/`, `dyntopo/`'s edits) | none of their own | split, flip, collapse, triangulate, detach, extrude, cut | mesh, log | the surface is what the operator is for; everything announced to the log |
| Dyntopo (`dyntopo/`) | per-dab queues | picks what to split, collapse, flip | mesh, log, spatial tree | numerical choice of the operations above |
| Spatial tree (`spatial/`) | nodes with their lists, ownership stamps of faces and vertices, lazy flags, cached triangles and skirts, normals hints | add/remove/touch face, deferred split (parallel) and merge, update, rebuild, reorder, locality maps, queries | mesh operators, dabs, log replay, GPU | every live face owned once; no cache stale without a flag; no vertex's normal left behind; a parallel split ends as the serial one |
| Multires stack (`subdiv/multires*.cc`) | levels, slots (meshes of a few levels), chain of positions, baselines, stale bits, debts | add/remove level, setActiveLevel, materialize, writeback, propagate, refit, import, snapshot and restore, layers, eviction | grid stroke session, host | what a level shows is what its edits say, whatever was evicted, cached or owed |
| Grid store and stroke log (`subdiv/grids.cc`, `subdiv/grid_stroke_log.cc`, `subdiv/grid_domain.cc`, `brush/c-api/grid_stroke_c_api.cc`) | channels × levels of samples, mirrors of masks and layers, captured blocks, debts | dab capture, fold, undo, redo, trim, eviction, channel add/remove, level switch | multires stack, brush kernels | undo and redo restore samples, mirrors and debts exactly |
| VDM (`vdm/`) | tiles, undo of tiles | splat, bake, promote | brush | undo restores tiles |
| Remesh debug app (`debug/remesh_app.*`, `debug/remesh_pipe_server.*`, `debug/subprocess_win.cc`) | accept thread, reader thread, child process, command queue with promises, line queue, job | start/stop, drain per frame, startJob, update | clients of a named pipe, child process | each client its own answer; one child at a time; no output lost; everything settles and closes |
| Displacement (`displace/`), remesher (`remesh/`), properties (`props/`), brush DSL and kernels (`brush/`) | parameters, solver state | compose, remesh, set/get, compile | mesh | numerical or generated |
| GPU (`gpu/`, `vulkan/`, `webgpu/`), scripts (`debug/script/`), shells and bindings (`app/`, `window/`, `wasm/`, `napi/`, `core/`) | external resources | | | not the subject here |

`litestl` (containers, allocator, task pool) is an external library of which the
tree holds nothing.

**How the parts meet.**  A stroke is `beginStep`, some dabs, `endStep`.  A dab
runs dyntopo first, which changes topology through the mesh's mutators; each
fires callbacks before it writes, and the log records the element in the open
step's *active topology chunk* unless a stamp says the chunk already has it.
Every such touch also marks the element in the *save gate*, a mesh attribute
`.strokeid` that holds the stroke and the columns saved in it.  Then the brush
kernels run: for each element whose gate is not marked, a row with the columns
the kernel saves is appended to the step's one *element store*.  The dab ends by
*sealing*: the active chunk captures the end state of what it created and a new
chunk becomes active.  Undo replays the chunks of a step newest first, redo
oldest first; topology bodies are swapped, written or released, store rows are
swapped column by column.  A *preview* dab is made in the middle of a step and
taken back by undoing its topology chunks and writing a snapshot back.  Rows
of undo steps and columns of the mesh share the weight pool, by index.

A subdivision level is edited in one of two ways: through a *slot*, a mesh of
the level that brushes treat as any other and whose edits `writeback` folds into
the grids store, or through a *grid stroke*, which works on the store's samples
directly and has an undo log of its own.  A coarser level is brought up to date
with a finer one's edits only when the host goes there; until then the finer
level's *debt* is noted.

The remesh debug app is the one part with threads of its own: an accept thread
serves a named pipe, a reader thread reads the output of the remesher's process,
and the frame loop executes commands and settles jobs.

**What is hard.**  Threads interleave in the pool, in parallel capture, in tree
builds and in the debug app.  Most of what can go wrong elsewhere is sequential
but long: which of two mechanisms owns an element's pre-step value after several
dabs, seals, rollbacks and compactions; which of several copies of a level is
the current one; which moment a replayed chunk, a restored debt or a snapshot of
the links is of.  No state is persisted across a crash, so there is no recovery
to model; the failures there are, are those of the debug app's clients and
child process.

## 2. Modules

| Module | Models |
|---|---|
| `WeightColumn` | abstract: every cell of a WEIGHTS column simply holds a run |
| `DeformPool` | the pool and every writer of a cell, one action per critical section |
| `DeformPoolProofs` | its inductive invariant and theorems; that it implements `WeightColumn` |
| `SlotSet` | abstract: a set of live slots in a storage of whole pages |
| `ElemFreeList` | the element allocator of one domain: free map, page buckets, stack of pages; checked by TLC as it is |
| `ElemFreeListProofs` | its inductive invariant, and that it implements `SlotSet` |
| `Timeline` | abstract: an undo history of whole documents |
| `LogReplay` | what replaying records, rows, chunks and steps does to an element domain; functions without state |
| `MeshLog` | the log, what is recorded and when, and the clients: strokes, previews, operators, selection |
| `MeshLogProofs` | its inductive invariants and theorems |
| `MeshTopo` | the rows of vertices, edges, corners and faces, their cycles, the mutators with the callbacks they fire; functions |
| `MeshOps` | the operators, composed from the mutators; functions |
| `SurfaceHistory` | abstract: a surface (vertices, edges, oriented faces), what each operator does to it, and its history (extends `Timeline`) |
| `MeshEdit` | a mesh edited in undoable steps: the topology chunks, undo, redo, freeze and thaw |
| `LevelSurface` | what a surface in levels is: stencils, refinement, restriction; shared by the next two |
| `LevelStack` | abstract: a stack of levels as a host sees it, without caches |
| `MultiresStack` | `subdiv::Multires` and its host's grid stroke session |
| `MultiresProofs` | its inductive invariant and theorems |
| `MultiresRefinement` | that it implements `LevelStack` |
| `GridsStore` | the grids store: channels, levels, eviction, transitions between levels; functions |
| `GridHistory` | abstract: what undo and redo of grid strokes promise |
| `GridStrokeLog` | grid strokes, their capture, fold, undo and redo on `GridsStore` |
| `GridStrokeLogProofs` | its types and identities, as an inductive invariant and theorems; the readings the steps of the log lead through |
| `GridStrokeLogCoherence` | what a fold makes of the readings, the debts that go with them, and the theorems: coherence, honest debts, that the log implements `GridHistory` |
| `CommandChannel` | abstract: commands are executed at most once and answered to their client |
| `PipeServer` | the named-pipe server: accept thread, main thread, clients |
| `Subprocess` | the child process and the reader thread |
| `RemeshApp` | the frame loop and its jobs, composing `PipeServer` and `Subprocess` |
| `RemeshAppProofs` | the inductive invariants and theorems of `PipeServer`, that it implements `CommandChannel`'s safety part, and those of `RemeshApp` |
| `TreeShape` | the spatial tree as data: filing, splitting, folding, renumbering, building, caches; functions |
| `SpatialTree` | the tree beside the mesh: reports of operators, dabs and the log, updates, the parallel split |
| `MCDeformPool`, `MCMeshLog`, `MCMeshEdit`, `MCMultiresStack`, `MCGridStrokeLog`, `MCRemeshApp`, `MCSpatialTree` | instances for TLC |

### DeformPool

A *cell* is an element of a mesh column or a weight cell of an undo row.  The
variables `size`, `run`, `refs`, `free` and `live` are the shards (table length,
run of an entry, `Slot::refs`, occurrences in `free_slots`, `live_count`);
`cell` is what each cell names; the rest are the locals of the one operation a
thread is in.  `SetRun`, `Assign`, `Wipe` and `Capture` are the entries into
`setRun`/`mergeWeights`, `setSlot`/`writeTo`/`cpyFrom`, `weightsReleaseElem`/
`weightsReleaseFrom`/`releaseWeights` and `captureFrom`; `RetainVal`,
`ReleaseOld`, `Store`, `Drop`, `Clear`, `Memcpy` and `Hold` are the steps between
two acquisitions of a shard mutex.  `SweepShard` is `sweep()` for a shard and may
come at any moment.  The immortal entry of the empty run is `EmptySlot`, on which
every operation returns early.  Two operations never write the same cell, and
none reads a cell another is writing (`Writable`, `Readable`): parallel capture
hands out disjoint rows while the mesh is not written; the pool itself promises
nothing more.  A row released and a column dropped are the same operation, a cell
being wiped.  Not in the model: bytes, hashing beyond the shard it selects, arena
compaction (a run's place in the arena is not named by anybody but its entry).

### ElemFreeList

`free` is the set of slots whose bit in `freemap` is set, `bucket` is
`page_free`, `stack` is `nonempty_pages` with its top last, `onStack` is
`page_on_stack`, and `freeCount` and `count` are the counters.  `capacity_` is
`pages * PageSize`: only `add_page` and `free_trailing_pages` change it.  `Alloc`,
`AllocNear`, `AllocIndex`, `Release`, `FreeTrailingPages` and `Reorder` are the
methods of `ElemData` from beginning to end.  The two pop loops are written by
what they leave: the entry found is the last one of the bucket that is really
free, the page found is the last one of the stack with such an entry, and
everything above either is gone.  `Descending` is the scan from the last slot to
the first that fills buckets and stack.  Clients release only live slots and
claim only free ones, which the code asserts or the log's records imply.
`reorderScoped` permutes live slots and leaves all of this state alone; attribute
values are not here.  The free choice of an index in `MeshLog`'s `TopoCreate` is
what `SlotSet` promises.

### LogReplay and MeshLog

One element domain stands for the five.  An element is an index with a row of
columns; a column is data (position, color, selection) or connectivity (flag
TOPO: part of topology records, never of the store or of a preview snapshot).
`mesh` holds the live indices, the rows and the save gate.  A step is a record of
its chunks, the index of the active topology chunk, whether it is finalized and
the snapshot of the active element.  A topology record is "created", "changed" or
"killed"; created-and-killed records are dropped, as `onKill` does.

Actions of the log: `BeginStep`, `EndStep`, `Compact`, `ReorderForLocality`,
`SetMaxUndoSteps`, `FreeStep`, `TopoCreate`/`TopoChange`/`TopoKill` (the three
callbacks with the mutator's write), `Deform` (capture stage and kernel of a
brush on one element), `Seal`, `Drag`, `Select`, `SetActiveElem`,
`BeginPreviewDab`, `CapturePreview`, `RollbackPreviewDab`, `CommitPreviewDab`,
`Undo`, `Redo`.  `client` is the driver's protocol and nothing of the log: dyntopo
precedes the kernels of a dab, a preview is ended before its step, a step is
ended before undo.

The refinement mapping of `HistorySpec` *computes* the past and the future: the
documents are what replaying the actual chunks from the actual mesh would show,
so the check covers all of the replay code at every state and not only at those
where an undo is taken.

### MeshTopo, MeshOps and MeshEdit

Where `MeshLog` has one domain without links, these modules have all the links
and no attributes.  `mesh` is the rows as the code stores them (a vertex's head
edge, an edge's two disk links and its first corner, a corner's radial and loop
links, a face's list and size); a mutator is a function from a working record
(rows, chunk of the log, topology stamp) to the next, with its callbacks in the
code's order, so that a callback that fires after a write records what was
written.  `MeshEdit` runs the operators of `MeshOps` inside steps, undoes and
redoes them by exchanging rows, and freezes and thaws the links between them;
while they are frozen, `mesh` is kept as a ghost of what they were, which nothing
reads but the properties.  The refinement to `SurfaceHistory` reads the surface
off the rows: an operator that leaves the cycles whole and yet makes the wrong
surface fails it.

The allocator gives the lowest free index, so that dead slots are reused at
once; sets are iterated in the order of insertion; a face has one list (no
holes).  Attributes, geometry (the refusals of `prevent_inversion`), hints and
collisions of face hashes are left out.  Two constants are assumptions of the
passing run (a violation run drops the first, a further configuration the second):
with `StaleFreeze = FALSE` a stroke never reuses an out-of-date snapshot, with
`Loose = FALSE` a step starts
where every vertex has two edges or more.  The mutators and the C API thaw first,
so operators always meet live links.

### LevelSurface, LevelStack and MultiresStack

The store is the document; positions of a level (the *chain*), meshes of a few
levels (*slots*, least recently used first) and grid domains, which alias the
chain, are derived and dropped at will.  `mr` is the `Multires` object as a
record, `sess` the host's session; the methods are functions of that record,
composed as they call each other, and an action is one call of the host.
`LevelStack` is the same host with the levels' displacements alone: what a call
does to the surface, and nothing of caches.  `StackSpec` says the stack
implements it, `SlotCurrent` that a slot that is not marked stale shows its
level, `CacheCurrent` and `BaselinesPinned` that the chain and its lazily copied
bases are what the store says.

Positions are numbers mod 2 on two vertices; a stencil is a linear map and its
restriction a left inverse or not, as the tuning of the code has it; frames
cancel.  One leaf and one grid per level; layer weights are 0 or 1
(`layerSetEnabled`).  The host is one thread, asks for nothing else while a
stroke is open, does not begin one over unfolded mesh edits, and syncs before it
undoes; `Hosts` gives the groups of calls each instance makes.

### GridsStore and GridStrokeLog

A channel has samples per level; a sample of level `l` is a tuple of `l` numbers,
which prolongation extends (repeating the last) and injection shortens, while
averaging is not an inverse of either.  The instance has three levels with the
session on the middle one, two grids that share a seam vertex, the displacement,
the mask and a painted layer.  `Dab` captures grids on first touch and writes
mirrors, `EndStroke` folds them into the store (with the finer mask levels it
prolongates into and the channels it scatters), `Undo` and `Redo` are the swap of
what was captured with what is live; the host's calls between them remove and
add channels, evict a level, settle debts by switching one level down and back,
drop or trim steps.  `given` remembers what each level last handed to the level
below, `past` and `future` the documents undo and redo ought to give.

Assumptions: the host removes only a painted layer's channel (removing the mask's
leaves its mirrors stale; no host does it); it edits the mask outside strokes only
with an empty history; it does not undo across a level switch that settled a debt
(`SeekAcross = FALSE`, `floor`).  The compression of evicted levels is abstracted
to `held = "blob"`.

### CommandChannel, PipeServer, Subprocess and RemeshApp

`accept` and `main` are the places of the accept thread and the main thread;
`instance`, `peer`, `wire`, `out` are the pipe; `queue` and `promise` the commands
and their replies.  A text is empty, part of a line, or a line.  A client makes
one connection; a *rude* one may split its command, hang up at any time or never
read, the others are `tools/remesh_dbg.mjs`.  The Win32 calls are modelled by when
they block and what they return.

`Subprocess` has the child (which prints half lines, may die in the middle of
one, may close its output before it ends) and the reader thread; `RemeshApp`
replaces the pipe server's abstract handling of a command by the app's: `run`
starts a job, `state` reads it, and each frame drains the pipe, drains the lines,
looks at `running()`, drains again and settles.  The asset, parameter, pre-pass and
camera commands are left out; `GetExitCodeProcess` is assumed to succeed; a panel
makes at most one click per frame.

### TreeShape and SpatialTree

A node is a record of its children, plane, owned vertices and faces, cached
triangles (`tris`), neighbours' triangles (`skirt`), shared vertices (`foreign`),
normals hints (`moved`, `affected_verts`) and flags; `vnode` and `fnode` are the
stamps `treeMesh.v.node` and `treeMesh.f.node`.  Flags are the `Spatial_*` bits:
"tris" `RegenTris`, "skirt" `RegenSkirt`, "border" `!foreign_verts_valid`, "normals"
`UpdateNormals`, "full" `NormalsFullRebuild`.  `split` and `merge` are the ids
noted for the two deferred passes.  `Edit` stands for a mesh operator with the
reports it makes, to the tree and to the log; `Dab` for a kernel and the propagation to neighbouring leaves
after it; `Replay` for undo or redo of the open step's topology chunk and rows,
`Rollback` for a preview dab taken back; `Update` is `update()` (kind "frame") or
its half for queries.  `Descent`, `Interned`, `Planted` and `Merged` follow the
code's recursion.

`log.recs` are the vertex and face records of the step's topology chunk in the order
of their `log_id`: `Recorded` is `onCreate`, `onChange` and `onKill`, with the record
of an element that is made and killed in the step dropped, and a slot that is used
again given a second one.  `Replay` walks them in that order before and after the mesh
changes, as undo and redo do.  The order matters: a vertex made in the step comes
before its faces, so undo takes it from its leaf first, and when those faces are
dropped nobody flags that leaf's skirt, which then holds dead faces.  None of them
touches a vertex the leaf still owns, and the normals and the hints read a skirt only
there: `CachesFollow` says that the skirt is exact around the vertices of the leaf,
and `SkirtsExact`, that it holds nothing else, is among the further configurations.
A vertex is recorded when it is made or killed, or when an edge at it comes, goes or
turns; an edge lives while a face has it, as the operators that kill faces kill the
edges they leave bare.  A corner that was freed keeps its vertex until its slot is
used again (`Corners`).

With more than one leaf to split, `StartPass`, then `OpenNode`, `FileNext` and
`CloseNode` of each worker in any order, then `FinishPass`: a worker allocates
its two children in one step, files one face per step and drops its node's lists
in the last.  `pass.want` is the tree that splitting the same leaves one after the
other gives, numbered again as the parallel pass does, for `SplitAsSerial`.  (The
code's serial path, of a single leaf or under `SC_SPLIT_SERIAL`, keeps the ids the
recursion gives; with nested splits those may differ.)

`stale` is a ghost: the pairs of a vertex and a face whose move the vertex's
normal has not taken in.  `NormalsSettle` says it is empty whenever nothing is
flagged, and so ties the hints, the propagation, the halo, the skirts and the
log's flags together.

Abstractions.  Space has one axis and a vertex's name is its place; faces are
triangles; box extents, the clamp of a plane to them, bounds, GPU flags and
buffers, and the topology snapshot an update may freeze are left out.  Normals of
faces are not modelled, only those of vertices.  The code's lists of a leaf keep
their order and may hold a hint twice; here they are sets, walked in ascending
order.  `Oblong` is what the test of overlapping boxes may say of a node: any
answer.  A face that is added goes to the leaf of any of its vertices (the code
takes the first corner's, and replay the lowest).  When leaves are folded
(`mergeCadence`) is a free choice of each frame.  The share of moved vertices from
which a leaf is summed whole is a constant (`Share`, 4 in the code, 1 here so that
leaves of four vertices meet both cases).  Rejected triangles (no area) are
left out, and so are the skirt flags that replay sets for the rows of corners, which
only have more skirts built again.  A reorder permutes face slots only; it
renames the triangles a leaf caches and not its skirt (`spatial/spatial.cc:2116`), so
`CachesFollow` and `NormalsSettle` speak of trees no slot has moved under since they
were built (`CachesExact` is without that exception).

Assumptions: an edit by itself owes no normals (what dyntopo edits, the kernel of
the same dab moves); `Waits`: a replay, and a dab after one, come after the frame
that serves whole-leaf requests; `RowsCount = FALSE`: moves of a vertex whose row
a topology chunk owns are not counted.  The last two are what a further
configuration drops.

## 3. Runs

All passing runs are exhaustive over their instance.

| Run | Shows | Bounds, and why they are enough |
|---|---|---|
| `pool` | counts, uniqueness, free list in every interleaving; the pool implements `WeightColumn` | 2 threads and 3 cells: two operations in flight and a third holder; 3 runs in 2 shards, two of them sharing one: both threads contend for a table and a sweep for one run meets a live neighbour; 2 entries a shard |
| `element_allocator` | no hole lost, none given out twice, counters exact, hints honoured, growth only when full, only dead trailing pages dropped | 3 pages of 2 slots: a page below and one above the one a pop ends at, a page that is partly live; 2 entries a bucket: an entry made stale by a claim and its duplicate after a release |
| `log_history` | the log implements `Timeline` across steps: redo tail, trimming, freeing, locality reorder, drags, selection, the active element | 3 steps with a limit of 1: the trim meets done and undone steps; 1 record a step, 2 chunks |
| `log_strokes` | inside one stroke, with real and preview dabs: gate honest, stamps sound, topology-owned elements gated, a preview leaves no trace, undo and redo exact after every action | 2 elements, a data and a TOPO column, 4 chunks: two dabs with a store and a chunk the last seal left; 2 rows or records |
| `mesh` | cycles stay whole; each operator does to the surface what `SurfaceHistory` says; undo and redo give every surface back; a thaw gives every link back | five seeds (a pair of triangles, a tetrahedron, a book of three, a tent, a bipyramid), each with the operators it is interesting for; 2 steps of several dabs; regions of 2 faces |
| `multires` | caches, baselines and slots current; the stack implements `LevelStack` | 3 levels and 2 resident slots: an eviction between two switches; 2 edits: one that is owed when the other comes; one layer |
| `grid_strokes` | undo and redo restore samples, mirrors and debts; no level forgets what it owes; a level evicted and restored reads as it was | 2 strokes of up to 2 dabs, 2 calls of the host between them |
| `pipe_server` | the server implements `CommandChannel`; each client its own reply; every client answered; `stop()` returns unless the accept thread is caught in one of the windows below | 3 connections, one of them rude: one in the queue, one on the pipe, one to come |
| `app` | one child at a time, lines in order and complete, every job settled with its exit code, the app closes | 2 jobs of one line each: a job started over the end of another; 1 client and the panel |
| `spatial` | lists and stamps agree, caches follow, normals settle, a parallel split ends as the serial one | leaves that split at 4 vertices and a depth of 3: a strip of four triangles is two leaves that share two vertices, an edit makes both split at once, kills make them fold; nine scenes, each with the edits, kills, dabs, replays and steps that meet in a stroke; one makes a vertex, kills the face its leaf took it for, updates and undoes |
| `log_columns`, `mesh_snapshot_stale` | violations, below | |

Bounds are constants: `MaxStrokes` (steps ever begun), `MaxLog` (rows and
records of a step), `MaxChunks` (chunks of a step), `Limits` (undo limits that
are set), `StrokeMod` (2^16 in the code), `MaxLocal` (entries of a shard), `MaxPages`
(pages of a domain), `MaxBucket` (entries of a bucket that `release` appends to),
`MaxSteps`, `MaxRegion` and the edits of a case (`MeshEdit`), `MaxEdits`, `MaxLevels`
and `Budget` (`MultiresStack`), `MaxDabs` and `MaxCalls` (`GridStrokeLog`), `MaxJobs`
and `LastLine` (`RemeshApp`; the last line of a job is its result), and the budgets of a
scene (`SpatialTree`).  They only cut guards; nothing wraps or saturates at them
except `StrokeMod`, `MaxLevels`, `Budget`, `LeafLimit` and `DepthLimit`, which are
the code's own.

**Fairness.**  Everything on the mesh side is called by one thread or is straight
code under one mutex at a time, so its properties are safety properties and no
fairness is stated.  The pipe server and the app assume that their threads keep
running: weak fairness for the accept thread, the reader thread, the frame loop and
the stages of `stop()`, and for the polite clients, which are a script that writes
and reads at once.  `CreateNamedPipe` may fail and the loop sleeps and tries again,
its comment calling the failure transient: strong fairness says it does not fail
for ever.  The child ends by itself while the window is open (weak fairness of
`Exit`, the remesher being a batch program); nothing makes clients connect, hang
up or read, a rude client do anything, or the user close the window.

`StopReturns` says that `stop()` returns unless the accept thread is caught in one
of the windows `Missed` names: a command queued after `stop()` purged the queue, a
wake-up connection made while no pipe instance listens, or a read or a flush on
a peer that still holds the pipe.

Runs of the log, of the mesh, of grids, of the spatial tree and of the app say
`CHECK_DEADLOCK FALSE` because a bounded number of steps really ends, and the app
really stops.

### Runs that end in a violation

Each checks what the repository says of its own code; `PROJECT.json` quotes it.

* `log_columns`: rows are said to be restored on undo; a column the store gets
  after the row is restored to the column's default.  A stroke with one kernel
  never meets it; a program of two kernels with different saves, or a real dab
  followed by a preview (which captures all columns), does.
* `mesh_snapshot_stale`: a snapshot whose stamp is current is said to be that of
  the links; undo and redo edit the links without counting it.

`UndoTargetFixed` (`log_columns`) says that the document an open step would be
undone to never changes while the step is made.  It follows from `HistorySpec`,
which the passing runs check: those have one kernel's columns and no wrap.

### Further configurations

These are kept beside the runs and each ends in a violation of the property it
names; they mark where an assumption of a passing run is needed.

| Configuration (module) | Property | What it shows |
|---|---|---|
| `MeshLogWrap` (`MCMeshLog`) | `UndoTargetFixed` | an element last saved exactly a wrap of stroke ids ago is not captured |
| `MeshLogMixed` (`MCMeshLog`) | `UndoTargetFixed` | after two real dyntopo dabs, rolling a preview back opens the gate of a vertex that a topology chunk owns; the next dab's row wins the undo |
| `MultiresUnmirrored` (`MCMultiresStack`) | `SlotCurrent` | undo of a grid stroke without a mirror leaves a slot that was healed by the stroke and still shows it |
| the same with `ImportHost`, `Imports = TRUE` | `ImportLands` | positions imported into a stale slot are healed away by the writeback that should fold them |
| `GridStrokeLogAcross` (`MCGridStrokeLog`) | `DebtHonest` | undo across a level switch restores the debts of before the stroke, whatever was settled since |
| `MeshEditLoose` (`MCMeshEdit`) | `MeshSound` | `make_edge` and `kill_edge` announce the ends after the disk cycles are rewritten, so undo gives a vertex that gained its first edge or lost its last a head that is not of its cycle |
| `SpatialTreeHints` (`MCSpatialTree`) | `NormalsSettle` | a dab after a rollback without a frame between them: a flagged leaf with no hints is owed whole (`spatial/node.h:149`), and the dab's kernel and border propagation (`brush/brush_executor.h:1246`) append to it |
| `SpatialTreeNormals` (`MCSpatialTree`) | `NormalsHalfRefreshes` | `updateNormals()` asks for a phase that `updateImpl` has inside the other one (`spatial/spatial.cc:3201`, `:3341`), and refreshes nothing |
| `SpatialTreeRows` (`MCSpatialTree`) | `NormalsSettle` | undo of vertices moved after a topology chunk took their rows flags only the owners of recorded faces (`meshlog/meshlog_topo.h:330`) |
| `SpatialTree` with `SkirtsExact` for its properties (`MCSpatialTree`) | `SkirtsExact` | undo removes a vertex the step made from its leaf before it drops the faces around it (`meshlog/meshlog_topo.h:344`), and the leaf's skirt keeps them, unflagged |

## 4. Proofs

Each theorem holds for every value of the constants that the module's named
assumption admits.

**`DeformPoolProofs`** (any finite cells and threads, any runs, shards and table
bound): `TypeCorrect`, `RefsExactAlways`, `InternedOnceAlways`, and
`NeverDangling`, that a cell at rest names an entry with its run.
`RefsExact` is not inductive as it stands, so the proofs go through `IInv`, which
adds `Discipline` (an operation in flight owns the cell it writes, the cell it
reads stays put until it has taken its own reference, and what a program counter
says of the thread's locals), `TableEnd` (entries past the end of a shard's table
hold nothing) and `CountedInterned` (an entry with references has not been
swept).  For each action the proof follows the one entry whose count the critical
section changes and shows that its set of holders gains or loses exactly one
member (lemmas about `Holders` and `Cardinality`); `Discipline` is what rules out
that another thread's operation is the holder that goes.

The second half adds `FreeListExactAlways` (each action moves one entry
in or out of the free list and the live count, or a sweep empties the list) and
`ImplementsColumn`, `Spec => ColumnSpec`.  The mapping, `Contents`, reads a cell
through the entry it has *in effect*: its own, or what its writer will store.  A
cell's contents change only at the one step of its writer that gives up the old
reference or copies the bytes; everywhere else the entry in effect is counted, and
neither `sweep` nor `intern` touches the run of a counted entry.  `Emptied` (a
capture about to copy has emptied its row) is what `IInv` needs in addition.

**`ElemFreeListProofs`** (any page size above zero, any bounds): `TypesAlways`,
`ListsAlwaysAgree`, `HintHonouredAlways` and `ImplementsSlotSet`, with the slots
that are not free for `live`.  The parts of `ListsAgree` are inductive only
together: that a page which leaves the stack has no hole needs the bucket of the
page to list all of them, that its bit and its entry go together needs the stack
to hold it once, and that storage grows only when nothing is free needs both.  The
lemmas below them say what a pop finds and leaves (`PopFinds`, `TopProperties`),
that `Descending` lists a finite set once each and in order (`DescendingLists`, by
counting how many members are as great as each, without induction), and how slots
lie in pages (`PageUnique`, `SlotPage`).  `SoundBuckets` states what the buckets
must be between the two halves of `alloc_near`.

**`RemeshAppProofs`**, first part (`PipeServer`; any set of clients, any of them rude): `Typed`,
`WaitersAreServed` (the command of a waiting accept thread is the only one
pending and the main thread can find it), `RepliesAreOwn`, and `Implements` (every
step is a step of the command channel or leaves it alone).  The invariant says what
each place of the accept thread means for the pipe (`PipeInv`), each place of the
main thread for queue and flag (`MainInv`) and each promise for its command
(`PromiseInv`): that a reply goes to the wrong client would need a second pending
command, and the accept thread makes the next only after it has waited for the
first.

Its second part (`RemeshApp`; any clients, jobs and lines): `AppTyped`, `KeepsChannel`
(the composed app keeps the channel's promise, so that the abstract handling of a
command was a sound stand-in), `OneChildAlways`, `LinesAlwaysIntact` and
`SettledAlwaysComplete`.  The reader thread lives from the start of a child until
after its end, and `running_` is up exactly as long (`ReaderInv`); the reader's
place says how much of the output has reached `lines_` (`DeliveryInv`); handled
lines and `lines_` are one sequence whose last line is the last delivered
(`LineInv`).  `SettledAlwaysComplete` is then the order in `update()`: it looks at
`running()` first and drains after.

**`MeshLogProofs`** (any elements, columns, kernels, undo limits and bounds), in
two parts.  `StampsAlwaysSound`: a stamp says that the active topology chunk has a
record of the element, and a callback that finds one records nothing.  `Covers`
says it of a step, together with what it needs: that `topo_chunk_` is nothing or a
topology chunk of that step, and that its records are a list (`SoundEntry`).  What
is lost from the records goes with its stamp: a kill removes the one it unstamps, a
seal, a rollback and a compaction start from none, and rows go to another chunk
than the active one (`StoreSound`).  Nothing is assumed of the mesh, and undo and
redo run only while no step is open.

The second part, through `FullInv`, is about what replay does too: `TypesHold`,
`GateHonestUntilWrap` and `OwnedGatedUnlessMixed`.  A gate may be trusted for a
column only if the open step has the element's pre-step value of it, as a row or,
for an element topology owns, as a record; each handler keeps one of the two, and
a rollback, which replays the newest chunks backwards and writes a snapshot of the
gates back, returns to a step that had them.  Two hypotheses are needed and each
has a counterexample beside the runs: the 16-bit stroke id has not wrapped
(`MeshLogWrap`), and no client mixes real dabs with previews in one stroke
(`MeshLogMixed`); `GateAlwaysHonest` and `OwnedAlwaysGated` give the same for all
behaviours of instances whose bounds or clients imply them.

**`MultiresProofs`** (any vertices, modulus, cage, stencil, fits, layers, level
limit, budget and hosts that `SurfaceAssumption` and `StackAssumption` admit: there
is a vertex, the layers are finitely many and none is called as the base channel):
`TypesHold`, `CachesAlwaysCurrent`, `BaselinesAlwaysPinned` and
`SlotsCurrentIfMirrored`.  The last is for sessions that mirror;
`MultiresUnmirrored` is the counterexample otherwise.

None of them is inductive.  `Good(s, n, D)` says that an object of `n` levels is in
order except that the slots of the levels `D` may hold edits: an entry is valid
only above valid entries, shows `Surf`, and its base, stored or still in the
positions, is `Under`; slots have baselines, domains have copied bases; the edited
channel is one that is composited.  `UpTo` says it of the lowest levels only, which
is what holds in the middle of a fold or a refit, before `InvalidateAbove` drops the
rest.  Each operation of the module has its lemma (`FoldedGood`, `CommitGood`,
`CascadeGood`, `SetActiveGood`, ...), with what it does to the domains that stay
bound (`Keeps`).  They rest on arithmetic: a channel that takes what the others do
not give makes the level show the wanted positions (`Expression`, through sums over
finite sets in any order), and detail above a level is not seen at it
(`SurfaceSame`).

An open stroke writes the positions first and the store at its end: `Stroking` is
`Good` without the store of that one level, and `Strayed` says that the level shows
the store wherever the stroke has not been.  An undo puts the positions a step
saved beside the detail it saved, and nothing in the current state says that they
fit.  `LogInv` does: while the session's domain is bound, the log is a `History`,
a list of details of the level such that each step leads from one to its neighbour
and carries the positions the neighbour gives on the present base.  The base never
changes under a bound domain, since whatever moves a coarser level drops the
domains above it; that is what `Keeps` is for.

Loops over levels and chunks are recursive functions.  `RunExists` and `RunEnds`
give what such a function computes from one round of it, by an induction on the
index that goes through the set of the rounds it holds at and the least one it
does not (`NextIn`).

**`MultiresRefinement`** (the same instances whose `Mirrors` holds at most `TRUE`,
that is, sessions that copy every dab to the resident slot): `ImplementsLevelStack`,
`Spec => StackSpec`.  Without the assumption it is false, and so is `SlotCurrent`
(`MultiresUnmirrored`): a slot that shows something else than its level is folded
as if it were an edit.  `View(s)` is the document of the object without the edit
in a slot, and each operation of the module has a lemma on it, given that the
object is in order (`Good`): residence, caching and binding leave it alone
(`SameView`), and a fold, a refit, an import or a capture does to it what the
operator of `LevelStack` does to the document.  The mapping itself adds the edit
of a slot; the document with it is the one the object has once the edit is folded
(`DocOf`, `Folding`), so that a call which folds first still starts from the
document it is given.  A cascade over levels is matched with the plain stack's
round by round, and a refit needs that a level that shows what it did carries the
finer ones along, which `SurfaceAbove` says.  The log is mapped step by step
(`Log`).  `Extra` is what `Inv` leaves open: an edit is one that shows (so
that the host sees a reshaped level at once), an open stroke knows what its level
owed when it began, and level 1 never owes.

**`GridStrokeLogProofs`** (any vertices and grids with any occurrences, modulus,
depth and level, layers, kernels, removable channels and bounds that
`StoreAssumption` and `LogAssumption` admit: a layer has no built-in field's name,
a vertex is read back from a grid it is in): `TypesHold` and `RestackHolds`.

`TypeOK` is not inductive: an undo writes what a step kept into the store, so
`Inv` also says what a step keeps.  `Stored` gives the channels of the store by
the list of their names, each name once, every channel with all its levels and no
token above `used.toks`; while a stroke that wrote the mask is open the mask has a
channel.  `Logged` says that each block, snapshot and finer level of a step is a
part of a level as its identity names it, so that whatever `Resolve` still finds it
fits.  `RestackIsIdentity` follows from `Inv` by what seeding and restricting do
to one channel: injection takes back what prolongation put there
(`ProlongedSample`, `SeededAndBack`), and a level that held nothing is left alone.

**`GridStrokeLogCoherence`** (the same instances): `CoherenceHolds`, that every
resident mask shows what the store holds and that a vertex has one value in all its
grids.  No invariant of one state gives it: an undo writes back what its step
captured, whatever happened since.  A *reading* is what a domain at `L` and its
store hold where a stroke may write (`Reads`): positions, mask, every channel at
`L`, the mask of the finer levels.  `Valued(ds)` says that there is a sequence of
readings, one for each point of the history, in which each step leads from its
reading to the next (`Leads`): what a step keeps is of the reading on the far side of
it, seen from the cursor, and where it keeps nothing the two agree.  Every reading is `Calm`: its mask is the one its store holds and its seams
are closed.  The live state is the reading at the cursor, or strays from it where
an open stroke has been (`Capturing`).  Undo and redo exchange patches and live
values, which turns the step round (`Exchanged`); the fold of a stroke captures each
field before it writes it, so that the patches it leaves are of the reading before
(`CoversFiner`, `Folded`, `MaskWrites`); removal of a channel leaves readings in
which it shows the cage's values (`Without`).  `Sound` and `Seamless` are what the
store needs for it: a level that holds nothing reads as the cage, and identities
are never used twice.

The readings, what the host's calls, dabs, undo and redo make of them and what a
fold captures are in `GridStrokeLogProofs`, the fold and the theorem in this module.

`HistoryHolds` is `Spec => HistorySpec`, and `DebtsHonest` that what owes nothing is
as it was handed down, both under `~SeekAcross`: the host does not undo across a
level switch that settled a debt.  Without that assumption the debts are not honest,
which is what the run `GridStrokeLogAcross` finds.  A document is more than a reading: it
also says what the session's level and the finer ones owe.  So each point of the
history has its debts as well (`Debted`): the debts of two neighbouring points differ
as the step between them says (`Linked`: each name the step's `pre` and `post` list is
owed as listed, and what it does not list is owed alike on both sides), the debts of
the point at the cursor are those of the store (`Owing`), and those of the finer
levels are the same all along above the floor (`Later`), because a step only keeps
them as they are (`FinersSay`).  The readings and debts make the `Tale` of the
history, one document for each point, and `Told` says that `past` is the part of it
from the floor to the cursor and `future` the part above (`Halves`), so that each
operation of the log is an action of `GridHistory` on them: a replay moves one place
along the tale, the end of a stroke leaves one more place or none, a removed channel
wipes its name out of every document.

For the debts, `Trusted` adds three things to that: a channel that hands its edits
down is one of `Keepers`, by its name; every level from the second up shows what it
last handed down (`given`) or owes (`HonestAt`); and every document of `past` and
`future` claims the same of the session's level (`Claims`).  The third is what makes
it inductive: an undo restores values and debts together, so the store claims
after it what the document it came from claimed before, and whatever would change
what was handed down for the session's level (a switch that settles something, an
edit outside the log) leaves no document behind.  A fold changes a keeper at the session's level
only where it then owes (`Painted`).

Type correctness of the pool, the allocator, the pipe server and the app is proved
and in no run's list; that of the mesh's log and of the multires stack is in both;
that of the grid log is part of `StoreCoherent`.

**Model-checked only.**  Liveness (`Answered`, `StopReturns`, `JobsSettle`,
`AppCloses`), which is out of the prover's reach; that the mesh's log and the mesh
implement their abstract histories, and that a preview vanishes; everything about
the mesh and the spatial tree.
`MeshTopo` walks cycles and `TreeShape` descends with RECURSIVE operators, whose
modules have no SMT backend.  The properties and refinements are checked at every
state of their instances instead.

## 5. What could come next

1. That `MeshLog` implements `Timeline` for every value of the constants.
2. `ParallelCapture`: the serial claim and the parallel fill, with leaves that
   share elements; refinement of the atomic capture `MeshLog` assumes.
3. Prepared previews and `PreparedData` chunks in `MeshLog`; freeing a step in the
   middle; `MeshLog` over `ElemFreeList`, with storage that shrinks under undo steps.
4. Faces with holes, dissolving, bevel and subdivision in `MeshOps`.
5. The VDM store's tile undo.
6. The spatial tree's bounds and queries, face normals, locality maps and the
   partition for the GPU.

## 6. Not modelled

Most of the tree's lines are numerical, generated or wrap an external resource,
and a model of them would either repeat the arithmetic or say nothing: the brush
kernels and their compiler's emitters (`brush/compiler/`, `brush/*.h`), the
remesher's field, quantization and extraction solvers (`remesh/`), displacement
and subdivision stencils, the geometry queries and refits of the spatial tree, the
GPU, Vulkan and WebGPU layers, window and application shells, bindings, scripts
and tests.  The property system (`props/`) is sequential and shares no state with
the rest.  What of the VDM store and the parallel capture is bookkeeping is in
the list above.  `setActiveMesh` is left out (one mesh only).
