---------------------------- MODULE ElemFreeList ----------------------------
(***************************************************************************)
(* The element allocator of one domain of a mesh (mesh/elem_data.h): which *)
(* slots are free, the bucket of free slots each page keeps, and the stack *)
(* of pages that may have one.  freemap alone is authoritative: buckets    *)
(* and stack may carry stale entries, which a pop discards.                *)
(*                                                                         *)
(* capacity_ is always pages * PageSize.  Attribute storage and            *)
(* reorderScoped, which changes no free slot, are left out.                *)
(***************************************************************************)
EXTENDS Integers, Sequences, FiniteSets, FiniteSetsExt, Functions

CONSTANTS
  PageSize,   \* ATTR_PAGESIZE
  MaxPages,   \* bound on the pages of the storage
  MaxBucket   \* bound on the entries of a bucket that release appends to

ASSUME ElemFreeListAssumption ==
  PageSize \in Nat \ {0} /\ MaxPages \in Nat /\ MaxBucket \in Nat

VARIABLES
  pages,      \* capacity_ / ATTR_PAGESIZE
  free,       \* slots whose freemap bit is set
  bucket,     \* page_free
  stack,      \* nonempty_pages, its last entry on top
  onStack,    \* pages whose page_on_stack bit is set
  freeCount,  \* free_count
  count       \* count: live elements

vars == <<pages, free, bucket, stack, onStack, freeCount, count>>

Slots(n) == 0 .. n * PageSize - 1
PageOf(i) == i \div PageSize
InPage(p) == p * PageSize .. p * PageSize + PageSize - 1
Live == Slots(pages) \ free

\* The members of a finite set of integers, greatest first.
Descending(S) ==
  [k \in 1 .. Cardinality(S) |->
     CHOOSE i \in S : Cardinality({j \in S : j >= i}) = k]

Init ==
  /\ pages = 0 /\ free = {} /\ bucket = <<>>
  /\ stack = <<>> /\ onStack = {}
  /\ freeCount = 0 /\ count = 0

-----------------------------------------------------------------------------
(* Popping a bucket discards the entries above the last one that is really *)
(* free, all of them when there is none.                                   *)

\* Mutant: only the last entry is looked at.
LastEntry(q) == {k \in DOMAIN q : k = Len(q) /\ q[k] \in free}

Genuine(q) == {k \in DOMAIN q : q[k] \in free}
Found(q) == q[Max(Genuine(q))]
Popped(q) == IF Genuine(q) = {} THEN <<>> ELSE SubSeq(q, 1, Max(Genuine(q)) - 1)

(* Popping any free slot discards the pages above the last one that has    *)
(* one, with what their buckets still held.                                *)

\* Mutant: only the page on top of the stack is looked at.
TopFruitful == {m \in DOMAIN stack : m = Len(stack) /\ Genuine(bucket[stack[m]]) # {}}

Fruitful == {m \in DOMAIN stack : Genuine(bucket[stack[m]]) # {}}
Top == IF Fruitful = {} THEN 0 ELSE Max(Fruitful)
Spent == {stack[m] : m \in Top + 1 .. Len(stack)}

Claim(i) ==
  /\ free' = free \ {i}
  /\ freeCount' = freeCount - 1
  /\ count' = count + 1

\* b: the buckets, after what alloc_near has discarded
AllocFound(b) ==
  /\ Fruitful # {}
  /\ LET top == stack[Top] IN
       /\ Claim(Found(b[top]))
       /\ bucket' = [p \in DOMAIN b |-> IF p \in Spent \cup {top} THEN Popped(b[p])
                                                                  ELSE b[p]]
  /\ stack' = SubSeq(stack, 1, Top)
  /\ onStack' = onStack \ Spent
  /\ UNCHANGED pages

\* The new page's bucket is filled from its last slot down, so that the pop
\* which follows takes its first one.
AllocNewPage(b) ==
  /\ Fruitful = {}
  /\ pages < MaxPages
  /\ pages' = pages + 1
  /\ bucket' = [p \in 0 .. pages |->
                  IF p = pages THEN SubSeq(Descending(InPage(p)), 1, PageSize - 1)
                  ELSE IF p \in Spent THEN <<>> ELSE b[p]]
  /\ stack' = <<pages>>
  /\ onStack' = (onStack \ Spent) \cup {pages}
  /\ free' = free \cup (InPage(pages) \ {pages * PageSize})
  /\ freeCount' = freeCount + PageSize - 1
  /\ count' = count + 1

Alloc == AllocFound(bucket) \/ AllocNewPage(bucket)

NearFound(p) ==
  /\ Genuine(bucket[p]) # {}
  /\ Claim(Found(bucket[p]))
  /\ bucket' = [bucket EXCEPT ![p] = Popped(@)]
  /\ UNCHANGED <<pages, stack, onStack>>

NearMissed(p) ==
  /\ Genuine(bucket[p]) = {}
  /\ LET b == [bucket EXCEPT ![p] = <<>>] IN AllocFound(b) \/ AllocNewPage(b)

AllocNear(hint) ==
  IF PageOf(hint) < pages THEN NearFound(PageOf(hint)) \/ NearMissed(PageOf(hint))
                          ELSE Alloc

\* alloc(int): undo and redo claim the slot a record names.  Its entry stays
\* in the bucket.
AllocIndex(i) ==
  /\ i \in free
  /\ Claim(i)
  /\ UNCHANGED <<pages, bucket, stack, onStack>>

\* Mutant: the bucket is filled only with the page's first hole.
ReleaseFirstHole(i) ==
  /\ i \in Live
  /\ free' = free \cup {i}
  /\ freeCount' = freeCount + 1
  /\ count' = count - 1
  /\ LET p == PageOf(i) IN
       /\ Len(bucket[p]) < MaxBucket
       /\ bucket' = IF p \in onStack THEN bucket ELSE [bucket EXCEPT ![p] = Append(@, i)]
       /\ stack' = IF p \in onStack THEN stack ELSE Append(stack, p)
       /\ onStack' = onStack \cup {p}
  /\ UNCHANGED pages

Release(i) ==
  /\ i \in Live
  /\ free' = free \cup {i}
  /\ freeCount' = freeCount + 1
  /\ count' = count - 1
  /\ LET p == PageOf(i) IN
       /\ Len(bucket[p]) < MaxBucket
       /\ bucket' = [bucket EXCEPT ![p] = Append(@, i)]
       /\ stack' = IF p \in onStack THEN stack ELSE Append(stack, p)
       /\ onStack' = onStack \cup {p}
  /\ UNCHANGED pages

\* rebuild_free_structures for free set f of n pages
Rebuild(f, n) ==
  /\ bucket' = [p \in 0 .. n - 1 |-> Descending(f \cap InPage(p))]
  /\ onStack' = {PageOf(i) : i \in f}
  /\ stack' = Descending({PageOf(i) : i \in f})
  /\ freeCount' = Cardinality(f)

Keep == Min({n \in 0 .. pages : Live \subseteq Slots(n)})

FreeTrailingPages ==
  /\ Keep < pages
  /\ pages' = Keep
  /\ free' = free \cap Slots(Keep)
  /\ Rebuild(free \cap Slots(Keep), Keep)
  /\ UNCHANGED count

\* The holes follow a bijection of the slots to any set as large.
Reorder ==
  /\ \E moved \in SUBSET Slots(pages) :
       /\ Cardinality(moved) = Cardinality(free)
       /\ free' = moved
       /\ Rebuild(moved, pages)
  /\ UNCHANGED <<pages, count>>

Hints == Slots(MaxPages)

Next ==
  \/ Alloc
  \/ \E hint \in Hints : AllocNear(hint)
  \/ \E i \in free : AllocIndex(i)
  \/ \E i \in Live : Release(i)
  \/ FreeTrailingPages
  \/ Reorder

Spec == Init /\ [][Next]_vars

-----------------------------------------------------------------------------

\* Every variable has its type: buckets and stack name slots and pages that
\* exist, after a shrink too (elem_data.h:222 to 225).
TypeOK ==
  /\ pages \in 0 .. MaxPages
  /\ free \subseteq Slots(pages)
  /\ bucket \in [0 .. pages - 1 -> Seq(Slots(pages))]
  /\ stack \in Seq(0 .. pages - 1)
  /\ onStack \subseteq 0 .. pages - 1
  /\ freeCount \in Nat /\ count \in Nat

\* No hole is lost, whatever stale entries pops, explicit claims and drained
\* hints leave behind (elem_data.h:291 to 293): every free slot is in its
\* page's bucket and its page is on the stack, and a bucket names slots of its
\* own page only.
HolesListed ==
  /\ \A i \in free : i \in Range(bucket[PageOf(i)]) /\ PageOf(i) \in onStack
  /\ \A p \in DOMAIN bucket : Range(bucket[p]) \subseteq InPage(p)

\* page_on_stack tells exactly which pages the stack holds, each once
\* (elem_data.h:184, 332, 389).
StackOnce == IsInjective(stack) /\ Range(stack) = onStack

\* free_slots() and count agree with freemap: no slot is handed out twice or
\* counted twice (test_elem_alloc.cc:60, 130).
CountsExact ==
  /\ freeCount = Cardinality(free)
  /\ count + freeCount = pages * PageSize

\* The three views of what is free agree: freemap, the page buckets with their
\* stack, and the counters (ElementData::release, alloc, alloc_near, allocAt,
\* pageGrow and freeTrailing keep all of them by hand).
ListsAgree == HolesListed /\ StackOnce /\ CountsExact

\* alloc_near gives a slot of the hint's page whenever that page has a hole
\* (elem_data.h:153 to 155).
HintHonoured ==
  [][\A hint \in Hints :
       LET holes == free \cap InPage(PageOf(hint)) IN
         AllocNear(hint) /\ holes # {} => \E i \in holes : free' = free \ {i}]_vars

\* The allocator implements SlotSet: it hands out only slots that were not
\* live, grows only when no slot is free, and gives back only whole trailing
\* pages that hold no live slot (elem_data.h:137, 200, 374).
Slot == INSTANCE SlotSet WITH live <- Live
SlotSpec == Slot!Spec
=============================================================================
