------------------------------ MODULE SlotSet ------------------------------
(***************************************************************************)
(* What the element allocator promises, with no buckets behind it: a set   *)
(* of live slots inside a storage that grows and shrinks by whole pages.   *)
(* ElemFreeList implements this.                                           *)
(***************************************************************************)
EXTENDS Integers, FiniteSets

CONSTANT PageSize

VARIABLES pages, live

Slots(n) == 0 .. n * PageSize - 1

Init == pages = 0 /\ live = {}

\* A slot that is not live becomes live ...
AllocHole ==
  /\ \E i \in Slots(pages) \ live : live' = live \cup {i}
  /\ UNCHANGED pages

\* ... and the storage grows only when every slot is live.
AllocGrow ==
  /\ live = Slots(pages)
  /\ pages' = pages + 1
  /\ \E i \in Slots(pages + 1) \ live : live' = live \cup {i}

Release ==
  /\ \E i \in live : live' = live \ {i}
  /\ UNCHANGED pages

\* Pages leave from the end, as many as hold no live slot.
Trim ==
  /\ \E n \in 0 .. pages - 1 :
       /\ live \subseteq Slots(n)
       /\ n = 0 \/ ~(live \subseteq Slots(n - 1))
       /\ pages' = n
  /\ UNCHANGED live

\* The slots are permuted.
Permute ==
  /\ \E moved \in SUBSET Slots(pages) :
       Cardinality(moved) = Cardinality(live) /\ live' = moved
  /\ UNCHANGED pages

Next == AllocHole \/ AllocGrow \/ Release \/ Trim \/ Permute

Spec == Init /\ [][Next]_<<pages, live>>
=============================================================================
