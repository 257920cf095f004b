---------------------------- MODULE WeightColumn ----------------------------
(***************************************************************************)
(* What a WEIGHTS column promises, with no pool behind it: every cell (an  *)
(* element of a mesh column, or a row of an undo step) simply holds a      *)
(* canonical run of vertex-group weights.  DeformPool implements this with *)
(* interned, reference-counted slots.                                      *)
(***************************************************************************)
CONSTANTS Cells, Runs, EmptyRun

VARIABLE value

Values == Runs \cup {EmptyRun}

Init == value = [c \in Cells |-> EmptyRun]

Write(c, r) == value' = [value EXCEPT ![c] = r]

Copy(c, d) == value' = [value EXCEPT ![c] = value[d]]

Swap(c, d) == value' = [value EXCEPT ![c] = value[d], ![d] = value[c]]

Next ==
  \/ \E c \in Cells, r \in Values : Write(c, r)
  \/ \E c, d \in Cells : Copy(c, d) \/ Swap(c, d)

Spec == Init /\ [][Next]_value
=============================================================================
