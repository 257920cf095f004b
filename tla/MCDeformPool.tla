---------------------------- MODULE MCDeformPool ----------------------------
(* Small instances of DeformPool for TLC. *)
EXTENDS DeformPool, TLC

CONSTANTS r1, r2, r3, sh1, sh2

TwoShards == [r \in Runs |-> IF r = r1 THEN sh1 ELSE sh2]

Symmetry == Permutations(Cells) \cup Permutations(Threads)
=============================================================================
