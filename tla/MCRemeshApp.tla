---------------------------- MODULE MCRemeshApp -----------------------------
(***************************************************************************)
(* Instances of RemeshApp for TLC.                                         *)
(***************************************************************************)
EXTENDS RemeshApp

CONSTANT c1

OneClient == {c1}
NoRude    == {}

RunOrState == [c \in {c1} |-> {"run", "state"}]
State      == [c \in {c1} |-> {"state"}]
=============================================================================
