----------------------------- MODULE MCMeshLog -----------------------------
(* Small instances of MeshLog for TLC. *)
EXTENDS MeshLog, TLC

CONSTANTS e1, e2, co, color, link

OneRow == [c \in Cols |-> 1]
AllLive == {Elems}
OneLive == {{e1}}
PositionKernel == {{co}}
MixedKernels == {{co}, {co, color}, {color}}

NoLimit == {-1}

Real == {{"real"}}
RealOrPreview == {{"real"}, {"preview"}}
Mixed == {{"real", "preview"}}

Symmetry == Permutations(Elems)
=============================================================================
