---------------------------- MODULE LevelSurface ----------------------------
(***************************************************************************)
(* The pyramid of a displaced subdivision surface: the surface of a level  *)
(* is the subdivided surface of the level below plus what its channels     *)
(* displace.  A position is one number per vertex, modulo M; tangent       *)
(* frames are functions of the base and cancel between encode and decode.  *)
(***************************************************************************)
EXTENDS Integers, Sequences, FiniteSetsExt

CONSTANTS Verts,     \* the vertices of a level
          M,         \* positions are counted modulo M
          Cage,      \* positions of the base cage
          Stencil,   \* subdivision: positions of a level to base of the next
          FullWeight,  \* full weighting: positions of a level to the one below
          LeastSquares,     \* least squares: likewise, for an explicit down-refit
          Layers     \* sculpt layers, each with a channel of its own

Base == "disp"
Pos == [Verts -> 0 .. M - 1]

ASSUME SurfaceAssumption ==
    /\ Verts # {} /\ M \in Nat \ {0}
    /\ Base \notin Layers /\ IsFiniteSet(Layers)
    /\ Cage \in Pos
    /\ {Stencil, FullWeight, LeastSquares} \subseteq [Pos -> Pos]

Channels == {Base} \union Layers
Flat == [v \in Verts |-> 0]
Plain == [c \in Channels |-> Flat]

Plus(p, q) == [v \in Verts |-> (p[v] + q[v]) % M]
Minus(p, q) == [v \in Verts |-> (p[v] - q[v]) % M]

\* The channels the surface is composed of.
Mixed(on) == {Base} \union {c \in Layers : on[c]}

Total(detail, chans) ==
    [v \in Verts |-> MapThenSumSet(LAMBDA c : detail[c][v], chans) % M]

\* Surface of level l of a stack; level 0 is the cage.
Surface(disp, on, l) ==
    LET f[k \in 0 .. l] ==
          IF k = 0 THEN Cage ELSE Plus(Stencil[f[k - 1]], Total(disp[k], Mixed(on)))
    IN  f[l]

\* The detail of a level with channel c changed, at the vertices vs, so that
\* on top of base the level shows pos: c takes what the others do not give.
Express(detail, on, c, base, pos, vs) ==
    [detail EXCEPT ![c] = [v \in Verts |->
        IF v \in vs
        THEN Minus(Minus(pos, base), Total(detail, Mixed(on) \ {c}))[v]
        ELSE @[v]]]
=============================================================================
