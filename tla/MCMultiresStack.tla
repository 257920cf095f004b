-------------------------- MODULE MCMultiresStack --------------------------
(* One vertex counted modulo 3, or two counted modulo 2.  Subdivision,     *)
(* restriction and fit are maps none of which is the inverse of another.   *)
EXTENDS MultiresStack

OneVert == {1}
OnePos == [OneVert -> 0 .. 2]
OneMap(f(_)) == [p \in OnePos |-> [v \in OneVert |-> f(p[1]) % 3]]
OneCage == [v \in OneVert |-> 1]
OneStencil == OneMap(LAMBDA x : 2 * x)
OneFullWeight == OneMap(LAMBDA x : x + 1)
OneLeastSquares == OneMap(LAMBDA x : 2 * x + 1)

Host(n, c) == [start |-> n, calls |-> c]
MeshHosts == {Host(2, {"mesh", "levels", "refit"}), Host(2, {"mesh", "import", "snapshot"}),
              Host(1, {"mesh", "grid", "layers"})}
GridHosts == {Host(2, {"grid", "lazy"})}
AllHosts == MeshHosts \cup GridHosts
GridHost == {Host(2, {"grid"})}
ImportHost == {Host(2, {"grid", "import"})}

TwoVerts == 1 .. 2
TwoPos == [TwoVerts -> 0 .. 1]
TwoMap(f(_), g(_)) == [p \in TwoPos |-> [v \in TwoVerts |-> IF v = 1 THEN f(p) ELSE g(p)]]
TwoCage == [v \in TwoVerts |-> 2 - v]
TwoStencil == TwoMap(LAMBDA p : p[1], LAMBDA p : (p[1] + p[2]) % 2)
TwoFullWeight == TwoMap(LAMBDA p : p[2], LAMBDA p : p[1])
TwoLeastSquares == TwoMap(LAMBDA p : p[1], LAMBDA p : p[1])
=============================================================================
