---------------------------- MODULE MCPthreadCond ----------------------------
(* Instances of PthreadCond for TLC. *)
EXTENDS PthreadCond, TLC
CONSTANTS a, b, c, s
TwoWaiting == {a, b}
ThreeWaiting == {a, b, c}
OneSignalling == {s}
Symmetry == Permutations(ThreeWaiting)
=============================================================================
