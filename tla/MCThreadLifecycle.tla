-------------------------- MODULE MCThreadLifecycle --------------------------
(* Instances of ThreadLifecycle for TLC. *)
EXTENDS ThreadLifecycle
CONSTANTS m, a, b
TwoThreads == {m, a}
ThreeThreads == {m, a, b}
OneKiller == {m}
=============================================================================
