--------------------------- MODULE MCInternalLock ---------------------------
(* An instance of InternalLock for TLC. *)
EXTENDS InternalLock
CONSTANTS m, t1, t2
ThreeThreads == {m, t1, t2}
=============================================================================
