--------------------------- MODULE MCPthreadMutex ---------------------------
(* An instance of PthreadMutex for TLC: a NORMAL mutex. *)
EXTENDS PthreadMutex

CONSTANTS t1, t2, t3

ThreeThreads == {t1, t2, t3}
OneDying == {t1}
OneCallEach == [t \in ThreeThreads |-> 1]
=============================================================================
