----------------------------- MODULE MCSemaphore -----------------------------
(* An instance of Semaphore for TLC in which posts may overlap. *)
EXTENDS Semaphore, TLC
CONSTANTS t1, t2, t3, t4
FourThreads == {t1, t2, t3, t4}
OneCallsTwice == [t \in FourThreads |-> IF t = t4 THEN 2 ELSE 1]
\* Threads that make the same calls are interchangeable.
Symmetry == Permutations({t1, t2, t3})
=============================================================================
