----------------------------- MODULE MCTimedWait -----------------------------
(* An instance of TimedWait for TLC: a second of three nanoseconds. *)
EXTENDS TimedWait
CONSTANT t1
OneWaiter == {t1}
SomeDeadlines == {[sec |-> 0, nsec |-> 2], [sec |-> 1, nsec |-> 1]}
=============================================================================
