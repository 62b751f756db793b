-------------------------- MODULE MCMutexTimedWait --------------------------
(***************************************************************************)
(* Instances for TLC of PthreadMutex, with the types that have an owner,   *)
(* and of TimedWait.  Neither uses the other's state; the initial state    *)
(* chooses which of the two a behaviour is about.                          *)
(***************************************************************************)
EXTENDS PthreadMutex, TimedWait, TLC

CONSTANTS t1, t2, t3

VARIABLE part   \* "mutex" or "timedwait"

ThreeThreads == {t1, t2, t3}
OneDying == {t1}
\* Enough calls of one thread to pass the count limit of the instance.
OneRecurses == [t \in ThreeThreads |-> IF t = t1 THEN 3 ELSE 1]
TwoWaiters == {t2, t3}

\* A deadline in the first and one in the second second, which borrows, and one
\* that is malformed.
SomeDeadlines == {[sec |-> 0, nsec |-> 2], [sec |-> 1, nsec |-> 1],
                  [sec |-> 0, nsec |-> -1]}

\* Waiters, and threads that may not exit, are interchangeable.
Symmetry == Permutations(TwoWaiters)

EitherInit ==
  /\ part \in {"mutex", "timedwait"}
  /\ Init /\ TimedInit
  /\ part = "timedwait" => mtype = "RECURSIVE"

\* A waiter without a deadline may wait for ever.
Waits == part = "timedwait" /\ UNCHANGED <<part, vars, timedVars>>

EitherNext ==
  \/ part = "mutex" /\ Next /\ UNCHANGED <<part, timedVars>>
  \/ part = "timedwait" /\ TimedNext /\ UNCHANGED <<part, vars>>
  \/ Waits

EitherSpec == EitherInit /\ [][EitherNext]_<<part, vars, timedVars>>
=============================================================================
