---------------------------- MODULE AbstractLock ----------------------------
(***************************************************************************)
(* What a lock promises its users: one holder at a time, and a free lock   *)
(* that somebody waits for is eventually taken.  It promises no order      *)
(* among the waiters.                                                      *)
(***************************************************************************)
CONSTANT Threads

VARIABLES
  waiting,   \* threads inside a call that acquires the lock
  holding    \* threads between an acquisition and the release

absVars == <<waiting, holding>>

AbsInit == waiting = {} /\ holding = {}

Request(t) ==
  /\ t \notin waiting \cup holding
  /\ waiting' = waiting \cup {t}
  /\ UNCHANGED holding

Acquire(t) ==
  /\ t \in waiting /\ holding = {}
  /\ waiting' = waiting \ {t}
  /\ holding' = {t}

\* A call that finds that no locking is needed acquires at once.
Enter(t) ==
  /\ t \notin waiting /\ holding = {}
  /\ holding' = {t}
  /\ UNCHANGED waiting

Release(t) ==
  /\ t \in holding
  /\ holding' = holding \ {t}
  /\ UNCHANGED waiting

AbsNext == \E t \in Threads : Request(t) \/ Acquire(t) \/ Enter(t) \/ Release(t)

AbsSafety == AbsInit /\ [][AbsNext]_absVars

\* Deadlock freedom: a free lock with waiters does not stay free.
AbsLive == WF_absVars(\E t \in Threads : Acquire(t))

AbsSpec == AbsSafety /\ AbsLive
=============================================================================
