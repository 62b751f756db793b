------------------------------- MODULE Futex -------------------------------
(***************************************************************************)
(* What the synchronisation objects of the library assume of the futex     *)
(* system calls.  The threads asleep on one word are a set: the host keeps *)
(* no order that the code could rely on.  Module TimedWait models the     *)
(* library's own half of these calls step by step.                         *)
(***************************************************************************)
EXTENDS Integers, FiniteSets

\* __wake(addr, cnt): the sets that may be left asleep of S when the host
\* wakes min(cnt, |S|) threads of its own choice.
Wake(S, cnt) ==
  {R \in SUBSET S : Cardinality(S \ R) = IF cnt < Cardinality(S) THEN cnt
                                         ELSE Cardinality(S)}
============================================================================
