----------------------------- MODULE ThreadCalls -----------------------------
(***************************************************************************)
(* The threads of a program that calls one synchronisation object: the     *)
(* call each of them is in, the step it is at, and the threads that sleep  *)
(* in the futex call they are at.  RWLock, Semaphore, Once and Barrier     *)
(* add the state of their object and the steps of its functions.           *)
(***************************************************************************)
EXTENDS Futex

CONSTANT Threads   \* the threads that use the object

ASSUME ThreadsAssumption == IsFiniteSet(Threads)

VARIABLES
  pc,        \* the step each thread is at
  op,        \* the call it is in
  asleep,    \* threads asleep in a futex call
  left       \* calls it may still make

threadVars == <<pc, op, asleep, left>>

\* Each thread t will make calls[t] calls.
ThreadsInit(calls) ==
  /\ pc = [t \in Threads |-> "idle"]
  /\ op = [t \in Threads |-> "none"]
  /\ asleep = {}
  /\ left = calls

\* t calls the function o, whose first step is l.
Call(t, o, l) ==
  /\ pc[t] = "idle" /\ left[t] > 0
  /\ pc' = [pc EXCEPT ![t] = l]
  /\ op' = [op EXCEPT ![t] = o]
  /\ left' = [left EXCEPT ![t] = @ - 1]
  /\ UNCHANGED asleep

\* t goes on to the step l of the call it is in.
Goto(t, l) ==
  /\ pc' = [pc EXCEPT ![t] = l]
  /\ UNCHANGED <<op, left>>

\* The call returns.
Return(t) ==
  /\ pc' = [pc EXCEPT ![t] = "idle"]
  /\ op' = [op EXCEPT ![t] = "none"]
  /\ UNCHANGED left

\* The futex call at the step t is at: sleep if the word has the value that
\* is passed to it (equal).  Either way the step after it is l; the thread
\* takes it when it is awake.
FutexWait(t, equal, l) ==
  /\ asleep' = IF equal THEN asleep \cup {t} ELSE asleep
  /\ Goto(t, l)

\* __wake on the word on which the threads of S sleep.
WakeUp(S, cnt) == \E R \in Wake(S, cnt) : asleep' = (asleep \ S) \cup R

\* -1 and INT_MAX wake every thread.
WakeAll(S) == asleep' = asleep \ S
=============================================================================
