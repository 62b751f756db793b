---------------------------- MODULE InternalLock ----------------------------
(***************************************************************************)
(* The library's internal lock, __lock and __unlock, with the switch       *)
(* libc.need_locks that thread creation and exit move.                     *)
(*                                                                         *)
(* The lock is one int: INT_MIN is the lock flag, the rest counts the      *)
(* threads in the critical section or committed to wait for it.  Here it   *)
(* is a record [held, cong].                                               *)
(***************************************************************************)
EXTENDS Futex

CONSTANTS
  Threads,    \* all threads that may ever run
  Main,       \* the initial thread
  SpinMax,    \* turns of the first loop; 10 in the code
  MaxCalls    \* bound: calls of __lock by each thread

ASSUME LockAssumption ==
  /\ IsFiniteSet(Threads) /\ Main \in Threads
  /\ SpinMax \in Nat \ {0}
  /\ MaxCalls \in Nat

VARIABLES
  word,       \* the lock
  needLocks,  \* libc.need_locks: 0, 1 or -1
  live,       \* threads that run; threads_minus_1 is one less than their number
  pc,         \* where each thread is
  current,    \* its local copy of the lock
  turn,       \* its turns of the spin loop
  sleepers,   \* threads asleep in the futex
  left        \* calls it may still make

vars == <<word, needLocks, live, pc, current, turn, sleepers, left>>

Word == [held : BOOLEAN, cong : Int]
Open(n) == [held |-> FALSE, cong |-> n]
Shut(n) == [held |-> TRUE, cong |-> n]
Labels == {"idle", "fast", "spin", "add", "main", "wait", "sleep", "cas",
           "cs", "wake"}

TypeOK ==
  /\ word \in Word
  /\ needLocks \in {-1, 0, 1}
  /\ live \subseteq Threads
  /\ pc \in [Threads -> Labels]
  /\ current \in [Threads -> Word]
  /\ turn \in [Threads -> 0 .. SpinMax]
  /\ sleepers \subseteq Threads
  /\ left \in [Threads -> Nat]

Init ==
  /\ word = Open(0)
  /\ needLocks = 0
  /\ live = {Main}
  /\ pc = [t \in Threads |-> "idle"]
  /\ current = [t \in Threads |-> Open(0)]
  /\ turn = [t \in Threads |-> 0]
  /\ sleepers = {}
  /\ left = [t \in Threads |-> MaxCalls]

-----------------------------------------------------------------------------
Goto(t, l) == pc' = [pc EXCEPT ![t] = l]

\* The lock is acquired, or need not be; the locals of __lock are gone.
EnterCS(t) ==
  /\ Goto(t, "cs")
  /\ current' = [current EXCEPT ![t] = Open(0)]
  /\ turn' = [turn EXCEPT ![t] = 0]

\* current -= INT_MIN + 1: the holder seen in the lock is taken out of it.
WithoutHolder(c) == IF c.held THEN Open(c.cong - 1) ELSE c

\* __lock looks at need_locks once, and resets a negative value.  It is negative
\* only while no other thread exists, so the store, which the code makes after
\* its first compare-and-swap, belongs to the step that looked.
CallLock(t) ==
  /\ t \in live /\ pc[t] = "idle" /\ left[t] > 0
  /\ left' = [left EXCEPT ![t] = @ - 1]
  /\ IF needLocks = 0 THEN EnterCS(t) ELSE Goto(t, "fast") /\ UNCHANGED <<current, turn>>
  /\ needLocks' = IF needLocks < 0 THEN 0 ELSE needLocks
  /\ UNCHANGED <<word, live, sleepers>>

\* The fast path.
FastPath(t) ==
  /\ pc[t] = "fast"
  /\ IF word = Open(0)
     THEN word' = Shut(1) /\ EnterCS(t)
     ELSE /\ current' = [current EXCEPT ![t] = word]
          /\ Goto(t, "spin")
          /\ UNCHANGED <<word, turn>>
  /\ UNCHANGED <<needLocks, live, sleepers, left>>

\* Mutant: the thread does not count itself when it acquires.
SpinTurnUncounted(t) ==
  LET c == WithoutHolder(current[t]) IN
  /\ pc[t] = "spin" /\ turn[t] < SpinMax
  /\ IF word = c
     THEN word' = Shut(c.cong) /\ EnterCS(t)
     ELSE /\ current' = [current EXCEPT ![t] = word]
          /\ turn' = [turn EXCEPT ![t] = @ + 1]
          /\ UNCHANGED <<word, pc>>
  /\ UNCHANGED <<needLocks, live, sleepers, left>>

\* One turn of the first loop: a thread that is not counted yet adds itself
\* when it acquires.
SpinTurn(t) ==
  LET c == WithoutHolder(current[t]) IN
  /\ pc[t] = "spin" /\ turn[t] < SpinMax
  /\ IF word = c
     THEN word' = Shut(c.cong + 1) /\ EnterCS(t)
     ELSE /\ current' = [current EXCEPT ![t] = word]
          /\ turn' = [turn EXCEPT ![t] = @ + 1]
          /\ UNCHANGED <<word, pc>>
  /\ UNCHANGED <<needLocks, live, sleepers, left>>

\* Spinning failed: current = a_fetch_add(l, 1) + 1.
Commit(t) ==
  LET w == [word EXCEPT !.cong = @ + 1] IN
  /\ pc[t] = "spin" /\ turn[t] = SpinMax
  /\ word' = w
  /\ current' = [current EXCEPT ![t] = w]
  /\ turn' = [turn EXCEPT ![t] = 0]
  /\ Goto(t, "main")
  /\ UNCHANGED <<needLocks, live, sleepers, left>>

\* Head of the main loop: wait only if somebody holds the lock.
MainLoop(t) ==
  /\ pc[t] = "main"
  /\ Goto(t, IF current[t].held THEN "wait" ELSE "cas")
  /\ UNCHANGED <<word, needLocks, live, current, turn, sleepers, left>>

\* Mutant: the futex sleeps without comparing the word.
FutexWaitBlind(t) ==
  /\ pc[t] = "wait"
  /\ sleepers' = sleepers \cup {t}
  /\ Goto(t, "sleep")
  /\ UNCHANGED <<word, needLocks, live, current, turn, left>>

\* __futexwait: sleeps as long as the lock has the value seen ...
FutexWait(t) ==
  /\ pc[t] = "wait"
  /\ IF word = current[t]
     THEN /\ sleepers' = sleepers \cup {t}
          /\ Goto(t, "sleep")
          /\ UNCHANGED current
     ELSE /\ current' = [current EXCEPT ![t] = WithoutHolder(@)]
          /\ Goto(t, "cas")
          /\ UNCHANGED sleepers
  /\ UNCHANGED <<word, needLocks, live, turn, left>>

\* ... and looks at it again after every wake-up.
Woken(t) ==
  /\ pc[t] = "sleep" /\ t \notin sleepers
  /\ Goto(t, "wait")
  /\ UNCHANGED <<word, needLocks, live, current, turn, sleepers, left>>

SpuriousWake(t) ==
  /\ t \in sleepers
  /\ sleepers' = sleepers \ {t}
  /\ UNCHANGED <<word, needLocks, live, pc, current, turn, left>>

\* Mutant: a store where the code compares and swaps.
MainCasStore(t) ==
  /\ pc[t] = "cas"
  /\ word' = Shut(current[t].cong)
  /\ EnterCS(t)
  /\ UNCHANGED <<needLocks, live, sleepers, left>>

\* a_cas(l, current, INT_MIN + current): the count includes us already.
MainCas(t) ==
  /\ pc[t] = "cas"
  /\ IF word = current[t]
     THEN word' = Shut(word.cong) /\ EnterCS(t)
     ELSE /\ current' = [current EXCEPT ![t] = word]
          /\ Goto(t, "main")
          /\ UNCHANGED <<word, turn>>
  /\ UNCHANGED <<needLocks, live, sleepers, left>>

\* Mutant: one waiter is mistaken for none.
UnlockOffByOne(t) ==
  /\ pc[t] = "cs"
  /\ IF word.held
     THEN /\ word' = Open(word.cong - 1)
          /\ Goto(t, IF word.cong <= 2 THEN "idle" ELSE "wake")
     ELSE Goto(t, "idle") /\ UNCHANGED word
  /\ UNCHANGED <<needLocks, live, current, turn, sleepers, left>>

\* __unlock: nothing was locked if l[0] is not negative.
Unlock(t) ==
  /\ pc[t] = "cs"
  /\ IF word.held
     THEN /\ word' = Open(word.cong - 1)
          /\ Goto(t, IF word = Shut(1) THEN "idle" ELSE "wake")
     ELSE Goto(t, "idle") /\ UNCHANGED word
  /\ UNCHANGED <<needLocks, live, current, turn, sleepers, left>>

WakeOne(t) ==
  /\ pc[t] = "wake"
  /\ sleepers' \in Wake(sleepers, 1)
  /\ Goto(t, "idle")
  /\ UNCHANGED <<word, needLocks, live, current, turn, left>>

-----------------------------------------------------------------------------
\* pthread_create, seen from here: the second thread switches locking on.  It
\* is never called inside an internal critical section.
Spawn(t, u) ==
  /\ t \in live /\ pc[t] = "idle" /\ u \in Threads \ live
  /\ live' = live \cup {u}
  /\ needLocks' = IF live = {t} THEN 1 ELSE needLocks
  /\ UNCHANGED <<word, pc, current, turn, sleepers, left>>

\* The host refuses the second thread: locking is switched off again.
SpawnFails(t) ==
  /\ t \in live /\ pc[t] = "idle"
  /\ needLocks' = IF live = {t} THEN 0 ELSE needLocks
  /\ UNCHANGED <<word, live, pc, current, turn, sleepers, left>>

\* pthread_exit of any but the last thread.  Past this point it takes no internal
\* lock; the allocator that frees its stack has locks of its own.
ThreadExit(t) ==
  /\ t \in live /\ pc[t] = "idle" /\ live # {t}
  /\ live' = live \ {t}
  /\ needLocks' = IF Cardinality(live) = 2 THEN -1 ELSE needLocks
  /\ UNCHANGED <<word, pc, current, turn, sleepers, left>>

-----------------------------------------------------------------------------
Step(t) ==
  \/ FastPath(t) \/ SpinTurn(t) \/ Commit(t) \/ MainLoop(t)
  \/ FutexWait(t) \/ Woken(t) \/ MainCas(t) \/ Unlock(t) \/ WakeOne(t)

Next ==
  \E t \in Threads :
    \/ Step(t) \/ CallLock(t) \/ SpuriousWake(t)
    \/ SpawnFails(t) \/ ThreadExit(t)
    \/ \E u \in Threads : Spawn(t, u)

\* A running thread keeps running; a critical section is finite.
Fairness == \A t \in Threads : WF_vars(Step(t))

Spec == Init /\ [][Next]_vars /\ Fairness

-----------------------------------------------------------------------------
\* The threads counted in the lock: the holder and those committed to wait.
Counted ==
  {t \in Threads : \/ pc[t] \in {"main", "wait", "sleep", "cas"}
                   \/ pc[t] = "cs" /\ word.held}

\* One thread at a time in an internal critical section, also across the
\* moments at which locking is switched on and off by create and exit.
MutualExclusion ==
  \A t, u \in Threads : pc[t] = "cs" /\ pc[u] = "cs" => t = u

\* The congestion count is exact (the comment on the lock's states), so the
\* unlock that must wake somebody is never taken for the last one.
CongestionExact == word.cong = Cardinality(Counted)

\* Every __lock gets in (MaxCalls bounds how often others overtake).
EveryLockEnters ==
  \A t \in Threads : pc[t] \notin {"idle", "wake"} ~> pc[t] = "cs"

\* The implementation refines the abstract lock.
AL == INSTANCE AbstractLock WITH
        waiting <- {t \in Threads : pc[t] \notin {"idle", "cs", "wake"}},
        holding <- {t \in Threads : pc[t] = "cs"}

\* __lock and __unlock are a lock: safety and deadlock freedom.
RefinesAbstractLock == AL!AbsSpec
=============================================================================
