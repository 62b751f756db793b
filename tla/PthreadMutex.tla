---------------------------- MODULE PthreadMutex ----------------------------
(***************************************************************************)
(* One pthread_mutex_t: pthread_mutex_lock, _trylock, _timedlock, _unlock  *)
(* and the hand-over of the mutexes an exiting thread still owns.          *)
(*                                                                         *)
(* m_lock packs an owner and a contention bit (0x80000000).  It is a       *)
(* record [own, cont] here: own is 0 (None), EBUSY for a NORMAL mutex, the *)
(* owner's tid for the other types, and 0x40000000 (Orphan) once an owner  *)
(* has exited.  The robust and priority-inheritance bits of _m_type (4, 8) *)
(* are never set: pthread_mutexattr_setrobust and _setprotocol are no-ops. *)
(***************************************************************************)
EXTENDS Futex

CONSTANTS
  Threads,    \* the threads that use the mutex
  None,       \* no owner: the low bits of m_lock are 0
  Types,      \* the types the mutex may be created with
  Pshared,    \* _m_type & 128
  CountMax,   \* stands for INT_MAX, the limit of _m_count
  Dying,      \* threads that may call pthread_exit
  MaxCalls    \* bound: how many locking calls each thread makes

ASSUME MutexAssumption ==
  /\ IsFiniteSet(Threads)
  /\ None \notin Threads \cup {"EBUSY", "0x40000000"}
  /\ Threads \cap {"EBUSY", "0x40000000"} = {}
  /\ Types \subseteq {"NORMAL", "RECURSIVE", "ERRORCHECK"}
  /\ Pshared \in BOOLEAN
  /\ CountMax \in Nat
  /\ MaxCalls \in [Threads -> Nat]
  /\ Dying \subseteq Threads

VARIABLES
  mtype,      \* _m_type & 3
  lock,       \* _m_lock
  waiters,    \* _m_waiters
  count,      \* _m_count
  sleepers,   \* threads asleep in the futex on _m_lock
  pc,         \* where each thread is
  op,         \* the call it is in
  r,          \* its local r, then t: the word it waits on; cont: the bit to set
  seen,       \* unlock: the waiters it read; lock: the result of the wait
  depth,      \* locks the application holds (a history variable)
  left        \* calls it may still make

vars == <<mtype, lock, waiters, count, sleepers, pc, op, r, seen, depth, left>>

Busy == "EBUSY"
Orphan == "0x40000000"
Owners == Threads \cup {None, Busy, Orphan}
Word == [own : Owners, cont : BOOLEAN]
Free == [own |-> None, cont |-> FALSE]
Ops == {"lock", "timedlock", "trylock", "unlock"}
Labels == {"idle", "try", "trywaiters", "trycas", "load", "inc", "mark", "wait", "sleep",
           "recheck", "dec", "swap", "wake", "exit", "exitwake",
           "dead"}

TypeOK ==
  /\ mtype \in Types
  /\ lock \in Word
  /\ waiters \in Int
  /\ count \in 0 .. CountMax
  /\ sleepers \subseteq Threads
  /\ pc \in [Threads -> Labels]
  /\ op \in [Threads -> Ops]
  /\ r \in [Threads -> Word]
  /\ seen \in [Threads -> BOOLEAN]
  /\ depth \in [Threads -> Nat]
  /\ left \in [Threads -> Nat]

\* pthread_mutex_init: the structure is zeroed and takes its type.
Init ==
  /\ mtype \in Types
  /\ lock = Free
  /\ waiters = 0
  /\ count = 0
  /\ sleepers = {}
  /\ pc = [t \in Threads |-> "idle"]
  /\ op = [t \in Threads |-> "unlock"]
  /\ r = [t \in Threads |-> Free]
  /\ seen = [t \in Threads |-> FALSE]
  /\ depth = [t \in Threads |-> 0]
  /\ left = MaxCalls

-----------------------------------------------------------------------------
Goto(t, l) == pc' = [pc EXCEPT ![t] = l]

\* A plain step: the thread's local variables keep their values.
Move(t, l) == Goto(t, l) /\ UNCHANGED <<r, seen>>

\* A call returns and its local variables are gone.  What it returns is not
\* kept: a successful lock shows in depth, an error leaves depth alone.
Return(t) ==
  /\ Goto(t, "idle")
  /\ r' = [r EXCEPT ![t] = Free]
  /\ seen' = [seen EXCEPT ![t] = FALSE]

\* The value a successful lock stores: EBUSY for NORMAL, else the owner's tid.
Held(t) == IF mtype = "NORMAL" THEN Busy ELSE t

\* The application calls a locking function.  It does not relock a NORMAL
\* mutex it holds, except through trylock: that is its own deadlock.
CallLock(t, o) ==
  /\ pc[t] = "idle" /\ left[t] > 0
  /\ mtype = "NORMAL" /\ depth[t] > 0 => o = "trylock"
  /\ op' = [op EXCEPT ![t] = o]
  /\ left' = [left EXCEPT ![t] = @ - 1]
  /\ Move(t, "try")
  /\ UNCHANGED <<mtype, lock, waiters, count, sleepers, depth>>

\* A trylock that found the mutex taken: EBUSY to the caller of trylock, while
\* lock and timedlock go on to wait.
FailTry(t) ==
  /\ IF op[t] = "trylock" THEN Return(t) ELSE Move(t, "load")
  /\ UNCHANGED <<lock, waiters, count, sleepers, op, depth, left>>

TakeLock(t, c) ==
  /\ lock' = [own |-> Held(t), cont |-> c]
  /\ depth' = [depth EXCEPT ![t] = 1]
  /\ Return(t)
  /\ UNCHANGED <<waiters, count, sleepers, op, left>>

\* NORMAL: a single compare-and-swap, in lock, timedlock and trylock alike.
TryNormal(t) ==
  /\ pc[t] = "try" /\ mtype = "NORMAL"
  /\ IF lock = Free THEN TakeLock(t, FALSE) ELSE FailTry(t)

\* trylock_owner on a RECURSIVE mutex the caller owns.
TryOwned(t) ==
  /\ pc[t] = "try" /\ mtype = "RECURSIVE" /\ lock.own = t
  /\ IF count >= CountMax
     THEN Return(t) /\ UNCHANGED <<count, depth>>      \* EAGAIN
     ELSE /\ count' = count + 1
          /\ depth' = [depth EXCEPT ![t] = @ + 1]
          /\ Return(t)
  /\ UNCHANGED <<lock, waiters, sleepers, op, left>>

\* trylock_owner up to its compare-and-swap, otherwise.
TryOwner(t) ==
  /\ pc[t] = "try" /\ mtype # "NORMAL"
  /\ ~ (mtype = "RECURSIVE" /\ lock.own = t)
  /\ IF lock # Free
     THEN FailTry(t)
     ELSE /\ Goto(t, IF Pshared THEN "trywaiters" ELSE "trycas")
          /\ seen' = [seen EXCEPT ![t] = FALSE]
          /\ UNCHANGED <<lock, waiters, count, sleepers, op, r, depth, left>>

\* A process-shared mutex is taken with the contention bit if it has waiters.
TryWaiters(t) ==
  /\ pc[t] = "trywaiters"
  /\ Goto(t, "trycas")
  /\ seen' = [seen EXCEPT ![t] = (waiters # 0)]
  /\ UNCHANGED <<lock, waiters, count, sleepers, op, r, depth, left>>

TryCas(t) ==
  /\ pc[t] = "trycas"
  /\ IF lock = Free THEN TakeLock(t, seen[t]) ELSE FailTry(t)

\* r = m->_m_lock and the two tests on it.
Load(t) ==
  /\ pc[t] = "load"
  /\ \/ lock = Free /\ Move(t, "try")
     \/ /\ mtype = "ERRORCHECK" /\ lock.own = t
        /\ Return(t)                                  \* EDEADLK
     \/ /\ lock # Free
        /\ ~ (mtype = "ERRORCHECK" /\ lock.own = t)
        /\ Goto(t, "inc")
        /\ r' = [r EXCEPT ![t] = lock]
        /\ UNCHANGED seen
  /\ UNCHANGED <<lock, waiters, count, sleepers, op, depth, left>>

IncWaiters(t) ==
  /\ pc[t] = "inc"
  /\ waiters' = waiters + 1
  /\ Move(t, "mark")
  /\ UNCHANGED <<lock, count, sleepers, op, depth, left>>

\* t = r | 0x80000000; a_cas(&m->_m_lock, r, t)
MarkContended(t) ==
  LET w == [r[t] EXCEPT !.cont = TRUE] IN
  /\ pc[t] = "mark"
  /\ lock' = IF lock = r[t] THEN w ELSE lock
  /\ r' = [r EXCEPT ![t] = w]
  /\ Goto(t, "wait")
  /\ UNCHANGED <<waiters, count, sleepers, op, seen, depth, left>>

\* The wait is over, with ETIMEDOUT or, with e = FALSE, for a new attempt.
EndWait(t, e) ==
  /\ Goto(t, "dec")
  /\ seen' = [seen EXCEPT ![t] = e]
  /\ r' = [r EXCEPT ![t] = Free]
  /\ UNCHANGED <<lock, waiters, count, op, depth, left>>

\* Mutant: the futex sleeps without comparing the word.
WaitBlind(t) ==
  /\ pc[t] = "wait"
  /\ sleepers' = sleepers \cup {t}
  /\ Move(t, "sleep")
  /\ UNCHANGED <<lock, waiters, count, op, depth, left>>

\* __timedwait: the deadline may have passed already; the futex call does not
\* sleep when the word has changed.
Wait(t) ==
  /\ pc[t] = "wait"
  /\ \/ op[t] = "timedlock" /\ EndWait(t, TRUE) /\ UNCHANGED sleepers
     \/ lock # r[t] /\ EndWait(t, FALSE) /\ UNCHANGED sleepers
     \/ /\ lock = r[t]
        /\ sleepers' = sleepers \cup {t}
        /\ Move(t, "sleep")
        /\ UNCHANGED <<lock, waiters, count, op, depth, left>>

\* The host reports a wake-up.
Woken(t) ==
  /\ pc[t] = "sleep" /\ t \notin sleepers
  /\ EndWait(t, FALSE)
  /\ UNCHANGED sleepers

\* The host may end a wait without a wake ("true in all other cases").
SpuriousWake(t) ==
  /\ t \in sleepers
  /\ sleepers' = sleepers \ {t}
  /\ UNCHANGED <<mtype, lock, waiters, count, pc, op, r, seen, depth, left>>

\* The timeout expires: the thread leaves the queue ...
Timeout(t) ==
  /\ pc[t] = "sleep" /\ t \in sleepers /\ op[t] = "timedlock"
  /\ sleepers' = sleepers \ {t}
  /\ Move(t, "recheck")
  /\ UNCHANGED <<mtype, lock, waiters, count, op, depth, left>>

\* ... and reports ETIMEDOUT only if the word still has the expected value.
Recheck(t) ==
  /\ pc[t] = "recheck"
  /\ EndWait(t, lock = r[t])
  /\ UNCHANGED sleepers

\* Mutant: a woken thread takes the mutex as handed over to it.
DecWaitersHandOff(t) ==
  /\ pc[t] = "dec"
  /\ waiters' = waiters - 1
  /\ Return(t)
  /\ IF seen[t] THEN UNCHANGED <<lock, depth>>
                ELSE /\ lock' = [own |-> Held(t), cont |-> FALSE]
                     /\ depth' = [depth EXCEPT ![t] = 1]
  /\ UNCHANGED <<count, sleepers, op, left>>

DecWaiters(t) ==
  /\ pc[t] = "dec"
  /\ waiters' = waiters - 1
  /\ IF seen[t] THEN Return(t) ELSE Move(t, "try")
  /\ UNCHANGED <<lock, count, sleepers, op, depth, left>>

-----------------------------------------------------------------------------
\* Mutant: the recursion count is not looked at.
CallUnlockNoCount(t) ==
  /\ pc[t] = "idle" /\ lock # Free /\ lock.own = t
  /\ op' = [op EXCEPT ![t] = "unlock"]
  /\ seen' = [seen EXCEPT ![t] = (waiters # 0)]
  /\ depth' = [depth EXCEPT ![t] = 0]
  /\ Goto(t, "swap")
  /\ UNCHANGED <<mtype, lock, waiters, count, sleepers, r, left>>

\* pthread_mutex_unlock up to the exchange: _m_waiters is read first.  The
\* application does not unlock a NORMAL mutex it does not hold.
CallUnlock(t) ==
  /\ pc[t] = "idle"
  /\ mtype = "NORMAL" => depth[t] > 0
  /\ op' = [op EXCEPT ![t] = "unlock"]
  /\ \/ /\ mtype # "NORMAL" /\ lock.own # t
        /\ Return(t)                                  \* EPERM
        /\ UNCHANGED <<count, depth>>
     \/ /\ mtype = "RECURSIVE" /\ lock.own = t /\ count > 0
        /\ count' = count - 1
        /\ depth' = [depth EXCEPT ![t] = @ - 1]
        /\ Return(t)
     \/ /\ lock.own = Held(t) /\ (mtype = "RECURSIVE" => count = 0)
        /\ seen' = [seen EXCEPT ![t] = (waiters # 0)]
        /\ depth' = [depth EXCEPT ![t] = 0]
        /\ Goto(t, "swap")
        /\ UNCHANGED <<count, r>>
  /\ UNCHANGED <<mtype, lock, waiters, sleepers, left>>

\* Mutant: only the stale sample of _m_waiters decides about the wake.
SwapIgnoresCont(t) ==
  /\ pc[t] = "swap"
  /\ lock' = Free
  /\ IF seen[t] THEN Move(t, "wake") ELSE Return(t)
  /\ UNCHANGED <<waiters, count, sleepers, op, depth, left>>

\* cont = a_swap(&m->_m_lock, 0); the wake is due if waiters || cont < 0.
Swap(t) ==
  /\ pc[t] = "swap"
  /\ lock' = Free
  /\ IF seen[t] \/ lock.cont THEN Move(t, "wake") ELSE Return(t)
  /\ UNCHANGED <<waiters, count, sleepers, op, depth, left>>

\* __wake(&m->_m_lock, 1, priv)
WakeOne(t) ==
  /\ pc[t] = "wake"
  /\ sleepers' \in Wake(sleepers, 1)
  /\ Return(t)
  /\ UNCHANGED <<lock, waiters, count, op, depth, left>>

\* pthread_exit reaches the robust list.  Only a mutex with an owner is on it;
\* a NORMAL mutex stays locked for ever.
Exit(t) ==
  /\ pc[t] = "idle" /\ t \in Dying
  /\ IF lock.own = t
     THEN /\ Goto(t, "exit")
          /\ seen' = [seen EXCEPT ![t] = (waiters # 0)]
          /\ UNCHANGED r
     ELSE Move(t, "dead")
  /\ UNCHANGED <<mtype, lock, waiters, count, sleepers, op, depth, left>>

\* cont = a_swap(&m->_m_lock, 0x40000000)
ExitSwap(t) ==
  /\ pc[t] = "exit"
  /\ lock' = [own |-> Orphan, cont |-> FALSE]
  /\ Move(t, IF seen[t] \/ lock.cont THEN "exitwake" ELSE "dead")
  /\ UNCHANGED <<waiters, count, sleepers, op, depth, left>>

ExitWake(t) ==
  /\ pc[t] = "exitwake"
  /\ sleepers' \in Wake(sleepers, 1)
  /\ Move(t, "dead")
  /\ UNCHANGED <<lock, waiters, count, op, depth, left>>

-----------------------------------------------------------------------------
\* One step of a call in progress.
Step(t) ==
  /\ \/ TryNormal(t) \/ TryOwned(t) \/ TryOwner(t) \/ TryWaiters(t) \/ TryCas(t)
     \/ Load(t) \/ IncWaiters(t) \/ MarkContended(t)
     \/ Wait(t) \/ Woken(t) \/ Recheck(t) \/ DecWaiters(t)
     \/ Swap(t) \/ WakeOne(t) \/ ExitSwap(t) \/ ExitWake(t)
  /\ UNCHANGED mtype

\* A thread has exited with the mutex, which nobody gets any more.
Abandoned == lock.own = Orphan \/ \E u \in Threads : pc[u] = "dead" /\ depth[u] > 0

\* Everyone is done; with an abandoned mutex some wait for ever.
Finished ==
  /\ \A t \in Threads :
       \/ pc[t] = "idle" /\ left[t] = 0 /\ depth[t] = 0
       \/ pc[t] = "dead"
       \/ t \in sleepers /\ Abandoned
  /\ UNCHANGED vars

Next ==
  \/ \E t \in Threads :
       \/ Step(t)
       \/ \E o \in Ops \ {"unlock"} : CallLock(t, o)
       \/ CallUnlock(t) \/ SpuriousWake(t) \/ Timeout(t) \/ Exit(t)
  \/ Finished

\* A thread that runs keeps running, and a holder sooner or later unlocks.
Fairness ==
  \A t \in Threads : WF_vars(Step(t)) /\ WF_vars(depth[t] > 0 /\ CallUnlock(t))

Spec == Init /\ [][Next]_vars /\ Fairness
-----------------------------------------------------------------------------
\* At most one thread is between a successful lock and its unlock, whatever
\* mix of lock, trylock, timedlock, timeouts and exits runs: the guarantee of
\* pthread_mutex_lock.
MutualExclusion ==
  \A t, u \in Threads : depth[t] > 0 /\ depth[u] > 0 => t = u

\* The threads that will try the lock again or wake someone without help.
Rescuers ==
  {t \in Threads :
     \/ pc[t] \in {"try", "trywaiters", "trycas", "load", "inc", "mark", "wait",
                 "wake"}
     \/ pc[t] = "sleep" /\ t \notin sleepers
     \/ pc[t] = "dec" /\ ~ seen[t]}

\* No lost wake-up: while the mutex is free, a thread asleep in timedlock has
\* somebody awake who will take the mutex or wake a sleeper, although unlock
\* samples _m_waiters before it releases and timed waiters come and go.
NoStrandedWaiter == lock = Free /\ sleepers # {} => Rescuers # {}

\* Every call comes back once the holders unlock (MaxCalls bounds barging),
\* also when threads exit, unless one exits with the mutex.
EveryCallReturns ==
  \A t \in Threads : pc[t] # "idle" ~> pc[t] \in {"idle", "dead"} \/ Abandoned

\* The recursion count is one less than the locks the owner holds, and is
\* zero whenever the mutex changes hands (trylock_owner never resets it); it
\* stops at its limit with EAGAIN.
RecursionBalance ==
  /\ count <= CountMax
  /\ lock.own = None => count = 0
  /\ \A t \in Threads : lock.own = t /\ pc[t] # "swap" => depth[t] = count + 1
=============================================================================
