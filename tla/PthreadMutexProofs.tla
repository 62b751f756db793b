------------------------- MODULE PthreadMutexProofs -------------------------
(***************************************************************************)
(* Proofs about PthreadMutex, for any set of threads, any mutex type and   *)
(* any bounds.  Mutual exclusion alone is not inductive: a thread that has *)
(* begun to unlock no longer holds the mutex but has not released the lock *)
(* word yet, and an unlock of a RECURSIVE mutex releases it only if the    *)
(* count and the history of the owner agree.  IInv adds both.              *)
(***************************************************************************)
EXTENDS PthreadMutex, FiniteSetTheorems, TLAPS

\* t is responsible for the lock word being taken.
Responsible(t) == depth[t] > 0 \/ pc[t] \in {"swap", "exit"}

\* A responsible thread's mark is in the lock word, unless it has orphaned it.
MarkInWord ==
  \A t \in Threads : Responsible(t) =>
     lock.own = IF pc[t] \in {"exitwake", "dead"} /\ mtype # "NORMAL"
                THEN Orphan ELSE Held(t)

\* An owner's tid in the lock word is that of a responsible thread.
OwnerResponsible == \A t \in Threads : lock.own = t => Responsible(t)

OneResponsible ==
  \A t, u \in Threads : Responsible(t) /\ Responsible(u) => t = u

\* The count is zero whenever it is not in use.
CountAtRest ==
  /\ mtype # "RECURSIVE" => count = 0
  /\ \A t \in Threads : pc[t] = "swap" => count = 0 /\ depth[t] = 0
  /\ \A t \in Threads : pc[t] = "exit" => depth[t] > 0 /\ mtype # "NORMAL"

IInv ==
  /\ TypeOK
  /\ MarkInWord
  /\ OwnerResponsible
  /\ OneResponsible
  /\ RecursionBalance
  /\ CountAtRest

-----------------------------------------------------------------------------
LEMMA InitIInv == Init => IInv
BY MutexAssumption
DEF MutexAssumption, Init, IInv, TypeOK, MarkInWord, OwnerResponsible, OneResponsible, Responsible,
    RecursionBalance, CountAtRest, Free, Word, Owners, Ops, Labels

\* Steps that take the mutex: the lock word was Free, so nobody was responsible.
LEMMA TakeLockIInv ==
  ASSUME IInv, mtype' = mtype, NEW t \in Threads, NEW c \in BOOLEAN, lock = Free,
         pc[t] \in {"try", "trycas"}, TakeLock(t, c)
  PROVE  IInv'
<1>1. \A u \in Threads : ~ Responsible(u)
  BY MutexAssumption DEF MutexAssumption, IInv, MarkInWord, Free, Held, Busy, Orphan, Responsible, TypeOK
<1>2. TypeOK'
  BY DEF IInv, TypeOK, TakeLock, Return, Goto, Held, Word, Owners, Free, Labels, Busy
<1>3. \A u \in Threads : Responsible(u)' => u = t
  BY <1>1 DEF IInv, TypeOK, Responsible, TakeLock, Return, Goto
<1>4. QED
  BY <1>1, <1>2, <1>3, MutexAssumption
  DEF MutexAssumption, IInv, TypeOK, MarkInWord, OwnerResponsible, OneResponsible, Responsible,
      RecursionBalance, CountAtRest, TakeLock, Return, Goto, Held, Busy, Free

\* Steps that leave the owner, the count and every depth alone and move the
\* thread between labels that carry no responsibility.
LEMMA QuietIInv ==
  ASSUME IInv, TypeOK', NEW t \in Threads, NEW l,
         lock'.own = lock.own, UNCHANGED <<mtype, count, depth>>,
         pc' = [pc EXCEPT ![t] = l],
         pc[t] \notin {"swap", "exit", "exitwake", "dead"},
         l \notin {"swap", "exit", "exitwake"},
         l = "dead" => mtype = "NORMAL" \/ lock.own # t
  PROVE  IInv'
BY DEF IInv, TypeOK, MarkInWord, OwnerResponsible, OneResponsible, Responsible,
       RecursionBalance, CountAtRest, Held

LEMMA FreeWord == Free \in Word
BY DEF Free, Word, Owners

LEMMA MoveTyped ==
  ASSUME TypeOK, NEW t \in Threads, NEW l \in Labels, Move(t, l)
  PROVE  pc' \in [Threads -> Labels] /\ r' \in [Threads -> Word]
         /\ seen' \in [Threads -> BOOLEAN]
BY DEF TypeOK, Move, Goto

LEMMA ReturnTyped ==
  ASSUME TypeOK, NEW t \in Threads, Return(t)
  PROVE  pc' \in [Threads -> Labels] /\ r' \in [Threads -> Word]
         /\ seen' \in [Threads -> BOOLEAN]
BY FreeWord DEF TypeOK, Return, Goto, Labels

LEMMA FailTryIInv ==
  ASSUME IInv, mtype' = mtype, NEW t \in Threads, pc[t] \in {"try", "trycas"}, FailTry(t)
  PROVE  IInv'
<1>1. TypeOK'
  BY MoveTyped, ReturnTyped DEF IInv, TypeOK, FailTry, Labels
<1>2. QED
  BY <1>1, QuietIInv DEF FailTry, Return, Move, Goto

\* The end of a wait touches nothing but the thread's own variables.
LEMMA EndWaitIInv ==
  ASSUME IInv, mtype' = mtype, NEW t \in Threads, NEW e \in BOOLEAN,
         sleepers' \subseteq Threads,
         pc[t] \in {"wait", "sleep", "recheck"}, EndWait(t, e)
  PROVE  IInv'
<1>1. TypeOK'
  BY MutexAssumption
  DEF MutexAssumption, IInv, TypeOK, EndWait, Goto, Free, Word, Owners, Labels
<1>2. QED
  BY <1>1, QuietIInv DEF EndWait, Goto

LEMMA StepIInv ==
  ASSUME IInv, NEW t \in Threads, Step(t)
  PROVE  IInv'
<1>0. mtype' = mtype
  BY DEF Step
<1> USE <1>0, MutexAssumption DEF MutexAssumption
<1>1. CASE TryNormal(t)
  BY <1>1, TakeLockIInv, FailTryIInv DEF TryNormal
<1>2. CASE TryOwned(t)
  <2>1. TypeOK'
    BY <1>2, ReturnTyped DEF IInv, TypeOK, TryOwned
  <2>2. CASE count >= CountMax
    BY <1>2, <2>1, <2>2, QuietIInv DEF TryOwned, Return, Goto
  <2>3. CASE ~ (count >= CountMax)
    <3>1. Responsible(t)
      BY <1>2 DEF IInv, OwnerResponsible, TryOwned
    <3>2. pc'[t] = "idle" /\ \A u \in Threads \ {t} : pc'[u] = pc[u] /\ depth'[u] = depth[u]
      BY <1>2, <2>3 DEF IInv, TypeOK, TryOwned, Return, Goto
    <3>3. count' = count + 1 /\ depth'[t] = depth[t] + 1 /\ lock' = lock
      BY <1>2, <2>3 DEF IInv, TypeOK, TryOwned
    <3>4. \A u \in Threads : Responsible(u)' => u = t
      BY <3>1, <3>2 DEF IInv, OneResponsible, Responsible
    <3>5. QED
      BY <1>2, <2>1, <3>1, <3>2, <3>3, <3>4
      DEF IInv, TypeOK, TryOwned, MarkInWord, OwnerResponsible, OneResponsible,
          Responsible, RecursionBalance, CountAtRest, Held
  <2>4. QED
    BY <2>2, <2>3
<1>3. CASE TryOwner(t)
  <2>1. CASE lock # Free
    BY <1>3, <2>1, FailTryIInv DEF TryOwner
  <2>2. CASE lock = Free
    <3>1. TypeOK'
      BY <1>3, <2>2 DEF IInv, TypeOK, TryOwner, Goto, Labels
    <3>2. QED
      BY <1>3, <2>2, <3>1, QuietIInv DEF TryOwner, Goto
  <2>3. QED
    BY <2>1, <2>2
<1>4. CASE TryWaiters(t)
  <2>1. TypeOK'
    BY <1>4 DEF IInv, TypeOK, TryWaiters, Goto, Labels
  <2>2. QED
    BY <1>4, <2>1, QuietIInv DEF TryWaiters, Goto
<1>5. CASE TryCas(t)
  <2>1. seen[t] \in BOOLEAN
    BY DEF IInv, TypeOK
  <2>2. QED
    BY <1>5, <2>1, TakeLockIInv, FailTryIInv DEF TryCas
<1>6. CASE Load(t)
  <2>1. TypeOK'
    <3>1. "inc" \in Labels /\ "try" \in Labels
      BY DEF Labels
    <3>2. CASE Move(t, "try") \/ Return(t)
      BY <1>6, <3>1, <3>2, MoveTyped, ReturnTyped DEF IInv, TypeOK, Load
    <3>3. CASE Goto(t, "inc") /\ r' = [r EXCEPT ![t] = lock] /\ UNCHANGED seen
      BY <1>6, <3>1, <3>3 DEF IInv, TypeOK, Load, Goto
    <3>4. QED
      BY <1>6, <3>2, <3>3 DEF Load
  <2>2. QED
    BY <1>6, <2>1, QuietIInv DEF Load, Return, Move, Goto
<1>7. CASE IncWaiters(t)
  <2>1. TypeOK'
    BY <1>7 DEF IInv, TypeOK, IncWaiters, Move, Goto, Labels
  <2>2. QED
    BY <1>7, <2>1, QuietIInv DEF IncWaiters, Move, Goto
<1>8. CASE MarkContended(t)
  <2>1. /\ [r[t] EXCEPT !.cont = TRUE] \in Word
        /\ [r[t] EXCEPT !.cont = TRUE].own = r[t].own
    BY DEF IInv, TypeOK, Word
  <2>2. TypeOK'
    BY <1>8, <2>1 DEF IInv, TypeOK, MarkContended, Goto, Labels
  <2>3. lock'.own = lock.own
    BY <1>8, <2>1 DEF MarkContended
  <2>4. QED
    BY <1>8, <2>2, <2>3, QuietIInv DEF MarkContended, Goto
<1>9. CASE Wait(t)
  <2>1. CASE \E e \in BOOLEAN : EndWait(t, e) /\ UNCHANGED sleepers
    BY <1>9, <2>1, EndWaitIInv DEF IInv, TypeOK, Wait
  <2>2. CASE /\ sleepers' = sleepers \cup {t}
             /\ Move(t, "sleep")
             /\ UNCHANGED <<lock, waiters, count, op, depth, left>>
    <3>1. TypeOK'
      BY <2>2 DEF IInv, TypeOK, Move, Goto, Labels
    <3>2. QED
      BY <1>9, <2>2, <3>1, QuietIInv DEF Wait, Move, Goto
  <2>3. QED
    BY <1>9, <2>1, <2>2 DEF Wait
<1>10. CASE Woken(t)
  BY <1>10, EndWaitIInv DEF IInv, TypeOK, Woken
<1>11. CASE Recheck(t)
  BY <1>11, EndWaitIInv DEF IInv, TypeOK, Recheck
<1>12. CASE DecWaiters(t)
  <2>1. TypeOK'
    <3>1. "try" \in Labels
      BY DEF Labels
    <3>2. QED
      BY <1>12, <3>1, MoveTyped, ReturnTyped DEF IInv, TypeOK, DecWaiters
  <2>2. QED
    BY <1>12, <2>1, QuietIInv DEF DecWaiters, Return, Move, Goto
<1>13. CASE Swap(t)
  <2>1. TypeOK'
    <3>1. "wake" \in Labels
      BY DEF Labels
    <3>2. QED
      BY <1>13, <3>1, FreeWord, MoveTyped, ReturnTyped DEF IInv, TypeOK, Swap
  <2>2. \A u \in Threads : ~ Responsible(u)'
    BY <1>13 DEF IInv, TypeOK, OneResponsible, Responsible, Swap, Return, Move, Goto,
                 CountAtRest
  <2>3. QED
    BY <1>13, <2>1, <2>2
    DEF IInv, TypeOK, MarkInWord, OwnerResponsible, OneResponsible, Responsible,
        RecursionBalance, CountAtRest, Swap, Return, Move, Goto, Free
<1>14. CASE WakeOne(t)
  <2>1. TypeOK'
    BY <1>14, ReturnTyped DEF IInv, TypeOK, WakeOne, Wake
  <2>2. QED
    BY <1>14, <2>1, QuietIInv DEF WakeOne, Return, Goto
<1>15. CASE ExitSwap(t)
  <2>1. TypeOK'
    BY <1>15 DEF IInv, TypeOK, ExitSwap, Move, Goto, Word, Owners, Labels
  <2>2. QED
    BY <1>15, <2>1
    DEF IInv, TypeOK, MarkInWord, OwnerResponsible, OneResponsible, Responsible,
        RecursionBalance, CountAtRest, ExitSwap, Move, Goto, Held, Busy, Orphan
<1>16. CASE ExitWake(t)
  <2>1. TypeOK'
    BY <1>16 DEF IInv, TypeOK, ExitWake, Wake, Move, Goto, Labels
  <2>2. QED
    BY <1>16, <2>1
    DEF IInv, TypeOK, MarkInWord, OwnerResponsible, OneResponsible, Responsible,
        RecursionBalance, CountAtRest, ExitWake, Move, Goto, Held
<1>17. QED
  BY <1>1, <1>2, <1>3, <1>4, <1>5, <1>6, <1>7, <1>8, <1>9, <1>10, <1>11, <1>12,
     <1>13, <1>14, <1>15, <1>16 DEF Step


LEMMA NextIInv == IInv /\ [Next]_vars => IInv'
<1> SUFFICES ASSUME IInv, [Next]_vars PROVE IInv'
  OBVIOUS
<1> USE MutexAssumption DEF MutexAssumption
<1>1. ASSUME NEW t \in Threads, Step(t) PROVE IInv'
  BY <1>1, StepIInv
<1>2. ASSUME NEW t \in Threads, NEW o \in Ops \ {"unlock"}, CallLock(t, o) PROVE IInv'
  <2>1. TypeOK'
    <3>1. "try" \in Labels
      BY DEF Labels
    <3>2. left' \in [Threads -> Nat]
      BY <1>2 DEF IInv, TypeOK, CallLock
    <3>3. QED
      BY <1>2, <3>1, <3>2, MoveTyped DEF IInv, TypeOK, CallLock
  <2>2. QED
    BY <1>2, <2>1, QuietIInv DEF CallLock, Move, Goto
<1>3. ASSUME NEW t \in Threads, CallUnlock(t) PROVE IInv'
  <2>1. CASE Return(t) /\ UNCHANGED <<count, depth>>              \* EPERM
    <3>1. TypeOK'
      BY <1>3, <2>1, ReturnTyped DEF IInv, TypeOK, CallUnlock, Ops
    <3>2. QED
      BY <1>3, <2>1, <3>1, QuietIInv DEF CallUnlock, Return, Goto
  <2>2. CASE /\ mtype = "RECURSIVE" /\ lock.own = t /\ count > 0
             /\ count' = count - 1
             /\ depth' = [depth EXCEPT ![t] = @ - 1]
             /\ Return(t)
    <3>1. depth[t] = count + 1 /\ pc[t] = "idle" /\ Responsible(t)
      BY <1>3, <2>2 DEF IInv, RecursionBalance, OwnerResponsible, CallUnlock
    <3>2. TypeOK'
      BY <1>3, <2>2, <3>1, ReturnTyped DEF IInv, TypeOK, CallUnlock, Ops
    <3>3. pc'[t] = "idle" /\ \A u \in Threads \ {t} : pc'[u] = pc[u] /\ depth'[u] = depth[u]
      BY <2>2 DEF IInv, TypeOK, Return, Goto
    <3>4. depth'[t] = count' + 1 /\ depth'[t] > 0 /\ lock' = lock /\ mtype' = mtype
      BY <1>3, <2>2, <3>1 DEF IInv, TypeOK, CallUnlock
    <3>5. \A u \in Threads : Responsible(u)' => u = t
      BY <3>1, <3>3 DEF IInv, OneResponsible, Responsible
    <3>6. QED
      BY <2>2, <3>1, <3>2, <3>3, <3>4, <3>5
      DEF IInv, TypeOK, MarkInWord, OwnerResponsible, OneResponsible,
          Responsible, RecursionBalance, CountAtRest, Held
  <2>3. CASE /\ lock.own = Held(t) /\ (mtype = "RECURSIVE" => count = 0)
             /\ seen' = [seen EXCEPT ![t] = (waiters # 0)]
             /\ depth' = [depth EXCEPT ![t] = 0]
             /\ Goto(t, "swap")
             /\ UNCHANGED <<count, r>>
    <3>1. TypeOK'
      BY <1>3, <2>3 DEF IInv, TypeOK, CallUnlock, Goto, Labels, Ops
    <3>2. pc[t] = "idle" /\ Responsible(t)
      BY <1>3, <2>3 DEF IInv, OwnerResponsible, CallUnlock, Held, Responsible
    <3>3. /\ pc'[t] = "swap" /\ depth'[t] = 0
          /\ \A u \in Threads \ {t} : pc'[u] = pc[u] /\ depth'[u] = depth[u]
      BY <2>3 DEF IInv, TypeOK, Goto
    <3>4. lock' = lock /\ mtype' = mtype /\ count' = count /\ count = 0
      BY <1>3, <2>3 DEF IInv, CountAtRest, CallUnlock
    <3>5. \A u \in Threads : Responsible(u)' => u = t
      BY <3>2, <3>3 DEF IInv, OneResponsible, Responsible
    <3>6. QED
      BY <2>3, <3>1, <3>2, <3>3, <3>4, <3>5
      DEF IInv, TypeOK, MarkInWord, OwnerResponsible, OneResponsible,
          Responsible, RecursionBalance, CountAtRest, Held
  <2>4. QED
    BY <1>3, <2>1, <2>2, <2>3 DEF CallUnlock
<1>4. ASSUME NEW t \in Threads, SpuriousWake(t) PROVE IInv'
  BY <1>4 DEF IInv, TypeOK, MarkInWord, OwnerResponsible, OneResponsible,
              Responsible, RecursionBalance, CountAtRest, SpuriousWake, Held
<1>5. ASSUME NEW t \in Threads, Timeout(t) PROVE IInv'
  <2>1. TypeOK'
    BY <1>5 DEF IInv, TypeOK, Timeout, Move, Goto, Labels
  <2>2. QED
    BY <1>5, <2>1, QuietIInv DEF Timeout, Move, Goto
<1>6. ASSUME NEW t \in Threads, Exit(t) PROVE IInv'
  <2>1. TypeOK'
    BY <1>6 DEF IInv, TypeOK, Exit, Move, Goto, Labels
  <2>2. CASE lock.own # t
    BY <1>6, <2>1, <2>2, QuietIInv DEF Exit, Move, Goto
  <2>3. CASE lock.own = t
    <3>1. Responsible(t) /\ pc[t] = "idle"
      BY <1>6, <2>3 DEF IInv, OwnerResponsible, Exit
    <3>2. depth[t] > 0
      BY <3>1 DEF Responsible
    <3>3. Held(t) = t
      BY <2>3, <3>1 DEF IInv, MarkInWord
    <3>4. mtype # "NORMAL"
      BY <3>3 DEF Held, Busy
    <3>5. QED
      BY <1>6, <2>1, <2>3, <3>2, <3>4
      DEF IInv, TypeOK, MarkInWord, OwnerResponsible, OneResponsible,
          Responsible, RecursionBalance, CountAtRest, Held, Exit, Goto
  <2>4. QED
    BY <2>2, <2>3
<1>7. CASE Finished \/ UNCHANGED vars
  BY <1>7 DEF IInv, TypeOK, MarkInWord, OwnerResponsible, OneResponsible,
              Responsible, RecursionBalance, CountAtRest, Finished, vars, Held
<1>8. QED
  BY <1>1, <1>2, <1>3, <1>4, <1>5, <1>6, <1>7 DEF Next

-----------------------------------------------------------------------------
\* The inductive invariant holds in every reachable state of the mutex.
THEOREM Invariance == Spec => []IInv
BY InitIInv, NextIInv, PTL DEF Spec

\* The mutex's variables keep their types: in particular the recursion count
\* of trylock_owner and unlock stays between 0 and its limit.
THEOREM TypeCorrect == Spec => []TypeOK
<1>1. IInv => TypeOK
  BY DEF IInv
<1>2. QED
  BY <1>1, Invariance, PTL

\* pthread_mutex_lock, _trylock and _timedlock never let two threads in.
THEOREM MutexSafe == Spec => []MutualExclusion
<1>1. IInv => MutualExclusion
  BY DEF IInv, OneResponsible, Responsible, MutualExclusion
<1>2. QED
  BY <1>1, Invariance, PTL

\* The count of a RECURSIVE mutex agrees with the locks its owner holds.
THEOREM CountCorrect == Spec => []RecursionBalance
<1>1. IInv => RecursionBalance
  BY DEF IInv
<1>2. QED
  BY <1>1, Invariance, PTL

-----------------------------------------------------------------------------
(***************************************************************************)
(* No lost wake-up.  Unlock decides about the wake from _m_waiters, which  *)
(* it read before it released the word, and from the bit it then finds in  *)
(* the word.  Between the two a thread may start to wait; but it sleeps    *)
(* only on a word with the bit set, and the bit stays until the swap       *)
(* (ReleaseWakes).  Once the word is free somebody is committed to it:     *)
(* such a thread can no longer time out, and takes the word or passes the  *)
(* wake-up on (FreeRescued).                                               *)
(***************************************************************************)

WaitLabels == {"mark", "wait", "sleep", "recheck", "dec"}
Waiting == {t \in Threads : pc[t] \in WaitLabels}

\* _m_waiters is exact.
WaitersExact == waiters = Cardinality(Waiting)

SleepersAsleep == \A t \in sleepers : pc[t] = "sleep"

WaitsOnBit == \A t \in Threads : pc[t] = "wait" => r[t].cont

\* Whoever is about to release the word has seen a waiter or will see the bit.
ReleaseWakes ==
  lock # Free /\ sleepers # {} =>
    lock.cont \/ \A t \in Threads : pc[t] \in {"swap", "exit"} => seen[t]

Committed(t) ==
  \/ pc[t] \in {"try", "trywaiters", "trycas", "load", "wake"}
  \/ pc[t] = "sleep" /\ t \notin sleepers
  \/ pc[t] = "dec" /\ ~ seen[t]

FreeRescued == lock = Free /\ sleepers # {} => \E t \in Threads : Committed(t)

WakeInv ==
  /\ IInv
  /\ WaitersExact
  /\ SleepersAsleep
  /\ WaitsOnBit
  /\ ReleaseWakes
  /\ FreeRescued

LEMMA WaitingFinite == IsFiniteSet(Waiting)
BY MutexAssumption, FS_Subset DEF MutexAssumption, Waiting

LEMMA SameWaiters ==
  ASSUME WakeInv, NEW t \in Threads, NEW l, pc' = [pc EXCEPT ![t] = l], waiters' = waiters,
         pc[t] \in WaitLabels <=> l \in WaitLabels
  PROVE  WaitersExact'
<1>1. Waiting' = Waiting
  BY DEF WakeInv, IInv, TypeOK, Waiting
<1>2. QED
  BY <1>1 DEF WakeInv, WaitersExact

\* A thread that has counted itself is awake in the queue, so a sleeper makes
\* the count nonzero.
LEMMA SleepersCounted ==
  ASSUME WakeInv, sleepers # {}
  PROVE  waiters # 0
<1>1. PICK t \in sleepers : t \in Waiting
  BY DEF WakeInv, IInv, TypeOK, SleepersAsleep, Waiting, WaitLabels
<1>2. Cardinality(Waiting) # 0
  BY <1>1, WaitingFinite, FS_EmptySet
<1>3. QED
  BY <1>2 DEF WakeInv, WaitersExact

\* A step of t that changes neither the word nor the set of sleepers.
LEMMA QuietWake ==
  ASSUME WakeInv, IInv', NEW t \in Threads, NEW l,
         pc' = [pc EXCEPT ![t] = l],
         \A u \in Threads \ {t} : seen'[u] = seen[u] /\ r'[u] = r[u],
         UNCHANGED <<lock, sleepers>>, t \notin sleepers,
         l \notin {"sleep", "swap", "exit"}, l = "wait" => r'[t].cont,
         WaitersExact',
         lock = Free /\ Committed(t) => Committed(t)'
  PROVE  WakeInv'
<1>1. pc'[t] = l /\ \A u \in Threads \ {t} : pc'[u] = pc[u]
  BY DEF WakeInv, IInv, TypeOK
<1>2. SleepersAsleep' /\ WaitsOnBit'
  BY <1>1 DEF WakeInv, IInv, TypeOK, SleepersAsleep, WaitsOnBit
<1>3. ReleaseWakes'
  BY <1>1 DEF WakeInv, ReleaseWakes, Free
<1>4. FreeRescued'
  <2> SUFFICES ASSUME lock = Free, sleepers # {} PROVE (\E u \in Threads : Committed(u))'
    BY DEF FreeRescued, Free
  <2>1. PICK u \in Threads : Committed(u)
    BY DEF WakeInv, FreeRescued
  <2>2. u # t => Committed(u)'
    BY <1>1, <2>1 DEF Committed
  <2>3. QED
    BY <2>1, <2>2
<1>5. QED
  BY <1>2, <1>3, <1>4 DEF WakeInv

\* A step of t at which it samples _m_waiters and goes on to release the word.
LEMMA SampleWake ==
  ASSUME WakeInv, IInv', NEW t \in Threads, NEW l \in {"swap", "exit"},
         pc[t] = "idle", pc' = [pc EXCEPT ![t] = l],
         seen' = [seen EXCEPT ![t] = (waiters # 0)],
         UNCHANGED <<lock, sleepers, waiters, r>>
  PROVE  WakeInv'
<1>1. pc'[t] = l /\ \A u \in Threads \ {t} : pc'[u] = pc[u] /\ seen'[u] = seen[u]
  BY DEF WakeInv, IInv, TypeOK
<1>2. t \notin sleepers
  BY DEF WakeInv, SleepersAsleep
<1>3. SleepersAsleep' /\ WaitsOnBit'
  BY <1>1, <1>2 DEF WakeInv, IInv, TypeOK, SleepersAsleep, WaitsOnBit
<1>4. ReleaseWakes'
  <2>1. sleepers # {} => seen'[t]
    BY SleepersCounted DEF WakeInv, IInv, TypeOK
  <2>2. QED
    BY <1>1, <2>1 DEF WakeInv, ReleaseWakes, Free
<1>5. FreeRescued'
  <2> SUFFICES ASSUME lock = Free, sleepers # {} PROVE (\E u \in Threads : Committed(u))'
    BY DEF FreeRescued, Free
  <2>1. PICK u \in Threads : Committed(u)
    BY DEF WakeInv, FreeRescued
  <2>2. u # t
    BY <2>1 DEF Committed
  <2>3. Committed(u)'
    BY <1>1, <2>1, <2>2 DEF Committed
  <2>4. QED
    BY <2>3
<1>6. WaitersExact'
  BY SameWaiters DEF WaitLabels
<1>7. QED
  BY <1>3, <1>4, <1>5, <1>6 DEF WakeInv

\* A step that takes the free word: nobody is about to release it.
LEMMA TakeWake ==
  ASSUME WakeInv, IInv', mtype' = mtype, NEW t \in Threads, NEW c \in BOOLEAN, lock = Free,
         pc[t] \in {"try", "trycas"}, TakeLock(t, c)
  PROVE  WakeInv'
<1>1. \A u \in Threads : pc[u] \notin {"swap", "exit"}
  BY MutexAssumption
  DEF MutexAssumption, WakeInv, IInv, MarkInWord, Free, Held, Busy, Orphan, Responsible, TypeOK
<1>2. /\ pc' = [pc EXCEPT ![t] = "idle"] /\ UNCHANGED <<sleepers, waiters>>
      /\ r' = [r EXCEPT ![t] = Free] /\ lock' # Free
  BY MutexAssumption DEF MutexAssumption, TakeLock, Return, Goto, Held, Free, Busy
<1>3. pc'[t] = "idle" /\ \A u \in Threads \ {t} : pc'[u] = pc[u] /\ r'[u] = r[u]
  BY <1>2 DEF WakeInv, IInv, TypeOK
<1>4. SleepersAsleep' /\ WaitsOnBit'
  BY <1>2, <1>3 DEF WakeInv, IInv, TypeOK, SleepersAsleep, WaitsOnBit
<1>5. ReleaseWakes' /\ FreeRescued'
  BY <1>1, <1>2, <1>3 DEF ReleaseWakes, FreeRescued, Free
<1>6. WaitersExact'
  BY <1>2, SameWaiters DEF WaitLabels
<1>7. QED
  BY <1>4, <1>5, <1>6 DEF WakeInv

\* trylock fails only when the word is taken.
LEMMA FailTryWake ==
  ASSUME WakeInv, IInv', NEW t \in Threads, lock # Free,
         pc[t] \in {"try", "trycas"}, FailTry(t)
  PROVE  WakeInv'
<1>1. t \notin sleepers
  BY DEF WakeInv, SleepersAsleep
<1>2. PICK l \in {"idle", "load"} : pc' = [pc EXCEPT ![t] = l]
  BY DEF FailTry, Return, Move, Goto
<1>3. /\ \A u \in Threads \ {t} : seen'[u] = seen[u] /\ r'[u] = r[u]
      /\ UNCHANGED <<lock, sleepers, waiters>>
  BY DEF FailTry, Return, Move, WakeInv, IInv, TypeOK
<1>4. WaitersExact'
  BY <1>2, <1>3, SameWaiters DEF WaitLabels
<1>5. QED
  BY <1>1, <1>2, <1>3, <1>4, QuietWake

\* The end of a wait: with ETIMEDOUT only from a thread that is not committed,
\* or when the word is taken.
LEMMA EndWaitWake ==
  ASSUME WakeInv, IInv', NEW t \in Threads, NEW e \in BOOLEAN, UNCHANGED sleepers,
         pc[t] \in {"wait", "sleep", "recheck"}, t \notin sleepers, EndWait(t, e),
         e => lock # Free \/ ~ Committed(t)
  PROVE  WakeInv'
<1>1. /\ pc' = [pc EXCEPT ![t] = "dec"]
      /\ \A u \in Threads \ {t} : seen'[u] = seen[u] /\ r'[u] = r[u]
      /\ seen'[t] = e /\ UNCHANGED <<lock, waiters>>
  BY DEF EndWait, Goto, WakeInv, IInv, TypeOK
<1>2. lock = Free /\ Committed(t) => Committed(t)'
  BY <1>1 DEF Committed, WakeInv, IInv, TypeOK
<1>3. WaitersExact'
  BY <1>1, SameWaiters DEF WaitLabels
<1>4. QED
  BY <1>1, <1>2, <1>3, QuietWake

\* __wake(.., 1): somebody is woken if anybody sleeps.
LEMMA WakesSomebody ==
  ASSUME NEW S, IsFiniteSet(S), NEW R \in Wake(S, 1)
  PROVE  R \subseteq S /\ (S # {} => \E u \in S : u \notin R)
<1>1. R \subseteq S
  BY DEF Wake
<1>2. ASSUME S # {}, R = S PROVE FALSE
  <2>1. Cardinality(S) # 0 /\ Cardinality(S) \in Nat
    BY <1>2, FS_EmptySet, FS_CardinalityType
  <2>2. Cardinality(S \ R) = 0
    BY <1>2, FS_EmptySet
  <2>3. QED
    BY <2>1, <2>2 DEF Wake
<1>3. QED
  BY <1>1, <1>2

LEMMA StepWake ==
  ASSUME WakeInv, NEW t \in Threads, Step(t)
  PROVE  WakeInv'
<1>0. IInv /\ IInv' /\ mtype' = mtype
  BY StepIInv DEF WakeInv, Step
<1>a. pc[t] # "sleep" => t \notin sleepers
  BY DEF WakeInv, SleepersAsleep
<1>1. CASE TryNormal(t)
  BY <1>0, <1>1, TakeWake, FailTryWake DEF TryNormal
<1>2. CASE TryOwned(t)
  <2>1. /\ pc' = [pc EXCEPT ![t] = "idle"] /\ UNCHANGED <<lock, sleepers, waiters>>
        /\ \A u \in Threads \ {t} : seen'[u] = seen[u] /\ r'[u] = r[u]
    BY <1>0, <1>2 DEF TryOwned, Return, Goto, IInv, TypeOK
  <2>2. lock # Free
    BY <1>2, MutexAssumption DEF MutexAssumption, TryOwned, Free
  <2>3. WaitersExact'
    BY <1>2, <2>1, SameWaiters DEF WaitLabels, TryOwned
  <2>4. QED
    BY <1>0, <1>a, <1>2, <2>1, <2>2, <2>3, QuietWake DEF TryOwned
<1>3. CASE TryOwner(t)
  <2>1. CASE lock # Free
    BY <1>0, <1>3, <2>1, FailTryWake DEF TryOwner
  <2>2. CASE lock = Free
    <3>1. PICK l \in {"trywaiters", "trycas"} : pc' = [pc EXCEPT ![t] = l]
      BY <1>3, <2>2 DEF TryOwner, Goto
    <3>2. /\ \A u \in Threads \ {t} : seen'[u] = seen[u] /\ r'[u] = r[u]
          /\ UNCHANGED <<lock, sleepers, waiters>>
      BY <1>0, <1>3, <2>2 DEF TryOwner, IInv, TypeOK
    <3>3. WaitersExact' /\ Committed(t)'
      BY <1>0, <1>3, <3>1, <3>2, SameWaiters DEF WaitLabels, TryOwner, Committed, IInv, TypeOK
    <3>4. QED
      BY <1>0, <1>a, <1>3, <3>1, <3>2, <3>3, QuietWake DEF TryOwner
  <2>3. QED
    BY <2>1, <2>2
<1>4. CASE TryWaiters(t)
  <2>1. /\ pc' = [pc EXCEPT ![t] = "trycas"] /\ UNCHANGED <<lock, sleepers, waiters>>
        /\ \A u \in Threads \ {t} : seen'[u] = seen[u] /\ r'[u] = r[u]
    BY <1>0, <1>4 DEF TryWaiters, Goto, IInv, TypeOK
  <2>2. WaitersExact' /\ Committed(t)'
    BY <1>0, <1>4, <2>1, SameWaiters DEF WaitLabels, TryWaiters, Committed, IInv, TypeOK
  <2>3. QED
    BY <1>0, <1>a, <1>4, <2>1, <2>2, QuietWake DEF TryWaiters
<1>5. CASE TryCas(t)
  <2>1. seen[t] \in BOOLEAN
    BY <1>0 DEF IInv, TypeOK
  <2>2. QED
    BY <1>0, <1>5, <2>1, TakeWake, FailTryWake DEF TryCas
<1>6. CASE Load(t)
  <2>1. PICK l \in {"try", "idle", "inc"} : pc' = [pc EXCEPT ![t] = l] /\ (lock = Free => l = "try")
    BY <1>6, MutexAssumption DEF MutexAssumption, Load, Move, Return, Goto, Free
  <2>2. /\ \A u \in Threads \ {t} : seen'[u] = seen[u] /\ r'[u] = r[u]
        /\ UNCHANGED <<lock, sleepers, waiters>>
    BY <1>0, <1>6 DEF Load, Move, Return, IInv, TypeOK
  <2>3. WaitersExact' /\ (lock = Free => Committed(t)')
    BY <1>0, <1>6, <2>1, <2>2, SameWaiters DEF WaitLabels, Load, Committed, IInv, TypeOK
  <2>4. QED
    BY <1>0, <1>a, <1>6, <2>1, <2>2, <2>3, QuietWake DEF Load
<1>7. CASE IncWaiters(t)
  <2>1. /\ pc' = [pc EXCEPT ![t] = "mark"] /\ UNCHANGED <<lock, sleepers, seen, r>>
        /\ waiters' = waiters + 1 /\ pc[t] = "inc"
    BY <1>7 DEF IncWaiters, Move, Goto
  <2>2. Waiting' = Waiting \cup {t} /\ t \notin Waiting
    BY <1>0, <2>1 DEF Waiting, WaitLabels, IInv, TypeOK
  <2>3. Cardinality(Waiting \cup {t}) = Cardinality(Waiting) + 1
    BY <2>2, WaitingFinite, FS_AddElement
  <2>4. WaitersExact'
    BY <2>1, <2>2, <2>3 DEF WakeInv, WaitersExact
  <2>5. ~ Committed(t)
    BY <2>1 DEF Committed
  <2>6. QED
    BY <1>0, <1>a, <2>1, <2>4, <2>5, QuietWake
<1>8. CASE MarkContended(t)
  <2> DEFINE w == [r[t] EXCEPT !.cont = TRUE]
  <2>1. /\ pc' = [pc EXCEPT ![t] = "wait"] /\ UNCHANGED <<sleepers, seen, waiters>>
        /\ lock' = (IF lock = r[t] THEN w ELSE lock) /\ r' = [r EXCEPT ![t] = w]
        /\ pc[t] = "mark"
    BY <1>8 DEF MarkContended, Goto
  <2>2. w.cont
    BY <1>0 DEF IInv, TypeOK, Word
  <2>3. /\ pc'[t] = "wait" /\ r'[t] = w
        /\ \A u \in Threads \ {t} : pc'[u] = pc[u] /\ r'[u] = r[u]
    BY <1>0, <2>1 DEF IInv, TypeOK
  <2>4. SleepersAsleep' /\ WaitsOnBit'
    BY <1>0, <1>a, <2>1, <2>2, <2>3 DEF WakeInv, IInv, TypeOK, SleepersAsleep, WaitsOnBit
  <2>5. WaitersExact'
    BY <2>1, SameWaiters DEF WaitLabels
  <2>6. lock'.cont \/ lock' = lock
    BY <2>1, <2>2
  <2>7. ReleaseWakes'
    BY <2>1, <2>3, <2>6 DEF WakeInv, ReleaseWakes, Free
  <2>8. FreeRescued'
    <3> SUFFICES ASSUME lock' = Free, sleepers # {} PROVE (\E u \in Threads : Committed(u))'
      BY <2>1 DEF FreeRescued, Free
    <3>1. lock = Free
      BY <2>6 DEF Free
    <3>2. PICK u \in Threads : Committed(u)
      BY <3>1 DEF WakeInv, FreeRescued
    <3>3. u # t
      BY <2>1, <3>2 DEF Committed
    <3>4. Committed(u)'
      BY <2>1, <2>3, <3>2, <3>3 DEF Committed
    <3>5. QED
      BY <3>4
  <2>9. QED
    BY <1>0, <2>4, <2>5, <2>7, <2>8 DEF WakeInv
<1>9. CASE Wait(t)
  <2>1. pc[t] = "wait" /\ ~ Committed(t) /\ t \notin sleepers
    BY <1>9, <1>a DEF Wait, Committed
  <2>2. CASE \E e \in BOOLEAN : EndWait(t, e) /\ UNCHANGED sleepers
    BY <1>0, <2>1, <2>2, EndWaitWake
  <2>3. CASE /\ lock = r[t] /\ sleepers' = sleepers \cup {t}
             /\ Move(t, "sleep")
             /\ UNCHANGED <<lock, waiters, count, op, depth, left>>
    <3>1. lock.cont
      BY <2>1, <2>3 DEF WakeInv, WaitsOnBit
    <3>2. lock # Free
      BY <3>1 DEF Free
    <3>3. pc'[t] = "sleep" /\ \A u \in Threads \ {t} : pc'[u] = pc[u]
      BY <1>0, <2>3 DEF Move, Goto, IInv, TypeOK
    <3>4. SleepersAsleep' /\ WaitsOnBit'
      BY <1>0, <2>3, <3>3
      DEF WakeInv, IInv, TypeOK, SleepersAsleep, WaitsOnBit, Move
    <3>5. ReleaseWakes' /\ FreeRescued'
      BY <2>3, <3>1, <3>2 DEF ReleaseWakes, FreeRescued, Free
    <3>6. WaitersExact'
      BY <2>1, <2>3, SameWaiters DEF Move, Goto, WaitLabels
    <3>7. QED
      BY <1>0, <3>4, <3>5, <3>6 DEF WakeInv
  <2>4. QED
    BY <1>9, <2>2, <2>3 DEF Wait
<1>10. CASE Woken(t)
  BY <1>0, <1>10, EndWaitWake DEF Woken
<1>11. CASE Recheck(t)
  <2>1. ~ Committed(t) /\ (lock = r[t]) \in BOOLEAN
    BY <1>11 DEF Recheck, Committed
  <2>2. QED
    BY <1>0, <1>a, <1>11, <2>1, EndWaitWake DEF Recheck
<1>12. CASE DecWaiters(t)
  <2>1. PICK l \in {"idle", "try"} : pc' = [pc EXCEPT ![t] = l] /\ (~ seen[t] => l = "try")
    BY <1>12 DEF DecWaiters, Return, Move, Goto
  <2>2. /\ \A u \in Threads \ {t} : seen'[u] = seen[u] /\ r'[u] = r[u]
        /\ UNCHANGED <<lock, sleepers>> /\ waiters' = waiters - 1 /\ pc[t] = "dec"
    BY <1>0, <1>12 DEF DecWaiters, Move, Return, IInv, TypeOK
  <2>3. Waiting' = Waiting \ {t} /\ t \in Waiting
    BY <1>0, <2>1, <2>2 DEF Waiting, WaitLabels, IInv, TypeOK
  <2>4. Cardinality(Waiting \ {t}) = Cardinality(Waiting) - 1
    BY <2>3, WaitingFinite, FS_RemoveElement
  <2>5. WaitersExact'
    BY <2>2, <2>3, <2>4 DEF WakeInv, WaitersExact
  <2>6. Committed(t) => Committed(t)'
    BY <1>0, <2>1, <2>2 DEF Committed, IInv, TypeOK
  <2>7. QED
    BY <1>0, <1>a, <2>1, <2>2, <2>5, <2>6, QuietWake
<1>13. CASE Swap(t)
  <2>1. PICK l \in {"wake", "idle"} :
          pc' = [pc EXCEPT ![t] = l] /\ (seen[t] \/ lock.cont => l = "wake")
    BY <1>13 DEF Swap, Move, Return, Goto
  <2>2. /\ pc'[t] = l /\ \A u \in Threads \ {t} : pc'[u] = pc[u] /\ r'[u] = r[u]
        /\ lock' = Free /\ UNCHANGED <<sleepers, waiters>> /\ pc[t] = "swap"
    BY <1>0, <1>13, <2>1 DEF Swap, Move, Return, IInv, TypeOK
  <2>3. SleepersAsleep' /\ WaitsOnBit'
    BY <1>0, <1>a, <2>2 DEF WakeInv, IInv, TypeOK, SleepersAsleep, WaitsOnBit
  <2>4. WaitersExact'
    BY <2>1, <2>2, SameWaiters DEF WaitLabels
  <2>5. lock # Free
    BY <1>0, <2>2, MutexAssumption
    DEF MutexAssumption, IInv, MarkInWord, Responsible, Held, Busy, Free
  <2>6. sleepers # {} => l = "wake"
    BY <2>1, <2>2, <2>5 DEF WakeInv, ReleaseWakes
  <2>7. FreeRescued' /\ ReleaseWakes'
    BY <2>2, <2>6 DEF FreeRescued, ReleaseWakes, Committed, Free
  <2>8. QED
    BY <1>0, <2>3, <2>4, <2>7 DEF WakeInv
<1>14. CASE WakeOne(t)
  <2>1. /\ pc' = [pc EXCEPT ![t] = "idle"] /\ UNCHANGED <<lock, waiters>> /\ pc[t] = "wake"
        /\ pc'[t] = "idle"
        /\ \A u \in Threads \ {t} : pc'[u] = pc[u] /\ r'[u] = r[u] /\ seen'[u] = seen[u]
    BY <1>0, <1>14 DEF WakeOne, Return, Goto, IInv, TypeOK
  <2>2. sleepers' \subseteq sleepers /\ (sleepers # {} => \E u \in sleepers : u \notin sleepers')
    <3>1. IsFiniteSet(sleepers)
      BY <1>0, MutexAssumption, FS_Subset DEF MutexAssumption, IInv, TypeOK
    <3>2. QED
      BY <1>14, <3>1, WakesSomebody DEF WakeOne
  <2>3. SleepersAsleep' /\ WaitsOnBit'
    BY <1>0, <1>a, <2>1, <2>2 DEF WakeInv, IInv, TypeOK, SleepersAsleep, WaitsOnBit
  <2>4. WaitersExact'
    BY <2>1, SameWaiters DEF WaitLabels
  <2>5. ReleaseWakes'
    BY <2>1, <2>2 DEF WakeInv, ReleaseWakes, Free
  <2>6. FreeRescued'
    <3> SUFFICES ASSUME sleepers' # {} PROVE (\E u \in Threads : Committed(u))'
      BY DEF FreeRescued
    <3>1. PICK u \in sleepers : u \notin sleepers'
      BY <2>2
    <3>2. u \in Threads /\ pc[u] = "sleep" /\ u # t
      BY <1>0, <2>1 DEF WakeInv, IInv, TypeOK, SleepersAsleep
    <3>3. Committed(u)'
      BY <2>1, <3>1, <3>2 DEF Committed
    <3>4. QED
      BY <3>2, <3>3
  <2>7. QED
    BY <1>0, <2>3, <2>4, <2>5, <2>6 DEF WakeInv
<1>15. CASE ExitSwap(t)
  <2>1. PICK l \in {"exitwake", "dead"} : pc' = [pc EXCEPT ![t] = l]
    BY <1>15 DEF ExitSwap, Move, Goto
  <2>2. /\ pc'[t] = l /\ \A u \in Threads \ {t} : pc'[u] = pc[u]
        /\ UNCHANGED <<sleepers, waiters, r, seen>> /\ pc[t] = "exit" /\ lock'.own = Orphan
    BY <1>0, <1>15, <2>1 DEF ExitSwap, Move, IInv, TypeOK
  <2>3. \A u \in Threads : pc'[u] \notin {"swap", "exit"}
    BY <1>0, <2>2 DEF IInv, OneResponsible, Responsible
  <2>4. SleepersAsleep' /\ WaitsOnBit'
    BY <1>0, <1>a, <2>2 DEF WakeInv, IInv, TypeOK, SleepersAsleep, WaitsOnBit
  <2>5. WaitersExact'
    BY <2>1, <2>2, SameWaiters DEF WaitLabels
  <2>6. lock' # Free
    BY <2>2, MutexAssumption DEF MutexAssumption, Free, Orphan
  <2>7. ReleaseWakes' /\ FreeRescued'
    BY <2>3, <2>6 DEF ReleaseWakes, FreeRescued, Free
  <2>8. QED
    BY <1>0, <2>4, <2>5, <2>7 DEF WakeInv
<1>16. CASE ExitWake(t)
  <2>1. /\ pc' = [pc EXCEPT ![t] = "dead"] /\ UNCHANGED <<lock, waiters, r, seen>>
        /\ pc[t] = "exitwake" /\ pc'[t] = "dead" /\ \A u \in Threads \ {t} : pc'[u] = pc[u]
        /\ sleepers' \subseteq sleepers
    BY <1>0, <1>16 DEF ExitWake, Wake, Move, Goto, IInv, TypeOK
  <2>2. SleepersAsleep' /\ WaitsOnBit'
    BY <1>0, <1>a, <2>1 DEF WakeInv, IInv, TypeOK, SleepersAsleep, WaitsOnBit
  <2>3. WaitersExact'
    BY <2>1, SameWaiters DEF WaitLabels
  <2>4. ReleaseWakes'
    BY <2>1 DEF WakeInv, ReleaseWakes, Free
  <2>5. FreeRescued'
    <3> SUFFICES ASSUME lock = Free, sleepers' # {} PROVE (\E u \in Threads : Committed(u))'
      BY <2>1 DEF FreeRescued, Free
    <3>1. PICK u \in Threads : Committed(u)
      BY <2>1 DEF WakeInv, FreeRescued
    <3>2. u # t
      BY <2>1, <3>1 DEF Committed
    <3>3. Committed(u)'
      BY <2>1, <3>1, <3>2 DEF Committed
    <3>4. QED
      BY <3>3
  <2>6. QED
    BY <1>0, <2>2, <2>3, <2>4, <2>5 DEF WakeInv
<1>17. QED
  BY <1>1, <1>2, <1>3, <1>4, <1>5, <1>6, <1>7, <1>8, <1>9, <1>10, <1>11, <1>12,
     <1>13, <1>14, <1>15, <1>16 DEF Step

LEMMA NextWake == WakeInv /\ [Next]_vars => WakeInv'
<1> SUFFICES ASSUME WakeInv, [Next]_vars PROVE WakeInv'
  OBVIOUS
<1>0. IInv /\ IInv'
  BY NextIInv DEF WakeInv
<1>1. ASSUME NEW t \in Threads, NEW o \in Ops, CallLock(t, o) PROVE WakeInv'
  <2>1. /\ pc' = [pc EXCEPT ![t] = "try"] /\ pc[t] = "idle"
        /\ UNCHANGED <<lock, sleepers, waiters, seen, r>>
    BY <1>1 DEF CallLock, Move, Goto
  <2>2. t \notin sleepers /\ ~ Committed(t) /\ WaitersExact'
    BY <2>1, SameWaiters DEF WakeInv, SleepersAsleep, Committed, WaitLabels
  <2>3. QED
    BY <1>0, <2>1, <2>2, QuietWake
<1>2. ASSUME NEW t \in Threads, CallUnlock(t) PROVE WakeInv'
  <2>1. pc[t] = "idle" /\ UNCHANGED <<lock, sleepers, waiters>>
    BY <1>2 DEF CallUnlock
  <2>2. CASE Return(t)
    <3>1. /\ pc' = [pc EXCEPT ![t] = "idle"]
          /\ \A u \in Threads \ {t} : seen'[u] = seen[u] /\ r'[u] = r[u]
      BY <1>0, <2>2 DEF Return, Goto, IInv, TypeOK
    <3>2. t \notin sleepers /\ ~ Committed(t) /\ WaitersExact'
      BY <2>1, <3>1, SameWaiters DEF WakeInv, SleepersAsleep, Committed, WaitLabels
    <3>3. QED
      BY <1>0, <2>1, <3>1, <3>2, QuietWake
  <2>3. CASE ~ Return(t)
    <3>1. /\ pc' = [pc EXCEPT ![t] = "swap"] /\ UNCHANGED r
          /\ seen' = [seen EXCEPT ![t] = (waiters # 0)]
      BY <1>2, <2>3 DEF CallUnlock, Goto
    <3>2. QED
      BY <1>0, <2>1, <3>1, SampleWake
  <2>4. QED
    BY <2>2, <2>3
<1>3. ASSUME NEW t \in Threads,
             \/ SpuriousWake(t)
             \/ Timeout(t)
      PROVE  WakeInv'
  <2>1. /\ UNCHANGED <<lock, waiters, seen, r>> /\ t \in sleepers
        /\ sleepers' = sleepers \ {t} /\ pc[t] = "sleep"
    BY <1>3 DEF SpuriousWake, Timeout, Move, WakeInv, SleepersAsleep
  <2>2. PICK l \in {"sleep", "recheck"} : pc' = [pc EXCEPT ![t] = l]
    <3>1. CASE SpuriousWake(t)
      <4>1. pc' = [pc EXCEPT ![t] = "sleep"]
        BY <1>0, <2>1, <3>1 DEF SpuriousWake, IInv, TypeOK
      <4>2. QED
        BY <4>1
    <3>2. CASE Timeout(t)
      BY <3>2 DEF Timeout, Move, Goto
    <3>3. QED
      BY <1>3, <3>1, <3>2
  <2>3. pc'[t] = l /\ \A u \in Threads \ {t} : pc'[u] = pc[u]
    BY <1>0, <2>2 DEF IInv, TypeOK
  <2>4. SleepersAsleep' /\ WaitsOnBit'
    BY <1>0, <2>1, <2>3 DEF WakeInv, IInv, TypeOK, SleepersAsleep, WaitsOnBit
  <2>5. WaitersExact'
    BY <2>1, <2>2, SameWaiters DEF WaitLabels
  <2>6. ReleaseWakes'
    BY <2>1, <2>3 DEF WakeInv, ReleaseWakes, Free
  <2>7. FreeRescued'
    <3> SUFFICES ASSUME lock = Free, sleepers' # {} PROVE (\E u \in Threads : Committed(u))'
      BY <2>1 DEF FreeRescued, Free
    <3>1. PICK u \in Threads : Committed(u)
      BY <2>1 DEF WakeInv, FreeRescued
    <3>2. u # t
      BY <2>1, <3>1 DEF Committed
    <3>3. Committed(u)'
      BY <2>1, <2>3, <3>1, <3>2 DEF Committed
    <3>4. QED
      BY <3>3
  <2>8. QED
    BY <1>0, <2>4, <2>5, <2>6, <2>7 DEF WakeInv
<1>4. ASSUME NEW t \in Threads, Exit(t) PROVE WakeInv'
  <2>1. pc[t] = "idle" /\ UNCHANGED <<lock, sleepers, waiters, r>>
    BY <1>4 DEF Exit, Move
  <2>2. CASE lock.own = t
    BY <1>0, <1>4, <2>1, <2>2, SampleWake DEF Exit, Goto
  <2>3. CASE lock.own # t
    <3>1. pc' = [pc EXCEPT ![t] = "dead"] /\ UNCHANGED seen
      BY <1>4, <2>3 DEF Exit, Move, Goto
    <3>2. t \notin sleepers /\ ~ Committed(t) /\ WaitersExact'
      BY <2>1, <3>1, SameWaiters DEF WakeInv, SleepersAsleep, Committed, WaitLabels
    <3>3. QED
      BY <1>0, <2>1, <3>1, <3>2, QuietWake
  <2>4. QED
    BY <2>2, <2>3
<1>5. CASE Finished \/ UNCHANGED vars
  <2>1. UNCHANGED <<lock, sleepers, waiters, pc, seen, r>>
    BY <1>5 DEF Finished, vars
  <2>2. QED
    BY <1>0, <2>1
    DEF WakeInv, WaitersExact, Waiting, SleepersAsleep, WaitsOnBit, ReleaseWakes, FreeRescued,
        Committed, Free
<1>6. QED
  BY <1>1, <1>2, <1>3, <1>4, <1>5, StepWake DEF Next

\* No wake-up is lost, for any number of threads and any mix of types, timeouts
\* and exits: while the mutex is free and somebody sleeps on it, a thread is
\* awake that will take the mutex or wake a sleeper.
THEOREM NobodyStranded == Spec => []NoStrandedWaiter
<1>1. Init => WakeInv
  <2> SUFFICES ASSUME Init PROVE WakeInv
    OBVIOUS
  <2>1. Waiting = {} /\ sleepers = {} /\ waiters = 0
    BY DEF Init, Waiting, WaitLabels
  <2>2. QED
    BY <2>1, InitIInv, FS_EmptySet
    DEF Init, WakeInv, WaitersExact, SleepersAsleep, WaitsOnBit, ReleaseWakes, FreeRescued
<1>2. WakeInv => NoStrandedWaiter
  BY DEF WakeInv, FreeRescued, Committed, NoStrandedWaiter, Rescuers
<1>3. QED
  BY <1>1, <1>2, NextWake, PTL DEF Spec

=============================================================================
