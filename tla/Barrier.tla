------------------------------- MODULE Barrier -------------------------------
(***************************************************************************)
(* One pthread_barrier_t, private or process-shared: pthread_barrier_wait  *)
(* and pthread_barrier_destroy.  A private barrier keeps the state of a    *)
(* round in a struct instance on the stack of the first thread to arrive;  *)
(* an instance is named by that thread.  A shared one keeps it in the      *)
(* barrier, and its lock counts the threads that have not left.            *)
(*                                                                         *)
(* Barriers for one thread return at once and are left out.                *)
(***************************************************************************)
EXTENDS ThreadCalls

CONSTANTS
  Null,          \* the null pointer
  Count,         \* the threads of a round
  INT_MIN,       \* the bit pthread_barrier_destroy sets in _b_lock
  BarrierCalls   \* bound: how often each thread waits

ASSUME BarrierAssumption ==
  /\ Null \notin Threads
  /\ Count \in Nat /\ Count > 1
  /\ INT_MIN \in Int /\ INT_MIN < - Count
  /\ BarrierCalls \in [Threads -> Nat]

VARIABLES
  bshared,     \* _b_limit < 0
  bword,       \* the words threads sleep on
  bwaiters,    \* for each, how many say they do (finished has no such count)
  binst,       \* _b_inst
  bcount,      \* the count of each instance
  bmine,       \* the instance each thread uses
  bwait,       \* the word and value it waits for, and the step after
  bval,        \* the value of _b_lock and whether waiters were seen, on leaving
  bserial,     \* the call returns PTHREAD_BARRIER_SERIAL_THREAD
  bentered, bleft, bserials,   \* calls begun, returned, returned with SERIAL
  bdestroy     \* the thread that destroys the barrier

bObject == <<bshared, bword, bwaiters, binst, bcount, bdestroy>>
bLocals == <<bmine, bwait, bval, bserial>>
bHistory == <<bentered, bleft, bserials>>
barrierVars == <<bObject, bLocals, bHistory>>

BLock == <<"_b_lock", Null>>
BCount == <<"_b_count", Null>>
Last(i) == <<"last", i>>
Finished(i) == <<"finished", i>>
BWords == {BLock, BCount} \cup ({"last", "finished"} \X Threads)

NoWait == [on |-> BLock, val |-> 0, then |-> "idle"]

\* pthread_barrier_init
BarrierInit ==
  /\ bshared \in BOOLEAN
  /\ bword = [w \in BWords |-> 0]
  /\ bwaiters = [w \in BWords |-> 0]
  /\ binst = Null
  /\ bcount = [t \in Threads |-> 0]
  /\ bmine = [t \in Threads |-> Null]
  /\ bwait = [t \in Threads |-> NoWait]
  /\ bval = [t \in Threads |-> <<0, FALSE>>]
  /\ bserial = [t \in Threads |-> FALSE]
  /\ bentered = 0 /\ bleft = 0 /\ bserials = 0
  /\ bdestroy = Null

-----------------------------------------------------------------------------
\* a_fetch_add(w, n) and a_store(w, n)
Add(w, n) == bword' = [bword EXCEPT ![w] = @ + n]
Store(w, n) == bword' = [bword EXCEPT ![w] = n]

\* The threads asleep on w.
OnWord(w) == {t \in asleep : bwait[t].on = w}

\* t has nothing more to wait for and goes on with the step it had in mind.
Resume(t) ==
  /\ Goto(t, bwait[t].then)
  /\ bwait' = [bwait EXCEPT ![t] = NoWait]

\* __wait: the busy-wait may see the word change; otherwise count oneself.
BWait(t) ==
  /\ pc[t] = "bwait"
  /\ \/ bword[bwait[t].on] # bwait[t].val /\ Resume(t) /\ UNCHANGED bwaiters
     \/ /\ bwaiters' = [bwaiters EXCEPT ![bwait[t].on] = @ + 1]
        /\ Goto(t, "bsleep") /\ UNCHANGED bwait
  /\ UNCHANGED <<asleep, bshared, bword, binst, bcount, bdestroy, bmine, bval, bserial, bHistory>>

\* Its loop, and the one of a __wait that has no count of waiters.
BSleep(t) ==
  /\ pc[t] \in {"bsleep", "bsleepuncounted"} /\ t \notin asleep
  /\ IF bword[bwait[t].on] = bwait[t].val
     THEN FutexWait(t, TRUE, pc[t]) /\ UNCHANGED bwait
     ELSE /\ IF pc[t] = "bsleep" THEN Goto(t, "bdec") /\ UNCHANGED bwait ELSE Resume(t)
          /\ UNCHANGED asleep
  /\ UNCHANGED <<bObject, bmine, bval, bserial, bHistory>>

BDec(t) ==
  /\ pc[t] = "bdec"
  /\ bwaiters' = [bwaiters EXCEPT ![bwait[t].on] = @ - 1]
  /\ Resume(t)
  /\ UNCHANGED <<asleep, bshared, bword, binst, bcount, bdestroy, bmine, bval, bserial, bHistory>>

\* t will go through __wait(w, its waiters, v), then to the step l.
WillWait(t, w, v, l) == bwait' = [bwait EXCEPT ![t] = [on |-> w, val |-> v, then |-> l]]

\* a_store(&b->_b_lock, 0); if (b->_b_waiters) __wake(&b->_b_lock, 1)
BUnlock(t) ==
  /\ pc[t] = "bunlock"
  /\ Store(BLock, 0)
  /\ Goto(t, "bwaiters")
  /\ UNCHANGED <<asleep, bshared, bwaiters, binst, bcount, bLocals, bHistory, bdestroy>>

BSeeWaiters(t) ==
  /\ pc[t] = "bwaiters"
  /\ IF bwaiters[BLock] # 0 THEN Goto(t, "bunlockwake") /\ UNCHANGED bwait ELSE Resume(t)
  /\ UNCHANGED <<asleep, bObject, bmine, bval, bserial, bHistory>>

BUnlockWake(t) ==
  /\ pc[t] = "bunlockwake"
  /\ WakeUp(OnWord(BLock), 1)
  /\ Resume(t)
  /\ UNCHANGED <<bObject, bmine, bval, bserial, bHistory>>

\* The call returns.
BReturn(t) ==
  /\ Return(t)
  /\ bleft' = bleft + 1
  /\ bserials' = bserials + (IF bserial[t] THEN 1 ELSE 0)
  /\ bmine' = [bmine EXCEPT ![t] = Null]
  /\ bwait' = [bwait EXCEPT ![t] = NoWait]
  /\ bval' = [bval EXCEPT ![t] = <<0, FALSE>>]
  /\ UNCHANGED <<bshared, bwaiters, binst, bserial, bentered, bdestroy>>

-----------------------------------------------------------------------------
(* pthread_barrier_wait, private *)

BarrierCall(t) ==
  /\ Call(t, "barrier", IF bshared THEN "pcas" ELSE "block")
  /\ bserial' = [bserial EXCEPT ![t] = FALSE]
  /\ bentered' = bentered + 1
  /\ UNCHANGED <<bshared, bword, bwaiters, binst, bcount, bmine, bwait, bval, bleft, bserials, bdestroy>>

BTakeLock(t) ==
  /\ pc[t] = "block"
  /\ Store(BLock, 1)
  /\ IF bword[BLock] = 0 THEN Goto(t, "binst") /\ UNCHANGED bwait
     ELSE WillWait(t, BLock, 1, "block") /\ Goto(t, "bwait")
  /\ UNCHANGED <<asleep, bshared, bwaiters, binst, bcount, bmine, bval, bserial, bHistory, bdestroy>>

\* Under the lock the first thread makes the instance ...
BFirst(t) ==
  /\ pc[t] = "binst" /\ binst = Null
  /\ binst' = t
  /\ bcount' = [bcount EXCEPT ![t] = 0]
  /\ bword' = [bword EXCEPT ![Last(t)] = 0, ![Finished(t)] = 0]
  /\ bwaiters' = [bwaiters EXCEPT ![Last(t)] = 0]
  /\ bmine' = [bmine EXCEPT ![t] = t]
  /\ bserial' = [bserial EXCEPT ![t] = TRUE]
  /\ WillWait(t, BLock, 0, "bownerinc")
  /\ Goto(t, "bunlock")
  /\ UNCHANGED <<asleep, bshared, bval, bHistory, bdestroy>>

\* Mutant: the last one to arrive leaves the instance in the barrier.
BArriveKeepsInst(t) ==
  /\ pc[t] = "binst" /\ binst # Null
  /\ bmine' = [bmine EXCEPT ![t] = binst]
  /\ bcount' = [bcount EXCEPT ![binst] = @ + 1]
  /\ WillWait(t, BLock, 0, IF bcount[binst] + 1 = Count - 1 THEN "blast" ELSE "bothers")
  /\ Goto(t, "bunlock")
  /\ UNCHANGED <<asleep, bshared, bword, bwaiters, binst, bval, bserial, bHistory, bdestroy>>

\* ... the others count themselves, and the last one takes it out.
BArrive(t) ==
  /\ pc[t] = "binst" /\ binst # Null
  /\ bmine' = [bmine EXCEPT ![t] = binst]
  /\ bcount' = [bcount EXCEPT ![binst] = @ + 1]
  /\ LET last == bcount[binst] + 1 = Count - 1 IN
       /\ binst' = IF last THEN Null ELSE binst
       /\ WillWait(t, BLock, 0, IF last THEN "blast" ELSE "bothers")
  /\ Goto(t, "bunlock")
  /\ UNCHANGED <<asleep, bshared, bword, bwaiters, bval, bserial, bHistory, bdestroy>>

\* Mutant: the owner leaves once the others are on their way out.
OwnerLeavesEarly(t) ==
  /\ pc[t] = "bownerinc"
  /\ bword[Last(t)] = 1
  /\ BReturn(t)
  /\ UNCHANGED <<asleep, bword, bcount>>

\* The owner announces itself and waits for finished to pass 1.
BOwnerInc(t) ==
  /\ pc[t] = "bownerinc"
  /\ Add(Finished(t), 1)
  /\ WillWait(t, Finished(t), 1, "breturnowner")
  /\ Goto(t, "bsleepuncounted")
  /\ UNCHANGED <<asleep, bshared, bwaiters, binst, bcount, bmine, bval, bserial, bHistory, bdestroy>>

\* The instance goes with the stack frame.
BOwnerReturns(t) ==
  /\ pc[t] = "breturnowner"
  /\ BReturn(t)
  /\ bword' = [bword EXCEPT ![Last(t)] = 0, ![Finished(t)] = 0]
  /\ UNCHANGED <<asleep, bcount>>

BLast(t) ==
  /\ pc[t] = "blast"
  /\ Store(Last(bmine[t]), 1)
  /\ Goto(t, "blastwaiters")
  /\ UNCHANGED <<asleep, bshared, bwaiters, binst, bcount, bLocals, bHistory, bdestroy>>

BLastWaiters(t) ==
  /\ pc[t] = "blastwaiters"
  /\ Goto(t, IF bwaiters[Last(bmine[t])] # 0 THEN "blastwake" ELSE "bexit")
  /\ UNCHANGED <<asleep, barrierVars>>

BLastWake(t) ==
  /\ pc[t] = "blastwake"
  /\ WakeAll(OnWord(Last(bmine[t])))
  /\ Goto(t, "bexit")
  /\ UNCHANGED barrierVars

BOthers(t) ==
  /\ pc[t] = "bothers"
  /\ WillWait(t, Last(bmine[t]), 0, "bexit")
  /\ Goto(t, "bwait")
  /\ UNCHANGED <<asleep, bshared, bword, bwaiters, binst, bcount, bmine, bval, bserial, bHistory, bdestroy>>

\* Leaving: the last one out reports to the owner, and wakes it if it waits.
BExit(t) ==
  /\ pc[t] = "bexit"
  /\ bcount' = [bcount EXCEPT ![bmine[t]] = @ - 1]
  /\ IF bcount[bmine[t]] = 1
     THEN Goto(t, "bfinish") /\ UNCHANGED <<bshared, bwaiters, binst, bLocals, bHistory, bdestroy>>
     ELSE BReturn(t)
  /\ UNCHANGED <<asleep, bword>>

BFinish(t) ==
  /\ pc[t] = "bfinish"
  /\ Add(Finished(bmine[t]), 1)
  /\ IF bword[Finished(bmine[t])] # 0
     THEN Goto(t, "bfinishwake") /\ UNCHANGED <<bshared, bwaiters, binst, bLocals, bHistory, bdestroy>>
     ELSE BReturn(t)
  /\ UNCHANGED <<asleep, bcount>>

BFinishWake(t) ==
  /\ pc[t] = "bfinishwake"
  /\ WakeUp(OnWord(Finished(bmine[t])), 1)
  /\ BReturn(t)
  /\ UNCHANGED <<bword, bcount>>

-----------------------------------------------------------------------------
(* pshared_barrier_wait *)

PCas(t) ==
  /\ pc[t] = "pcas"
  /\ IF bword[BLock] = 0
     THEN Store(BLock, Count) /\ Goto(t, "pcount") /\ UNCHANGED bwait
     ELSE WillWait(t, BLock, bword[BLock], "pcas") /\ Goto(t, "bwait") /\ UNCHANGED bword
  /\ UNCHANGED <<asleep, bshared, bwaiters, binst, bcount, bmine, bval, bserial, bHistory, bdestroy>>

\* The last to arrive keeps the lock for the whole round.
PCount(t) ==
  /\ pc[t] = "pcount"
  /\ Add(BCount, 1)
  /\ LET last == bword[BCount] + 1 = Count IN
       /\ bserial' = [bserial EXCEPT ![t] = last]
       /\ WillWait(t, BLock, 0, IF last THEN "pleave" ELSE "parrived")
       /\ Goto(t, IF last THEN "pzero" ELSE "bunlock")
  /\ UNCHANGED <<asleep, bshared, bwaiters, binst, bcount, bmine, bval, bHistory, bdestroy>>

\* a_store(&b->_b_count, 0); if (b->_b_waiters2) __wake(&b->_b_count, -1)
PZero(t) ==
  /\ pc[t] = "pzero"
  /\ Store(BCount, 0)
  /\ Goto(t, "pwaiters2")
  /\ UNCHANGED <<asleep, bshared, bwaiters, binst, bcount, bLocals, bHistory, bdestroy>>

PWaiters2(t) ==
  /\ pc[t] = "pwaiters2"
  /\ IF bwaiters[BCount] # 0 THEN Goto(t, "pwake2") /\ UNCHANGED bwait ELSE Resume(t)
  /\ UNCHANGED <<asleep, bObject, bmine, bval, bserial, bHistory>>

PWake2(t) ==
  /\ pc[t] = "pwake2"
  /\ WakeAll(OnWord(BCount))
  /\ Resume(t)
  /\ UNCHANGED <<bObject, bmine, bval, bserial, bHistory>>

\* while ((v=b->_b_count)>0) and, after everyone has left, while ((v=b->_b_count))
PAwait(t) ==
  /\ pc[t] \in {"parrived", "pleft"}
  /\ LET v == bword[BCount] IN
     IF v > 0 \/ (pc[t] = "pleft" /\ v # 0)
     THEN WillWait(t, BCount, v, pc[t]) /\ Goto(t, "bwait")
     ELSE Goto(t, IF pc[t] = "parrived" THEN "pleave" ELSE "punload") /\ UNCHANGED bwait
  /\ UNCHANGED <<asleep, bshared, bword, bwaiters, binst, bcount, bmine, bval, bserial, bHistory, bdestroy>>

\* The last to leave lets the others go on.
PLeave(t) ==
  /\ pc[t] = "pleave"
  /\ Add(BCount, -1)
  /\ IF bword[BCount] = 1 - Count
     THEN WillWait(t, BLock, 0, "punload") /\ Goto(t, "pzero")
     ELSE Goto(t, "pleft") /\ UNCHANGED bwait
  /\ UNCHANGED <<asleep, bshared, bwaiters, binst, bcount, bmine, bval, bserial, bHistory, bdestroy>>

\* The recursive unlock
PUnload(t) ==
  /\ pc[t] = "punload"
  /\ bval' = [bval EXCEPT ![t] = <<bword[BLock], FALSE>>]
  /\ Goto(t, "punwaiters")
  /\ UNCHANGED <<asleep, bshared, bword, bwaiters, binst, bcount, bmine, bwait, bserial, bHistory, bdestroy>>

PUnwaiters(t) ==
  /\ pc[t] = "punwaiters"
  /\ bval' = [bval EXCEPT ![t][2] = bwaiters[BLock] # 0]
  /\ Goto(t, "puncas")
  /\ UNCHANGED <<asleep, bshared, bword, bwaiters, binst, bcount, bmine, bwait, bserial, bHistory, bdestroy>>

\* Mutant: the thread that destroys the barrier is not woken.
PWakesOther(v, w) == v = 1 /\ w

\* Does the unlock from v wake someone?
PWakes(v, w) == v = INT_MIN + 1 \/ (v = 1 /\ w)

PUncas(t) ==
  LET v == bval[t][1] IN
  /\ pc[t] = "puncas"
  /\ IF bword[BLock] # v
     THEN Goto(t, "punload") /\ UNCHANGED barrierVars
     ELSE /\ Store(BLock, IF v = INT_MIN + 1 THEN 0 ELSE v - 1)
          /\ IF PWakes(v, bval[t][2])
             THEN Goto(t, "punwake") /\ UNCHANGED <<bshared, bwaiters, binst, bcount, bLocals, bHistory, bdestroy>>
             ELSE BReturn(t) /\ UNCHANGED bcount
  /\ UNCHANGED asleep

PUnwake(t) ==
  /\ pc[t] = "punwake"
  /\ WakeUp(OnWord(BLock), 1)
  /\ BReturn(t)
  /\ UNCHANGED <<bword, bcount>>

-----------------------------------------------------------------------------
(* pthread_barrier_destroy *)

\* When the last round is full and over: a private barrier once the calls that
\* got PTHREAD_BARRIER_SERIAL_THREAD have returned, by such a thread; a shared
\* one, whose other threads may still be leaving, once one call of the last
\* round has returned.
DestroyCall(t) ==
  /\ pc[t] = "idle" /\ bdestroy = Null
  /\ \A u \in Threads : left[u] = 0
  /\ IF bshared THEN bentered % Count = 0 /\ bentered - bleft < Count
     ELSE bserial[t] /\ bserials * Count = bentered
  /\ bdestroy' = t
  /\ pc' = [pc EXCEPT ![t] = "destroy"]
  /\ op' = [op EXCEPT ![t] = "destroy"]
  /\ UNCHANGED <<asleep, left, bshared, bword, bwaiters, binst, bcount, bLocals, bHistory>>

\* Only a shared barrier may be in use; then it is marked.
DestroyMark(t) ==
  /\ pc[t] = "destroy"
  /\ IF bshared /\ bword[BLock] # 0
     THEN Goto(t, "destroyor") ELSE Return(t)
  /\ UNCHANGED <<asleep, barrierVars>>

DestroyOr(t) ==
  /\ pc[t] = "destroyor"
  /\ bword' = [bword EXCEPT ![BLock] = IF @ < 0 THEN @ ELSE @ + INT_MIN]
  /\ Goto(t, "destroyload")
  /\ UNCHANGED <<asleep, bshared, bwaiters, binst, bcount, bLocals, bHistory, bdestroy>>

\* while ((v = b->_b_lock) & INT_MAX) __wait(&b->_b_lock, 0, v, 0)
DestroyLoad(t) ==
  /\ pc[t] = "destroyload"
  /\ IF bword[BLock] \in {0, INT_MIN}
     THEN Return(t) /\ UNCHANGED bwait
     ELSE WillWait(t, BLock, bword[BLock], "destroyload") /\ Goto(t, "bsleepuncounted")
  /\ UNCHANGED <<asleep, bshared, bword, bwaiters, binst, bcount, bmine, bval, bserial, bHistory, bdestroy>>

-----------------------------------------------------------------------------
BarrierStep(t) ==
  \/ BWait(t) \/ BSleep(t) \/ BDec(t) \/ BUnlock(t) \/ BSeeWaiters(t) \/ BUnlockWake(t)
  \/ BTakeLock(t) \/ BFirst(t) \/ BArrive(t) \/ BOwnerInc(t) \/ BOwnerReturns(t)
  \/ BLast(t) \/ BLastWaiters(t) \/ BLastWake(t) \/ BOthers(t)
  \/ BExit(t) \/ BFinish(t) \/ BFinishWake(t)
  \/ PCas(t) \/ PCount(t) \/ PZero(t) \/ PWaiters2(t) \/ PWake2(t) \/ PAwait(t)
  \/ PLeave(t) \/ PUnload(t) \/ PUnwaiters(t) \/ PUncas(t) \/ PUnwake(t)
  \/ DestroyMark(t) \/ DestroyOr(t) \/ DestroyLoad(t)

BarrierNext ==
  \E t \in Threads : BarrierCall(t) \/ BarrierStep(t) \/ DestroyCall(t)

\* Every thread makes all its calls.
BarrierFairness ==
  \A t \in Threads : WF_<<threadVars, barrierVars>>(BarrierStep(t) \/ BarrierCall(t))

BarrierSpec ==
  /\ ThreadsInit(BarrierCalls) /\ BarrierInit
  /\ [][BarrierNext]_<<threadVars, barrierVars>>
  /\ BarrierFairness

-----------------------------------------------------------------------------
BarrierTypeOK ==
  /\ bshared \in BOOLEAN
  /\ bword \in [BWords -> Int]
  /\ bwaiters \in [BWords -> Int]
  /\ binst \in Threads \cup {Null}
  /\ bcount \in [Threads -> Int]
  /\ bmine \in [Threads -> Threads \cup {Null}]
  /\ bwait \in [Threads -> [on : BWords, val : Int, then : STRING]]
  /\ bval \in [Threads -> Int \X BOOLEAN]
  /\ bserial \in [Threads -> BOOLEAN]
  /\ bentered \in Nat /\ bleft \in Nat /\ bserials \in Nat
  /\ bdestroy \in Threads \cup {Null}

\* Nobody leaves a round before Count threads have come to it, although the
\* threads of the next round arrive while those of this one are leaving, and
\* each round that is over was PTHREAD_BARRIER_SERIAL_THREAD for one thread.
BarrierRounds ==
  /\ bleft <= Count * (bentered \div Count)
  /\ bserials <= bentered \div Count
  /\ (\A t \in Threads : op[t] # "barrier") => bserials * Count = bleft

\* The steps at which a thread of a private barrier uses the instance.
UsesInstance(t) ==
  \/ pc[t] \in {"blast", "blastwaiters", "bothers", "bexit", "bfinish"}
  \/ pc[t] \in {"bwait", "bsleep", "bdec"} /\ bwait[t].on[1] = "last"
  \/ pc[t] = "binst" /\ binst # Null

\* The steps at which a thread uses the barrier itself.
UsesBarrier(t) ==
  \/ pc[t] \in {"block", "binst", "bunlock", "bwaiters", "pcas", "pcount", "pzero", "pwaiters2",
                "parrived", "pleave", "pleft", "punload", "punwaiters", "puncas"}
  \/ pc[t] \in {"bwait", "bsleep", "bdec"} /\ bwait[t].on \in {BLock, BCount}

\* The instance is on the stack of its owner and the barrier may be freed once
\* it is destroyed: whoever reads or writes one of them finds the owner still
\* in the call, and the barrier not yet destroyed.
BarrierMemoryAlive ==
  \A t \in Threads :
    /\ UsesInstance(t) =>
         LET o == IF pc[t] = "binst" THEN binst ELSE bmine[t]
         IN op[o] = "barrier" /\ bmine[o] = o
    /\ UsesBarrier(t) => ~(bdestroy # Null /\ op[bdestroy] = "none")

\* All calls return when as many threads come as the barrier waits for, and
\* so does the destruction of a barrier that others are still leaving.
BarrierReturns ==
  (\E t \in Threads : op[t] \in {"barrier", "destroy"})
    ~> (\A t \in Threads : op[t] \notin {"barrier", "destroy"})
=============================================================================
