------------------------------- MODULE RWLock -------------------------------
(***************************************************************************)
(* One pthread_rwlock_t: try, timed and plain read and write locks, and    *)
(* unlock.  _rw_lock packs the number of readers, or the mark of a writer, *)
(* and a bit that says that someone sleeps; it is a record [cnt, wait].    *)
(*                                                                         *)
(* The busy-wait loops only read, and so does an attempt that fails: the   *)
(* attempt before the loop and the first one after it are one here.  The   *)
(* plain locks are timed ones without a deadline: since a deadline passes  *)
(* or does not, what they do is what timed ones do that do not time out.   *)
(***************************************************************************)
EXTENDS ThreadCalls

CONSTANTS
  WRITER,    \* 0x7fffffff, which bounds the number of readers
  RwCalls    \* bound: how often each thread locks

ASSUME RWLockAssumption ==
  WRITER \in Nat /\ WRITER > 1 /\ RwCalls \in [Threads -> Nat]

VARIABLES
  rwlock,      \* _rw_lock
  rwwaiters,   \* _rw_waiters
  rwval,       \* the value of _rw_lock each thread has read
  rwseen,      \* unlock: it found _rw_waiters nonzero
  rwheld       \* what the application holds: "none", "read" or "write"

rwVars == <<rwlock, rwwaiters, rwval, rwseen, rwheld>>

Unlocked == [cnt |-> 0, wait |-> FALSE]
RwWord == [cnt : 0 .. WRITER, wait : BOOLEAN]

RwReadOps == {"timedrdlock", "tryrdlock"}
RwWriteOps == {"timedwrlock", "trywrlock"}
RwOps == RwReadOps \cup RwWriteOps \cup {"rwunlock"}

\* pthread_rwlock_init
RwInit ==
  /\ rwlock = Unlocked
  /\ rwwaiters = 0
  /\ rwval = [t \in Threads |-> Unlocked]
  /\ rwseen = [t \in Threads |-> FALSE]
  /\ rwheld = [t \in Threads |-> "none"]

-----------------------------------------------------------------------------
\* The first step of an attempt, and of each turn of the loop.
RwAttempt(o) == IF o \in RwReadOps THEN "rdload" ELSE "wrcas"

RwCall(t, o) ==
  /\ rwheld[t] = "none"
  /\ Call(t, o, RwAttempt(o))
  /\ UNCHANGED rwVars

\* The call returns and its locals are gone.
RwReturn(t) ==
  /\ Return(t)
  /\ rwval' = [rwval EXCEPT ![t] = Unlocked]
  /\ rwseen' = [rwseen EXCEPT ![t] = FALSE]

\* t goes on with the word v in hand.
RwGoto(t, l, v) ==
  /\ Goto(t, l)
  /\ rwval' = [rwval EXCEPT ![t] = v]
  /\ UNCHANGED rwseen

\* An attempt ends with EBUSY.
RwBusy(t) ==
  IF op[t] \in {"tryrdlock", "trywrlock"} THEN RwReturn(t) ELSE RwGoto(t, "rwbusy", Unlocked)

\* Mutant: the reader count may reach the mark of a writer.
RdLoadUnbounded(t) ==
  /\ pc[t] = "rdload"
  /\ IF rwlock.cnt = WRITER THEN RwBusy(t) ELSE RwGoto(t, "rdcas", rwlock)
  /\ UNCHANGED <<asleep, rwlock, rwwaiters, rwheld>>

\* tryrdlock reads the word: EBUSY under a writer, EAGAIN with too many readers.
RdLoad(t) ==
  /\ pc[t] = "rdload"
  /\ \/ rwlock.cnt = WRITER /\ RwBusy(t)
     \/ rwlock.cnt = WRITER - 1 /\ RwReturn(t)
     \/ rwlock.cnt < WRITER - 1 /\ RwGoto(t, "rdcas", rwlock)
  /\ UNCHANGED <<asleep, rwlock, rwwaiters, rwheld>>

RdCas(t) ==
  /\ pc[t] = "rdcas"
  /\ IF rwlock = rwval[t]
     THEN /\ rwlock' = [rwlock EXCEPT !.cnt = @ + 1]
          /\ rwheld' = [rwheld EXCEPT ![t] = "read"]
          /\ RwReturn(t)
     ELSE RwGoto(t, "rdload", Unlocked) /\ UNCHANGED <<rwlock, rwheld>>
  /\ UNCHANGED <<asleep, rwwaiters>>

\* trywrlock
WrCas(t) ==
  /\ pc[t] = "wrcas"
  /\ \/ /\ rwlock = Unlocked
        /\ rwlock' = [cnt |-> WRITER, wait |-> FALSE]
        /\ rwheld' = [rwheld EXCEPT ![t] = "write"]
        /\ RwReturn(t)
     \/ rwlock # Unlocked /\ RwBusy(t) /\ UNCHANGED <<rwlock, rwheld>>
  /\ UNCHANGED <<asleep, rwwaiters>>

\* The loop reads the word again and decides whether it must sleep.
RwLoop(t) ==
  /\ pc[t] = "rwbusy"
  /\ IF IF op[t] \in RwReadOps THEN rwlock.cnt = WRITER ELSE rwlock # Unlocked
     THEN RwGoto(t, "rwinc", rwlock)
     ELSE RwGoto(t, RwAttempt(op[t]), Unlocked)
  /\ UNCHANGED <<asleep, rwlock, rwwaiters, rwheld>>

RwInc(t) ==
  /\ pc[t] = "rwinc"
  /\ rwwaiters' = rwwaiters + 1
  /\ Goto(t, "rwmark")
  /\ UNCHANGED <<asleep, rwlock, rwval, rwseen, rwheld>>

\* The word with the bit is what __timedwait waits on.
RwMark(t) ==
  /\ pc[t] = "rwmark"
  /\ rwlock' = IF rwlock = rwval[t] THEN [rwlock EXCEPT !.wait = TRUE] ELSE rwlock
  /\ RwGoto(t, "rwwait", [rwval[t] EXCEPT !.wait = TRUE])
  /\ UNCHANGED <<asleep, rwwaiters, rwheld>>

RwWait(t) ==
  /\ pc[t] = "rwwait"
  /\ FutexWait(t, rwlock = rwval[t], "rwdec")
  /\ UNCHANGED rwVars

\* The deadline passes before or during the sleep.
RwTimeout(t) ==
  /\ pc[t] = "rwwait" \/ (pc[t] = "rwdec" /\ t \in asleep)
  /\ asleep' = asleep \ {t}
  /\ Goto(t, "rwgiveup")
  /\ UNCHANGED rwVars

RwDec(t) ==
  /\ pc[t] \in {"rwdec", "rwgiveup"} /\ t \notin asleep
  /\ rwwaiters' = rwwaiters - 1
  /\ IF pc[t] = "rwgiveup" THEN RwReturn(t) ELSE RwGoto(t, RwAttempt(op[t]), Unlocked)
  /\ UNCHANGED <<asleep, rwlock, rwheld>>

-----------------------------------------------------------------------------
(* unlock *)

RwCallUnlock(t) ==
  /\ pc[t] = "idle" /\ rwheld[t] # "none"
  /\ pc' = [pc EXCEPT ![t] = "unload"]
  /\ op' = [op EXCEPT ![t] = "rwunlock"]
  /\ UNCHANGED <<asleep, left, rwVars>>

UnLoad(t) ==
  /\ pc[t] = "unload"
  /\ RwGoto(t, "unwaiters", rwlock)
  /\ UNCHANGED <<asleep, rwlock, rwwaiters, rwheld>>

UnWaiters(t) ==
  /\ pc[t] = "unwaiters"
  /\ rwseen' = [rwseen EXCEPT ![t] = rwwaiters # 0]
  /\ Goto(t, "uncas")
  /\ UNCHANGED <<asleep, rwlock, rwwaiters, rwval, rwheld>>

\* cnt == 0x7fffffff || cnt == 1: the lock becomes free.
LastOut(v) == v.cnt \in {1, WRITER}

\* Mutant: the last one out trusts the bit alone.
WakesByBit(t) == LastOut(rwval[t]) /\ rwval[t].wait

\* The last one out wakes if it saw waiters or the bit.
Wakes(t) == LastOut(rwval[t]) /\ (rwseen[t] \/ rwval[t].wait)

UnCas(t) ==
  /\ pc[t] = "uncas"
  /\ IF rwlock = rwval[t]
     THEN /\ rwlock' = IF LastOut(rwlock) THEN Unlocked ELSE [rwlock EXCEPT !.cnt = @ - 1]
          /\ rwheld' = [rwheld EXCEPT ![t] = "none"]
          /\ IF Wakes(t) THEN RwGoto(t, "unwake", rwval[t]) ELSE RwReturn(t)
     ELSE RwGoto(t, "unload", Unlocked) /\ UNCHANGED <<rwlock, rwheld>>
  /\ UNCHANGED <<asleep, rwwaiters>>

\* A writer wakes everybody, the last reader one thread.
UnWake(t) ==
  /\ pc[t] = "unwake"
  /\ IF rwval[t].cnt = WRITER THEN WakeAll(asleep) ELSE WakeUp(asleep, 1)
  /\ RwReturn(t)
  /\ UNCHANGED <<rwlock, rwwaiters, rwheld>>

-----------------------------------------------------------------------------
RwStep(t) ==
  \/ RdLoad(t) \/ RdCas(t) \/ WrCas(t) \/ RwLoop(t) \/ RwInc(t) \/ RwMark(t)
  \/ RwWait(t) \/ RwDec(t)
  \/ RwCallUnlock(t) \/ UnLoad(t) \/ UnWaiters(t) \/ UnCas(t) \/ UnWake(t)

RwNext ==
  \E t \in Threads :
    \/ RwStep(t) \/ RwTimeout(t)
    \/ \E o \in RwOps \ {"rwunlock"} : RwCall(t, o)

\* A lock that is held is released, and a thread goes on unless it sleeps.
RwFairness == \A t \in Threads : WF_<<threadVars, rwVars>>(RwStep(t))

RwSpec ==
  /\ ThreadsInit(RwCalls) /\ RwInit
  /\ [][RwNext]_<<threadVars, rwVars>>
  /\ RwFairness

-----------------------------------------------------------------------------
RwTypeOK ==
  /\ rwlock \in RwWord
  /\ rwwaiters \in Int
  /\ rwval \in [Threads -> RwWord]
  /\ rwseen \in [Threads -> BOOLEAN]
  /\ rwheld \in [Threads -> {"none", "read", "write"}]

\* A writer is alone, and the word counts the readers exactly, although it
\* tells a writer from readers only by a count that is at its limit.
RwExclusion ==
  /\ \A t, u \in Threads : rwheld[t] = "write" /\ u # t => rwheld[u] = "none"
  /\ rwlock.cnt = IF \E t \in Threads : rwheld[t] = "write" THEN WRITER
                  ELSE Cardinality({t \in Threads : rwheld[t] = "read"})

\* All calls return as long as holders release the lock: no release leaves a
\* thread asleep that nobody will wake, whichever of the sleepers it wakes and
\* whoever times out in the meantime.
RwCallsReturn ==
  (\E t \in Threads : op[t] \in RwOps) ~> (\A t \in Threads : op[t] \notin RwOps)
=============================================================================
