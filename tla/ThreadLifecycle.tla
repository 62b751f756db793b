--------------------------- MODULE ThreadLifecycle ---------------------------
(***************************************************************************)
(* The life of a thread: pthread_create, the thread's start and exit,      *)
(* pthread_join, pthread_timedjoin_np, pthread_detach, pthread_kill, and   *)
(* the thread list with its lock.                                          *)
(*                                                                         *)
(* A thread's stack, TLS and descriptor are one allocation (map_base).     *)
(* freed[t] counts the calls of free on it.  A thread's tid is the thread. *)
(***************************************************************************)
EXTENDS Futex

CONSTANTS
  Threads,    \* all threads that may be created, and the initial one
  Main,       \* the initial thread; its stack is not an allocation
  NoTid,      \* tid 0
  Killers     \* threads that call pthread_kill

ASSUME LifeAssumption ==
  /\ IsFiniteSet(Threads) /\ Main \in Threads
  /\ NoTid \notin Threads
  /\ Killers \subseteq Threads

DT_EXITED == 0
DT_EXITING == 1
DT_JOINABLE == 2
DT_DETACHED == 3

VARIABLES
  pc,         \* where each thread is
  op,         \* the call it is in
  tgt,        \* the thread that call is about
  val,        \* a word it has read: of the list lock, a detach_state or a tid
  saved,      \* exit: the detach_state it replaced
  tid,        \* self->tid
  detach,     \* self->detach_state
  next, prev, \* the thread list
  tmin1,      \* libc.threads_minus_1
  needLocks,  \* libc.need_locks
  tl,         \* __thread_list_lock
  tlWaiters,  \* tl_lock_waiters
  tlSleep,    \* threads asleep on __thread_list_lock
  joinSleep,  \* threads asleep on their target's detach_state
  freed,      \* how often each allocation was freed
  claimed     \* threads somebody has joined or detached

vars == <<pc, op, tgt, val, saved, tid, detach, next, prev, tmin1, needLocks,
          tl, tlWaiters, tlSleep, joinSleep, freed, claimed>>

list == <<next, prev, tmin1, needLocks>>
lockVars == <<tl, tlWaiters, tlSleep>>
desc == <<tid, detach>>
rest == <<joinSleep, freed, claimed, saved>>

Init ==
  /\ pc = [t \in Threads |-> IF t = Main THEN "run" ELSE "none"]
  /\ op = [t \in Threads |-> "none"]
  /\ tgt = [t \in Threads |-> t]
  /\ val = [t \in Threads |-> NoTid]
  /\ saved = [t \in Threads |-> DT_JOINABLE]
  /\ tid = [t \in Threads |-> IF t = Main THEN t ELSE NoTid]
  /\ detach = [t \in Threads |-> DT_JOINABLE]
  /\ next = [t \in Threads |-> t]
  /\ prev = [t \in Threads |-> t]
  /\ tmin1 = 0
  /\ needLocks = 0
  /\ tl = NoTid /\ tlWaiters = 0 /\ tlSleep = {}
  /\ joinSleep = {}
  /\ freed = [t \in Threads |-> 0]
  /\ claimed = {}

-----------------------------------------------------------------------------
Goto(t, l) == pc' = [pc EXCEPT ![t] = l]

\* A call returns to the thread's own code.
Return(t) ==
  /\ Goto(t, "run")
  /\ op' = [op EXCEPT ![t] = "none"]
  /\ tgt' = [tgt EXCEPT ![t] = t]
  /\ val' = [val EXCEPT ![t] = NoTid]

-----------------------------------------------------------------------------
(* __tl_lock, __tl_unlock and the __wait in __tl_sync. *)

AfterLock(t) == IF op[t] = "create" THEN "spawn" ELSE "last"

TlCas(t) ==
  /\ pc[t] = "tlcas"
  /\ IF tl = NoTid
     THEN tl' = tid[t] /\ Goto(t, AfterLock(t)) /\ UNCHANGED val
     ELSE val' = [val EXCEPT ![t] = tl] /\ Goto(t, "tlwait") /\ UNCHANGED tl
  /\ UNCHANGED <<op, tgt, tlWaiters, tlSleep, desc, list, rest>>

\* What follows the __wait: another attempt, or the rest of __tl_sync.
AfterWait(t) == IF op[t] = "join" THEN "sync" ELSE "tlcas"

\* __wait: spinning may see the change ...
TlSpin(t) ==
  /\ pc[t] = "tlwait" /\ tl # val[t]
  /\ Goto(t, AfterWait(t))
  /\ UNCHANGED <<op, tgt, val, desc, list, lockVars, rest>>

\* ... or the thread announces itself,
TlInc(t) ==
  /\ pc[t] = "tlwait"
  /\ tlWaiters' = tlWaiters + 1
  /\ Goto(t, "tlcheck")
  /\ UNCHANGED <<op, tgt, val, tl, tlSleep, desc, list, rest>>

\* sleeps while the word has the value seen,
TlCheck(t) ==
  /\ pc[t] = "tlcheck" /\ t \notin tlSleep
  /\ IF tl = val[t]
     THEN tlSleep' = tlSleep \cup {t} /\ UNCHANGED pc
     ELSE Goto(t, "tldec") /\ UNCHANGED tlSleep
  /\ UNCHANGED <<op, tgt, val, tl, tlWaiters, desc, list, rest>>

TlSpurious(t) ==
  /\ t \in tlSleep
  /\ tlSleep' = tlSleep \ {t}
  /\ UNCHANGED <<pc, op, tgt, val, tl, tlWaiters, desc, list, rest>>

\* and takes itself back.
TlDec(t) ==
  /\ pc[t] = "tldec"
  /\ tlWaiters' = tlWaiters - 1
  /\ Goto(t, AfterWait(t))
  /\ UNCHANGED <<op, tgt, val, tl, tlSleep, desc, list, rest>>

TlStore(t) ==
  /\ pc[t] = "unlock"
  /\ tl' = NoTid
  /\ Goto(t, "tlwake")
  /\ UNCHANGED <<op, tgt, val, tlWaiters, tlSleep, desc, list, rest>>

\* Mutant: the test of the detach state before the thread frees itself is lost.
AlwaysFreeSelf(t) ==
  CASE op[t] = "exit" -> "freeself"
    [] op[t] = "exit0" -> "restore"
    [] op[t] = "failed" -> "freemap"

\* What follows the unlock; a create that succeeded returns.
AfterUnlock(t) ==
  CASE op[t] = "exit" /\ saved[t] = DT_DETACHED -> "freeself"
    [] op[t] = "exit" /\ saved[t] # DT_DETACHED -> "hostexit"
    [] op[t] = "exit0" -> "restore"
    [] op[t] = "failed" -> "freemap"

\* if (tl_lock_waiters) __wake(...)
TlWake(t) ==
  /\ pc[t] = "tlwake"
  /\ tlSleep' \in IF tlWaiters > 0 THEN Wake(tlSleep, 1) ELSE {tlSleep}
  /\ IF op[t] = "create" THEN Return(t)
                         ELSE Goto(t, AfterUnlock(t)) /\ UNCHANGED <<op, tgt, val>>
  /\ UNCHANGED <<tl, tlWaiters, desc, list, rest>>

-----------------------------------------------------------------------------
(* pthread_create *)

\* Mutant: the host is asked for the thread without the list lock.
CreateUnlocked(t, u, d) ==
  /\ pc[t] = "run" /\ pc[u] = "none"
  /\ \A v \in Threads : op[v] = "create" => tgt[v] # u
  /\ op' = [op EXCEPT ![t] = "create"]
  /\ tgt' = [tgt EXCEPT ![t] = u]
  /\ detach' = [detach EXCEPT ![u] = d]
  /\ claimed' = IF d = DT_DETACHED THEN claimed \cup {u} ELSE claimed
  /\ Goto(t, "spawn")
  /\ UNCHANGED <<val, tid, list, lockVars, joinSleep, freed, saved>>

CallCreate(t, u, d) ==
  /\ pc[t] = "run" /\ pc[u] = "none"
  /\ \A v \in Threads : op[v] = "create" => tgt[v] # u
  /\ op' = [op EXCEPT ![t] = "create"]
  /\ tgt' = [tgt EXCEPT ![t] = u]
  /\ detach' = [detach EXCEPT ![u] = d]
  /\ claimed' = IF d = DT_DETACHED THEN claimed \cup {u} ELSE claimed
  /\ Goto(t, "tlcas")
  /\ UNCHANGED <<val, tid, list, lockVars, joinSleep, freed, saved>>

\* The counter is raised before the host is asked for the thread ...
Spawn(t) ==
  /\ pc[t] = "spawn"
  /\ tmin1' = tmin1 + 1
  /\ needLocks' = IF tmin1 = 0 THEN 1 ELSE needLocks
  /\ pc' = [pc EXCEPT ![t] = "link", ![tgt[t]] = "start"]
  /\ UNCHANGED <<op, tgt, val, next, prev, desc, lockVars, rest>>

\* Mutant: a refused thread stays counted.
SpawnFailsCounted(t) ==
  /\ pc[t] = "spawn"
  /\ tmin1' = tmin1 + 1
  /\ needLocks' = IF tmin1 = 0 THEN 1 ELSE needLocks
  /\ op' = [op EXCEPT ![t] = "failed"]
  /\ pc' = [pc EXCEPT ![t] = "unlock", ![tgt[t]] = "gone"]
  /\ UNCHANGED <<tgt, val, next, prev, desc, lockVars, rest>>

\* ... which may refuse it: the counter goes back,
SpawnFails(t) ==
  /\ pc[t] = "spawn"
  /\ needLocks' = IF tmin1 = 0 THEN 0 ELSE needLocks
  /\ op' = [op EXCEPT ![t] = "failed"]
  /\ pc' = [pc EXCEPT ![t] = "unlock", ![tgt[t]] = "gone"]
  /\ UNCHANGED <<tgt, val, next, prev, tmin1, desc, lockVars, rest>>

\* and the allocation is freed after the unlock.
FreeMap(t) ==
  /\ pc[t] = "freemap"
  /\ freed' = [freed EXCEPT ![tgt[t]] = @ + 1]
  /\ Return(t)
  /\ UNCHANGED <<desc, list, lockVars, joinSleep, claimed, saved>>

\* The parent stores the tid, as the child does, and links the new thread.
Link(t) ==
  LET u == tgt[t] IN
  /\ pc[t] = "link"
  /\ tid' = [tid EXCEPT ![u] = u]
  /\ next' = [next EXCEPT ![u] = next[t], ![t] = u]
  /\ prev' = [prev EXCEPT ![u] = t, ![next[t]] = u]
  /\ Goto(t, "unlock")
  /\ UNCHANGED <<op, tgt, val, detach, tmin1, needLocks, lockVars, rest>>

\* __wasi_thread_start_C
Start(t) ==
  /\ pc[t] = "start"
  /\ tid' = [tid EXCEPT ![t] = t]
  /\ Goto(t, "run")
  /\ UNCHANGED <<op, tgt, val, detach, list, lockVars, rest>>

-----------------------------------------------------------------------------
(* __pthread_exit *)

\* This atomic competes with pthread_detach; saved keeps the former state.
CallExit(t) ==
  /\ pc[t] = "run"
  /\ op' = [op EXCEPT ![t] = "exit"]
  /\ saved' = [saved EXCEPT ![t] = detach[t]]
  /\ detach' = [detach EXCEPT ![t] = IF @ = DT_JOINABLE THEN DT_EXITING ELSE @]
  /\ Goto(t, "tlcas")
  /\ UNCHANGED <<tgt, val, tid, list, lockVars, joinSleep, freed, claimed>>

\* The only thread left does not terminate but calls exit(0).
LastThread(t) ==
  /\ pc[t] = "last" /\ next[t] = t
  /\ op' = [op EXCEPT ![t] = "exit0"]
  /\ Goto(t, "unlock")
  /\ UNCHANGED <<tgt, val, desc, list, lockVars, rest>>

RestoreDetach(t) ==
  /\ pc[t] = "restore"
  /\ detach' = [detach EXCEPT ![t] = saved[t]]
  /\ Goto(t, "exit0")
  /\ UNCHANGED <<op, tgt, val, tid, list, lockVars, rest>>

\* Commit to termination: clear the tid, unlink, lower the counter.
Unlink(t) ==
  /\ pc[t] = "last" /\ next[t] # t
  /\ tid' = [tid EXCEPT ![t] = NoTid]
  /\ tmin1' = tmin1 - 1
  /\ needLocks' = IF tmin1 = 1 THEN -1 ELSE needLocks
  /\ next' = [next EXCEPT ![prev[t]] = next[t], ![t] = t]
  /\ prev' = [prev EXCEPT ![next[t]] = prev[t], ![t] = t]
  /\ Goto(t, IF saved[t] = DT_DETACHED THEN "unlock" ELSE "exited")
  /\ UNCHANGED <<op, tgt, val, detach, lockVars, rest>>

StoreExited(t) ==
  /\ pc[t] = "exited"
  /\ detach' = [detach EXCEPT ![t] = DT_EXITED]
  /\ Goto(t, "wakejoiner")
  /\ UNCHANGED <<op, tgt, val, tid, list, lockVars, rest>>

\* Mutant: the store is not followed by a wake-up.
WakeNobody(t) ==
  /\ pc[t] = "wakejoiner"
  /\ Goto(t, "unlock")
  /\ UNCHANGED <<op, tgt, val, desc, list, lockVars, rest>>

WakeJoiner(t) ==
  /\ pc[t] = "wakejoiner"
  /\ \E left \in Wake({u \in joinSleep : tgt[u] = t}, 1) :
        joinSleep' = {u \in joinSleep : tgt[u] # t} \cup left
  /\ Goto(t, "unlock")
  /\ UNCHANGED <<op, tgt, val, desc, list, lockVars, freed, claimed, saved>>

\* A detached thread frees the allocation it runs on.
FreeSelf(t) ==
  /\ pc[t] = "freeself"
  /\ freed' = [freed EXCEPT ![t] = @ + 1]
  /\ Goto(t, "hostexit")
  /\ UNCHANGED <<op, tgt, val, desc, list, lockVars, joinSleep, claimed, saved>>

\* __wasi_thread_exit: the thread executes no more code.
HostExit(t) ==
  /\ pc[t] = "hostexit"
  /\ Goto(t, "gone")
  /\ UNCHANGED <<op, tgt, val, desc, list, lockVars, rest>>

-----------------------------------------------------------------------------
(* pthread_join, pthread_timedjoin_np and pthread_detach.  The application  *)
(* joins or detaches a thread once, and only one whose handle it has.       *)

\* u has begun to run (a thread the host refused never does), and is not freed.
Started(u) ==
  /\ pc[u] \notin {"none", "start"} /\ (pc[u] = "gone" => op[u] = "exit")
  /\ freed[u] = 0

CallJoin(t, u) ==
  /\ pc[t] = "run" /\ u # t /\ Started(u) /\ u \notin claimed
  /\ u # Main
  /\ op' = [op EXCEPT ![t] = "join"]
  /\ tgt' = [tgt EXCEPT ![t] = u]
  /\ claimed' = claimed \cup {u}
  /\ Goto(t, "join")
  /\ UNCHANGED <<val, desc, list, lockVars, joinSleep, freed, saved>>

\* Mutant: a detach that loses the race with the exit does nothing.
DetachLoserReturns(t, u) ==
  /\ pc[t] = "run" /\ Started(u) /\ u \notin claimed
  /\ u # Main
  /\ claimed' = claimed \cup {u}
  /\ detach' = [detach EXCEPT ![u] = IF @ = DT_JOINABLE THEN DT_DETACHED ELSE @]
  /\ UNCHANGED <<pc, op, tgt, val, tid, list, lockVars, joinSleep, freed, saved>>

\* A compare-and-swap; the loser of the race with the exit joins.
CallDetach(t, u) ==
  /\ pc[t] = "run" /\ Started(u) /\ u \notin claimed
  /\ u # Main
  /\ claimed' = claimed \cup {u}
  /\ IF detach[u] = DT_JOINABLE
     THEN detach' = [detach EXCEPT ![u] = DT_DETACHED] /\ UNCHANGED <<pc, op, tgt>>
     ELSE /\ op' = [op EXCEPT ![t] = "join"]
          /\ tgt' = [tgt EXCEPT ![t] = u]
          /\ Goto(t, "join")
          /\ UNCHANGED detach
  /\ UNCHANGED <<val, tid, list, lockVars, joinSleep, freed, saved>>

\* Mutant: the joiner frees without __tl_sync.
JoinWithoutSync(t) ==
  /\ pc[t] = "join"
  /\ IF detach[tgt[t]] = DT_EXITED
     THEN Goto(t, "free") /\ UNCHANGED val
     ELSE Goto(t, "joinwait") /\ val' = [val EXCEPT ![t] = detach[tgt[t]]]
  /\ UNCHANGED <<op, tgt, desc, list, lockVars, rest>>

\* The loop on detach_state.
JoinLoad(t) ==
  /\ pc[t] = "join"
  /\ IF detach[tgt[t]] = DT_EXITED
     THEN Goto(t, "tlsync") /\ UNCHANGED val
     ELSE Goto(t, "joinwait") /\ val' = [val EXCEPT ![t] = detach[tgt[t]]]
  /\ UNCHANGED <<op, tgt, desc, list, lockVars, rest>>

JoinWait(t) ==
  /\ pc[t] = "joinwait"
  /\ IF detach[tgt[t]] = val[t]
     THEN joinSleep' = joinSleep \cup {t} /\ Goto(t, "joinsleep")
     ELSE Goto(t, "join") /\ UNCHANGED joinSleep
  /\ UNCHANGED <<op, tgt, val, desc, list, lockVars, freed, claimed, saved>>

JoinWoken(t) ==
  /\ pc[t] = "joinsleep" /\ t \notin joinSleep
  /\ Goto(t, "join")
  /\ UNCHANGED <<op, tgt, val, desc, list, lockVars, rest>>

\* pthread_timedjoin_np gives up; the thread can be joined again.
JoinTimeout(t) ==
  /\ t \in joinSleep
  /\ joinSleep' = joinSleep \ {t}
  /\ claimed' = claimed \ {tgt[t]}
  /\ Return(t)
  /\ UNCHANGED <<desc, list, lockVars, freed, saved>>

\* __tl_sync reads the list lock ...
TlSync(t) ==
  /\ pc[t] = "tlsync"
  /\ IF tl = NoTid
     THEN Goto(t, "free") /\ UNCHANGED val
     ELSE Goto(t, "tlwait") /\ val' = [val EXCEPT ![t] = tl]
  /\ UNCHANGED <<op, tgt, desc, list, lockVars, rest>>

\* Mutant: __tl_sync keeps the wake-up.
TlSyncKeeps(t) ==
  /\ pc[t] = "sync"
  /\ Goto(t, "free")
  /\ UNCHANGED <<op, tgt, val, desc, list, lockVars, rest>>

\* ... and passes a wake-up on that it may have taken from somebody else.
TlSyncPass(t) ==
  /\ pc[t] = "sync"
  /\ tlSleep' \in IF tlWaiters > 0 THEN Wake(tlSleep, 1) ELSE {tlSleep}
  /\ Goto(t, "free")
  /\ UNCHANGED <<op, tgt, val, tl, tlWaiters, desc, list, rest>>

JoinFree(t) ==
  /\ pc[t] = "free"
  /\ freed' = [freed EXCEPT ![tgt[t]] = @ + 1]
  /\ Return(t)
  /\ UNCHANGED <<desc, list, lockVars, joinSleep, claimed, saved>>

-----------------------------------------------------------------------------
\* pthread_kill reads the target's tid, without killlock, and passes it on.
CallKill(t, u) ==
  /\ pc[t] = "run" /\ t \in Killers /\ u # t /\ Started(u) /\ u \notin claimed
  /\ op' = [op EXCEPT ![t] = "kill"]
  /\ tgt' = [tgt EXCEPT ![t] = u]
  /\ val' = [val EXCEPT ![t] = tid[u]]
  /\ Goto(t, "kill")
  /\ UNCHANGED <<desc, list, lockVars, rest>>

HostSignal(t) ==
  /\ pc[t] = "kill"
  /\ Return(t)
  /\ UNCHANGED <<desc, list, lockVars, rest>>

-----------------------------------------------------------------------------
Step(t) ==
  \/ TlCas(t) \/ TlSpin(t) \/ TlInc(t) \/ TlCheck(t) \/ TlDec(t)
  \/ TlStore(t) \/ TlWake(t)
  \/ Spawn(t) \/ SpawnFails(t) \/ FreeMap(t) \/ Link(t) \/ Start(t)
  \/ LastThread(t) \/ RestoreDetach(t) \/ Unlink(t) \/ StoreExited(t) \/ WakeJoiner(t)
  \/ FreeSelf(t) \/ HostExit(t)
  \/ JoinLoad(t) \/ JoinWait(t) \/ JoinWoken(t)
  \/ TlSync(t) \/ TlSyncPass(t) \/ JoinFree(t)
  \/ HostSignal(t)

\* The process is over: exit(0), or everybody waits for a join that cannot end.
Over ==
  /\ \A t \in Threads : pc[t] \in {"none", "gone", "exit0"} \/ t \in joinSleep
  /\ UNCHANGED vars

Next ==
  \/ \E t \in Threads :
       \/ Step(t) \/ TlSpurious(t) \/ CallExit(t) \/ JoinTimeout(t)
       \/ \E u \in Threads :
            \/ \E d \in {DT_JOINABLE, DT_DETACHED} : CallCreate(t, u, d)
            \/ CallJoin(t, u) \/ CallDetach(t, u) \/ CallKill(t, u)
  \/ Over

Fairness == \A t \in Threads : WF_vars(Step(t))

Spec == Init /\ [][Next]_vars /\ Fairness

-----------------------------------------------------------------------------
\* The threads whose tid is published: started and not yet unlinked.
Active == {t \in Threads : tid[t] = t}

\* Nobody frees an allocation twice: of exit, join and detach exactly one is
\* responsible (the comment on the compare-and-swap in __pthread_exit).
FreedOnce == \A t \in Threads : freed[t] <= 1

\* Before a joiner frees a stack it has waited for the exiting thread to
\* release the thread list (__tl_sync).
ListLockOwnerAlive == \A t \in Threads : tl = t => freed[t] = 0

\* Whenever the list lock is free, the ring, the counter and need_locks all
\* describe the running threads.
ListConsistent ==
  /\ \A t \in Threads : next[prev[t]] = t /\ prev[next[t]] = t
  /\ tl = NoTid =>
       /\ tmin1 = Cardinality(Active) - 1
       /\ {t \in Threads : next[t] # t} = IF tmin1 = 0 THEN {} ELSE Active
       /\ (needLocks = 1) = (tmin1 > 0)

\* exit(0) on behalf of the last thread: no other thread runs or starts.
ExitsAlone ==
  \A t, u \in Threads : pc[t] = "exit0" /\ u # t =>
     u \notin Active /\ pc[u] \notin {"start", "run"}

\* A join of a thread that has exited returns.
JoinReturns ==
  \A t \in Threads :
    op[t] = "join" /\ detach[tgt[t]] = DT_EXITED ~> op[t] = "none"

\* No leak: once a thread is gone and has been joined or detached, its
\* allocation is freed, unless the joiner gives up or the process ends.
NoLeak ==
  \A t \in Threads :
    pc[t] = "gone" /\ t \in claimed
      ~> \/ freed[t] = 1 \/ t \notin claimed
         \/ \E u \in Threads : pc[u] = "exit0"

\* A thread that waits for the list lock gets it, although joiners sleep on
\* the same word and may take the wake-up meant for it (__tl_sync).
ListLockGranted ==
  \A t \in Threads : pc[t] = "tlcas" ~> pc[t] \in {"spawn", "last"}

\* A stack that has been freed is not in use: its thread runs no more code.
StackNotInUse == \A t \in Threads : freed[t] > 0 => pc[t] = "gone"
=============================================================================
