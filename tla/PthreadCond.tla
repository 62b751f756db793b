----------------------------- MODULE PthreadCond -----------------------------
(***************************************************************************)
(* The private condition variable: __pthread_cond_timedwait and            *)
(* __private_cond_signal, with the list of waiter nodes that live on the   *)
(* stacks of the waiting threads, the hand-over of the wake-up from one    *)
(* signalled waiter to the next through the barriers of their nodes, and   *)
(* waiters that leave because their wait failed.                           *)
(*                                                                         *)
(* In this build nothing sets the cancel flag of a thread (pthread_cancel  *)
(* only sends SIGCANCEL, which __wasm_signal drops), so a wait ends by its *)
(* barrier or by an error of __timedwait_cp.  The error, which the call    *)
(* returns and does not act upon, is left out.                             *)
(*                                                                         *)
(* A node is named by its thread.  The mutex is its owner and the part of  *)
(* _m_waiters the condition variable adds; module PthreadMutex shows that  *)
(* the mutex is a lock.                                                    *)
(***************************************************************************)
EXTENDS Futex

CONSTANTS
  Waiting,    \* threads that wait
  Signalling, \* threads that signal
  Cv,         \* names the word c->_c_lock
  None,       \* the null pointer
  MaxCalls,   \* how often a thread waits
  MaxSignals  \* how often a thread signals

Threads == Waiting \cup Signalling

ASSUME CondAssumption ==
  /\ IsFiniteSet(Threads)
  /\ Cv \notin Threads /\ None \notin Threads /\ None # Cv
  /\ MaxCalls \in Nat /\ MaxSignals \in Nat

VARIABLES
  pc,          \* where each thread is
  job,         \* what it takes a lock for
  word,        \* c->_c_lock (word[Cv]) and the barriers of the nodes
  asleep,      \* threads asleep in the futex call they are at
  head, tail,  \* c->_c_head, c->_c_tail
  prev, next, state, notify,   \* the nodes
  n, p, first, ref,            \* locals of __private_cond_signal
  owner,       \* the mutex
  mwaiters,    \* what was added to _m_waiters
  calls,       \* how often each thread has waited
  signals      \* how often it has signalled

cvVars == <<head, tail>>
nodes == <<prev, next, state, notify>>
sig == <<n, p, first, ref>>
mutex == <<owner, mwaiters>>
count == <<calls, signals>>
vars == <<pc, job, word, asleep, cvVars, nodes, sig, mutex, count>>

WAITING == "WAITING"
SIGNALED == "SIGNALED"
LEAVING == "LEAVING"

\* n = -1 never counts down to 0.
All == -1

Init ==
  /\ pc = [t \in Threads |-> "idle"]
  /\ job = [t \in Threads |-> "none"]
  /\ word = [x \in Threads \cup {Cv} |-> 0]
  /\ asleep = {}
  /\ head = None /\ tail = None
  /\ prev = [t \in Threads |-> None]
  /\ next = [t \in Threads |-> None]
  /\ state = [t \in Threads |-> "none"]
  /\ notify = [t \in Threads |-> None]
  /\ n = [t \in Threads |-> 0]
  /\ p = [t \in Threads |-> None]
  /\ first = [t \in Threads |-> None]
  /\ ref = [t \in Threads |-> 0]
  /\ owner = None
  /\ mwaiters = 0
  /\ calls = [t \in Threads |-> 0]
  /\ signals = [t \in Threads |-> 0]

-----------------------------------------------------------------------------
Goto(t, l) == pc' = [pc EXCEPT ![t] = l]

\* The word of the lock t is taking or releasing.
Target(t) == IF job[t] = "barrier" THEN t ELSE Cv

\* Threads asleep on the word x, in lock or in the wait for a signal.
Sleepers(x) ==
  {t \in asleep : \/ pc[t] = "lockwait" /\ Target(t) = x
                  \/ pc[t] = "wait" /\ t = x}

\* __wake(x, 1, 1)
WakeOn(x) == \E S \in Wake(Sleepers(x), 1) : asleep' = (asleep \ Sleepers(x)) \cup S

\* What a thread does under the lock it has taken.
Body(t) == CASE job[t] = "register" -> "register"
             [] job[t] = "remove" -> "remove"
             [] job[t] = "signal" -> "sigstart"
             [] job[t] = "barrier" -> "relock"

\* What it does after unlock.
AfterUnlock(t) == CASE job[t] = "register" -> "release"
                    [] job[t] = "remove" -> IF notify[t] = None THEN "relock" ELSE "notify"
                    [] job[t] = "signal" -> "drain"

-----------------------------------------------------------------------------
(* lock, unlock *)

LockCas(t) ==
  /\ pc[t] = "cas"
  /\ IF word[Target(t)] = 0
     THEN word' = [word EXCEPT ![Target(t)] = 1] /\ Goto(t, Body(t))
     ELSE Goto(t, "mark") /\ UNCHANGED word
  /\ UNCHANGED <<job, asleep, cvVars, nodes, sig, mutex, count>>

LockMark(t) ==
  /\ pc[t] = "mark"
  /\ word' = [word EXCEPT ![Target(t)] = IF @ = 1 THEN 2 ELSE @]
  /\ Goto(t, "lockwait")
  /\ UNCHANGED <<job, asleep, cvVars, nodes, sig, mutex, count>>

LockWait(t) ==
  /\ pc[t] = "lockwait" /\ t \notin asleep
  /\ IF word[Target(t)] = 2
     THEN asleep' = asleep \cup {t} /\ UNCHANGED pc
     ELSE Goto(t, "retry") /\ UNCHANGED asleep
  /\ UNCHANGED <<job, word, cvVars, nodes, sig, mutex, count>>

LockRetry(t) ==
  /\ pc[t] = "retry"
  /\ IF word[Target(t)] = 0
     THEN word' = [word EXCEPT ![Target(t)] = 2] /\ Goto(t, Body(t))
     ELSE Goto(t, "lockwait") /\ UNCHANGED word
  /\ UNCHANGED <<job, asleep, cvVars, nodes, sig, mutex, count>>

Unlock(t) ==
  /\ pc[t] = "unlock"
  /\ word' = [word EXCEPT ![Cv] = 0]
  /\ Goto(t, IF word[Cv] = 2 THEN "unlockwake" ELSE AfterUnlock(t))
  /\ UNCHANGED <<job, asleep, cvVars, nodes, sig, mutex, count>>

UnlockWake(t) ==
  /\ pc[t] = "unlockwake"
  /\ WakeOn(Cv)
  /\ Goto(t, AfterUnlock(t))
  /\ UNCHANGED <<job, word, cvVars, nodes, sig, mutex, count>>

-----------------------------------------------------------------------------
(* __pthread_cond_timedwait *)

\* The application locks the mutex and calls it.
CallWait(t) ==
  /\ t \in Waiting /\ pc[t] = "idle" /\ owner = None /\ calls[t] < MaxCalls
  /\ owner' = t
  /\ calls' = [calls EXCEPT ![t] = @ + 1]
  /\ job' = [job EXCEPT ![t] = "register"]
  /\ Goto(t, "cas")
  /\ UNCHANGED <<word, asleep, cvVars, nodes, sig, mwaiters, signals>>

\* The node goes to the head of the list, its barrier closed.
Register(t) ==
  /\ pc[t] = "register"
  /\ word' = [word EXCEPT ![t] = 2]
  /\ state' = [state EXCEPT ![t] = WAITING]
  /\ notify' = [notify EXCEPT ![t] = None]
  /\ next' = [next EXCEPT ![t] = head]
  /\ prev' = IF tail = None THEN [prev EXCEPT ![t] = None]
                            ELSE [prev EXCEPT ![t] = None, ![head] = t]
  /\ head' = t
  /\ tail' = IF tail = None THEN t ELSE tail
  /\ Goto(t, "unlock")
  /\ UNCHANGED <<job, asleep, sig, mutex, count>>

ReleaseMutex(t) ==
  /\ pc[t] = "release"
  /\ owner' = None
  /\ Goto(t, "wait")
  /\ UNCHANGED <<job, word, asleep, cvVars, nodes, sig, mwaiters, count>>

\* The loop on the barrier: sleep while it is closed.
WaitBarrier(t) ==
  /\ pc[t] = "wait" /\ t \notin asleep
  /\ IF word[t] = 2
     THEN asleep' = asleep \cup {t} /\ UNCHANGED pc
     ELSE Goto(t, "claim") /\ UNCHANGED asleep
  /\ UNCHANGED <<job, word, cvVars, nodes, sig, mutex, count>>

\* __timedwait_cp fails: the deadline passes (ETIMEDOUT) or there is no clock
\* (EINVAL).  The barrier may have been opened in the meantime.
GiveUp(t) ==
  /\ pc[t] = "wait"
  /\ asleep' = asleep \ {t}
  /\ Goto(t, "claim")
  /\ UNCHANGED <<job, word, cvVars, nodes, sig, mutex, count>>

\* Mutant: a waiter whose wait failed does not queue at its barrier.
ClaimSkipsBarrier(t) ==
  /\ pc[t] = "claim"
  /\ IF state[t] = WAITING
     THEN /\ state' = [state EXCEPT ![t] = LEAVING]
          /\ job' = [job EXCEPT ![t] = "remove"]
          /\ Goto(t, "cas")
     ELSE /\ job' = [job EXCEPT ![t] = "barrier"]
          /\ Goto(t, "relock")
          /\ UNCHANGED state
  /\ UNCHANGED <<word, asleep, cvVars, prev, next, notify, sig, mutex, count>>

\* The compare-and-swap on the state decides between leaving and a signal.
Claim(t) ==
  /\ pc[t] = "claim"
  /\ IF state[t] = WAITING
     THEN /\ state' = [state EXCEPT ![t] = LEAVING]
          /\ job' = [job EXCEPT ![t] = "remove"]
     ELSE /\ job' = [job EXCEPT ![t] = "barrier"]
          /\ UNCHANGED state
  /\ Goto(t, "cas")
  /\ UNCHANGED <<word, asleep, cvVars, prev, next, notify, sig, mutex, count>>

\* Mutant: the tail keeps pointing to the node.
RemoveKeepsTail(t) ==
  /\ pc[t] = "remove"
  /\ head' = IF head = t THEN next[t] ELSE head
  /\ next' = IF head # t /\ prev[t] # None THEN [next EXCEPT ![prev[t]] = next[t]] ELSE next
  /\ prev' = IF tail # t /\ next[t] # None THEN [prev EXCEPT ![next[t]] = prev[t]] ELSE prev
  /\ Goto(t, "unlock")
  /\ UNCHANGED <<job, word, asleep, tail, state, notify, sig, mutex, count>>

\* A leaving node takes itself out of the list it is in.
RemoveNode(t) ==
  /\ pc[t] = "remove"
  /\ head' = IF head = t THEN next[t] ELSE head
  /\ next' = IF head # t /\ prev[t] # None THEN [next EXCEPT ![prev[t]] = next[t]] ELSE next
  /\ tail' = IF tail = t THEN prev[t] ELSE tail
  /\ prev' = IF tail # t /\ next[t] # None THEN [prev EXCEPT ![next[t]] = prev[t]] ELSE prev
  /\ Goto(t, "unlock")
  /\ UNCHANGED <<job, word, asleep, state, notify, sig, mutex, count>>

\* Mutant: the new value is compared instead of the old one.
NotifyOffByOne(t) ==
  /\ pc[t] = "notify"
  /\ ref' = [ref EXCEPT ![notify[t]] = @ - 1]
  /\ Goto(t, IF ref[notify[t]] = 2 THEN "notifywake" ELSE "relock")
  /\ UNCHANGED <<job, word, asleep, cvVars, nodes, n, p, first, mutex, count>>

\* It tells the signaller that met it; the last one wakes the signaller.
Notify(t) ==
  /\ pc[t] = "notify"
  /\ ref' = [ref EXCEPT ![notify[t]] = @ - 1]
  /\ Goto(t, IF ref[notify[t]] = 1 THEN "notifywake" ELSE "relock")
  /\ UNCHANGED <<job, word, asleep, cvVars, nodes, n, p, first, mutex, count>>

NotifyWake(t) ==
  /\ pc[t] = "notifywake"
  /\ asleep' = asleep \ {s \in asleep : s = notify[t] /\ pc[s] = "drain"}
  /\ Goto(t, "relock")
  /\ UNCHANGED <<job, word, cvVars, nodes, sig, mutex, count>>

Relock(t) ==
  /\ pc[t] = "relock" /\ owner = None
  /\ owner' = t
  /\ Goto(t, IF state[t] = LEAVING THEN "done" ELSE "pass")
  /\ UNCHANGED <<job, word, asleep, cvVars, nodes, sig, mwaiters, count>>

\* Mutant: every waiter of a group raises _m_waiters.
PassCountsAll(t) ==
  /\ pc[t] = "pass"
  /\ mwaiters' = mwaiters + 1 - (IF prev[t] = None THEN 1 ELSE 0)
  /\ IF prev[t] = None
     THEN Goto(t, "done") /\ UNCHANGED word
     ELSE word' = [word EXCEPT ![prev[t]] = 0] /\ Goto(t, "passwake")
  /\ UNCHANGED <<job, asleep, cvVars, nodes, sig, owner, count>>

\* A signalled waiter that has the mutex opens the barrier of the next one.
\* From the first of a group to the last, _m_waiters is raised by one.
Pass(t) ==
  /\ pc[t] = "pass"
  /\ mwaiters' = mwaiters + (IF next[t] = None THEN 1 ELSE 0)
                          - (IF prev[t] = None THEN 1 ELSE 0)
  /\ IF prev[t] = None
     THEN Goto(t, "done") /\ UNCHANGED word
     ELSE word' = [word EXCEPT ![prev[t]] = 0] /\ Goto(t, "passwake")
  /\ UNCHANGED <<job, asleep, cvVars, nodes, sig, owner, count>>

\* Mutant: the next waiter is left to a requeue that WASI does not have.
PassRequeues(t) ==
  /\ pc[t] = "passwake"
  /\ Goto(t, "done")
  /\ UNCHANGED <<job, word, asleep, cvVars, nodes, sig, mutex, count>>

PassWake(t) ==
  /\ pc[t] = "passwake"
  /\ WakeOn(prev[t])
  /\ Goto(t, "done")
  /\ UNCHANGED <<job, word, cvVars, nodes, sig, mutex, count>>

\* The call returns, its node is gone, and the application unlocks the mutex.
Done(t) ==
  /\ pc[t] = "done"
  /\ job' = [job EXCEPT ![t] = "none"]
  /\ word' = [word EXCEPT ![t] = 0]
  /\ state' = [state EXCEPT ![t] = "none"]
  /\ prev' = [prev EXCEPT ![t] = None]
  /\ next' = [next EXCEPT ![t] = None]
  /\ notify' = [notify EXCEPT ![t] = None]
  /\ owner' = None
  /\ Goto(t, "idle")
  /\ UNCHANGED <<asleep, cvVars, sig, mwaiters, count>>

-----------------------------------------------------------------------------
(* __private_cond_signal *)

CallSignal(t, k) ==
  /\ t \in Signalling /\ pc[t] = "idle" /\ signals[t] < MaxSignals
  /\ signals' = [signals EXCEPT ![t] = @ + 1]
  /\ job' = [job EXCEPT ![t] = "signal"]
  /\ n' = [n EXCEPT ![t] = k]
  /\ first' = [first EXCEPT ![t] = None]
  /\ ref' = [ref EXCEPT ![t] = 0]
  /\ Goto(t, "cas")
  /\ UNCHANGED <<word, asleep, cvVars, nodes, p, mutex, calls>>

SigStart(t) ==
  /\ pc[t] = "sigstart"
  /\ p' = [p EXCEPT ![t] = tail]
  /\ Goto(t, "sigloop")
  /\ UNCHANGED <<job, word, asleep, cvVars, nodes, n, first, ref, mutex, count>>

\* One waiter, from the oldest on: signal it, or ask a leaving one to report.
SigLoop(t) ==
  LET x == p[t] IN
  /\ pc[t] = "sigloop" /\ n[t] # 0 /\ x # None
  /\ IF state[x] = WAITING
     THEN /\ state' = [state EXCEPT ![x] = SIGNALED]
          /\ n' = [n EXCEPT ![t] = IF @ = All THEN All ELSE @ - 1]
          /\ first' = [first EXCEPT ![t] = IF @ = None THEN x ELSE @]
          /\ UNCHANGED <<ref, notify>>
     ELSE /\ ref' = [ref EXCEPT ![t] = @ + 1]
          /\ notify' = [notify EXCEPT ![x] = t]
          /\ UNCHANGED <<state, n, first>>
  /\ p' = [p EXCEPT ![t] = prev[x]]
  /\ UNCHANGED <<pc, job, word, asleep, cvVars, prev, next, mutex, count>>

\* Split the list, leaving the remainder on the condition variable.
SigSplit(t) ==
  LET x == p[t] IN
  /\ pc[t] = "sigloop" /\ (n[t] = 0 \/ x = None)
  /\ IF x = None
     THEN head' = None /\ UNCHANGED <<prev, next>>
     ELSE /\ prev' = IF next[x] = None THEN prev ELSE [prev EXCEPT ![next[x]] = None]
          /\ next' = [next EXCEPT ![x] = None]
          /\ UNCHANGED head
  /\ tail' = x
  /\ Goto(t, "unlock")
  /\ UNCHANGED <<job, word, asleep, state, notify, sig, mutex, count>>

\* Mutant: the signaller does not wait for the leaving waiters.
DrainNobody(t) ==
  /\ pc[t] = "drain" /\ t \notin asleep
  /\ Goto(t, IF first[t] = None THEN "sigdone" ELSE "first")
  /\ UNCHANGED <<job, word, asleep, cvVars, nodes, sig, mutex, count>>

\* Wait for the leaving waiters met to take themselves out.
Drain(t) ==
  /\ pc[t] = "drain" /\ t \notin asleep
  /\ IF ref[t] # 0
     THEN asleep' = asleep \cup {t} /\ UNCHANGED pc
     ELSE Goto(t, IF first[t] = None THEN "sigdone" ELSE "first") /\ UNCHANGED asleep
  /\ UNCHANGED <<job, word, cvVars, nodes, sig, mutex, count>>

OpenFirst(t) ==
  /\ pc[t] = "first"
  /\ word' = [word EXCEPT ![first[t]] = 0]
  /\ Goto(t, IF word[first[t]] = 2 THEN "firstwake" ELSE "sigdone")
  /\ UNCHANGED <<job, asleep, cvVars, nodes, sig, mutex, count>>

WakeFirst(t) ==
  /\ pc[t] = "firstwake"
  /\ WakeOn(first[t])
  /\ Goto(t, "sigdone")
  /\ UNCHANGED <<job, word, cvVars, nodes, sig, mutex, count>>

SigDone(t) ==
  /\ pc[t] = "sigdone"
  /\ job' = [job EXCEPT ![t] = "none"]
  /\ first' = [first EXCEPT ![t] = None]
  /\ p' = [p EXCEPT ![t] = None]
  /\ n' = [n EXCEPT ![t] = 0]
  /\ Goto(t, "idle")
  /\ UNCHANGED <<word, asleep, cvVars, nodes, ref, mutex, count>>

-----------------------------------------------------------------------------
Step(t) ==
  \/ LockCas(t) \/ LockMark(t) \/ LockWait(t) \/ LockRetry(t)
  \/ Unlock(t) \/ UnlockWake(t)
  \/ Register(t) \/ ReleaseMutex(t) \/ WaitBarrier(t) \/ Claim(t) \/ RemoveNode(t)
  \/ Notify(t) \/ NotifyWake(t) \/ Relock(t) \/ Pass(t) \/ PassWake(t) \/ Done(t)
  \/ SigStart(t) \/ SigLoop(t) \/ SigSplit(t) \/ Drain(t)
  \/ OpenFirst(t) \/ WakeFirst(t) \/ SigDone(t)

\* Every call is over, or waits for a signal that nobody sends.
Over ==
  /\ \A t \in Threads : pc[t] = "idle" \/ (pc[t] = "wait" /\ t \in asleep)
  /\ UNCHANGED vars

Next ==
  \/ \E t \in Threads :
       \/ Step(t) \/ CallWait(t) \/ GiveUp(t)
       \/ \E k \in {1, All} : CallSignal(t, k)
  \/ Over

Fairness == \A t \in Threads : WF_vars(Step(t))

Spec == Init /\ [][Next]_vars /\ Fairness

-----------------------------------------------------------------------------
\* The node of t exists: t is in __pthread_cond_timedwait.
Live(t) == job[t] \in {"register", "remove", "barrier"}

\* The waiters that can be reached from the tail of the list: the smallest set
\* that has the tail and with a node the one before it.
Listed ==
  {t \in Threads : tail # None /\ \A S \in SUBSET Threads :
      tail \in S /\ (\A x \in S : prev[x] # None => prev[x] \in S) => t \in S}

\* Nodes are on stacks: a thread that follows a pointer to another one's node,
\* or to the counter of a signaller, finds that call still in progress, and the
\* barrier it opens is the closed one of a signalled waiter.
NodesAlive ==
  \A t \in Threads :
    /\ pc[t] = "register" /\ tail # None => Live(head)
    /\ pc[t] = "sigloop" /\ p[t] # None =>
         Live(p[t]) /\ (next[p[t]] # None => Live(next[p[t]]))
    /\ pc[t] = "remove" =>
         /\ head # t /\ prev[t] # None => Live(prev[t])
         /\ tail # t /\ next[t] # None => Live(next[t])
    /\ pc[t] = "notify" => job[notify[t]] = "signal" /\ ref[notify[t]] > 0
    /\ pc[t] = "pass" /\ prev[t] # None => word[prev[t]] = 2 /\ state[prev[t]] = SIGNALED
    /\ pc[t] = "first" => word[first[t]] = 2 /\ state[first[t]] = SIGNALED

\* No waiter is orphaned: however signals split the list and leaving waiters
\* take themselves out, one that nobody has signalled is in the list.
WaitingListed ==
  \A t \in Threads :
    Live(t) /\ pc[t] \in {"unlock", "release", "wait", "claim"} /\ state[t] = WAITING
      => t \in Listed

\* What the hand-over adds to the waiters of the mutex it also takes away.
WaitersBalanced ==
  /\ mwaiters >= 0
  /\ (\A t \in Threads : ~Live(t)) => mwaiters = 0

\* "Lock barrier first to control wake order": a signalled waiter goes for the
\* mutex only after the waiter before it in its group has had the mutex and has
\* passed the wake-up on, even if its own wait failed at the same moment.
WokenInOrder ==
  \A t, x \in Threads :
    /\ job[t] = "barrier" /\ pc[t] \in {"relock", "pass", "passwake", "done"}
    /\ next[t] = x /\ prev[x] = t
    => pc[x] \in {"passwake", "done"}

\* A waiter that was signalled returns, however long the chain before it.
SignaledReturns ==
  \A t \in Waiting : Live(t) /\ state[t] = SIGNALED ~> ~Live(t)

\* A signal or broadcast returns although it waits for waiters that leave.
SignalReturns ==
  \A t \in Signalling : job[t] = "signal" ~> job[t] # "signal"

=============================================================================
