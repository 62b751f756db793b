------------------------------ MODULE TimedWait ------------------------------
(***************************************************************************)
(* __timedwait and __wake on one futex word, down to the calls of the      *)
(* host: the deadline arithmetic, the option that carries the timeout, the *)
(* comparison made before the host is called, what its answer is turned    *)
(* into, and the loop of single wake-ups.                                  *)
(*                                                                         *)
(* The word only grows, so that a thread asleep on an old value is one     *)
(* that missed a change.                                                   *)
(***************************************************************************)
EXTENDS Integers, FiniteSets

CONSTANTS
  Waiters,    \* threads that wait on the word
  NSEC,       \* nanoseconds in a second
  Deadlines,  \* the deadlines callers give: records [sec, nsec], or Forever
  Forever,    \* no deadline (at = 0)
  Counts,     \* the counts __wake is called with
  INT_MAX,    \* the count that asks for all
  MaxClock,   \* bound on the clock
  MaxWord,    \* bound on the word
  HostEinval  \* the host refuses a stale expected value with EINVAL

ASSUME TimedAssumption ==
  /\ NSEC \in Nat \ {0}
  /\ Forever \notin Deadlines
  /\ Deadlines \subseteq [sec : Int, nsec : Int]
  /\ INT_MAX \in Nat \ {0} /\ Counts \subseteq 1 .. INT_MAX
  /\ MaxClock \in Nat /\ MaxWord \in Nat
  /\ HostEinval \in BOOLEAN

VARIABLES
  clock,     \* the clock, in nanoseconds
  word,      \* the futex word
  stage,     \* where each waiter is
  at,        \* its deadline
  expected,  \* the value it waits on
  ns,        \* max_wait_ns
  until,     \* when the host gives up on it, or NONE
  woken,     \* the host's answer
  result,    \* what __timedwait returned last
  wpc,       \* where the waking thread is
  cnt        \* wake-ups it has still to ask for, or INT_MAX

timedVars == <<clock, word, stage, at, expected, ns, until, woken, result, wpc, cnt>>
args == <<at, expected>>
waker == <<wpc, cnt>>

\* __WASI_OPTION_NONE
NONE == -1

TimedInit ==
  /\ clock = 0 /\ word = 0
  /\ stage = [t \in Waiters |-> "idle"]
  /\ at = [t \in Waiters |-> Forever]
  /\ expected = [t \in Waiters |-> 0]
  /\ ns = [t \in Waiters |-> -1]
  /\ until = [t \in Waiters |-> NONE]
  /\ woken = [t \in Waiters |-> FALSE]
  /\ result = [t \in Waiters |-> "none"]
  /\ wpc = "idle" /\ cnt = 0

TimedGoto(t, l) == stage' = [stage EXCEPT ![t] = l]

TimedReturn(t, r) ==
  /\ TimedGoto(t, "idle")
  /\ result' = [result EXCEPT ![t] = r]

Tick ==
  /\ clock < MaxClock
  /\ clock' = clock + 1
  /\ UNCHANGED <<word, stage, args, ns, until, woken, result, waker>>

-----------------------------------------------------------------------------
(* __timedwait *)

\* The value the caller waits on may be out of date.  tv_nsec is compared as
\* an unsigned number: a negative one is refused as well.
CallTimedWait(t, a, v) ==
  /\ stage[t] = "idle"
  /\ at' = [at EXCEPT ![t] = a]
  /\ expected' = [expected EXCEPT ![t] = v]
  /\ woken' = [woken EXCEPT ![t] = FALSE]
  /\ IF a # Forever /\ a.nsec \notin 0 .. NSEC - 1
     THEN TimedReturn(t, "EINVAL")
     ELSE TimedGoto(t, "clock") /\ result' = [result EXCEPT ![t] = "none"]
  /\ UNCHANGED <<clock, word, ns, until, waker>>

\* The time left: seconds and nanoseconds are subtracted, a negative number of
\* nanoseconds borrows a second.
TimeLeft(a, now) ==
  LET sec == a.sec - (now \div NSEC)
      nsec == a.nsec - (now % NSEC)
  IN IF nsec < 0 THEN [sec |-> sec - 1, nsec |-> nsec + NSEC]
                 ELSE [sec |-> sec, nsec |-> nsec]

\* The clock is read and __futex4_cp turns the time left into nanoseconds.
ReadClock(t) ==
  LET to == TimeLeft(at[t], clock) IN
  /\ stage[t] = "clock"
  /\ \/ /\ at[t] = Forever
        /\ ns' = [ns EXCEPT ![t] = -1]
        /\ TimedGoto(t, "compare") /\ UNCHANGED result
     \/ /\ at[t] # Forever /\ to.sec >= 0
        /\ ns' = [ns EXCEPT ![t] = to.sec * NSEC + to.nsec]
        /\ TimedGoto(t, "compare") /\ UNCHANGED result
     \/ /\ at[t] # Forever /\ to.sec < 0
        /\ TimedReturn(t, "ETIMEDOUT") /\ UNCHANGED ns
  /\ UNCHANGED <<clock, word, args, until, woken, waker>>

\* clock_gettime fails.
ClockFails(t) ==
  /\ stage[t] = "clock" /\ at[t] # Forever
  /\ TimedReturn(t, "EINVAL")
  /\ UNCHANGED <<clock, word, args, ns, until, woken, waker>>

\* __wasilibc_futex_wait_wasix compares once itself (EWOULDBLOCK becomes 0) ...
Compare(t) ==
  /\ stage[t] = "compare"
  /\ IF word # expected[t] THEN TimedReturn(t, "ok") ELSE TimedGoto(t, "host") /\ UNCHANGED result
  /\ UNCHANGED <<clock, word, args, ns, until, woken, waker>>

\* ... and calls the host, with a timeout if max_wait_ns is positive.  The host
\* compares and sleeps in one step; of a stale value it says EINVAL, for which
\* the code traps, or it answers at once that the thread was woken.
HostWait(t) ==
  /\ stage[t] = "host"
  /\ \/ /\ word = expected[t]
        /\ until' = [until EXCEPT ![t] = IF ns[t] > 0 THEN clock + ns[t] ELSE NONE]
        /\ TimedGoto(t, "asleep") /\ UNCHANGED woken
     \/ /\ word # expected[t] /\ HostEinval
        /\ TimedGoto(t, "trap") /\ UNCHANGED <<until, woken>>
     \/ /\ word # expected[t] /\ ~HostEinval
        /\ woken' = [woken EXCEPT ![t] = TRUE]
        /\ TimedGoto(t, "answer") /\ UNCHANGED until
  /\ ns' = [ns EXCEPT ![t] = -1]
  /\ UNCHANGED <<clock, word, args, result, waker>>

HostTimeout(t) ==
  /\ stage[t] = "asleep" /\ until[t] # NONE /\ clock >= until[t]
  /\ TimedGoto(t, "answer")
  /\ UNCHANGED <<clock, word, args, ns, until, woken, result, waker>>

\* Mutant: the host's answer is not looked at.
AnswerByWord(t) ==
  /\ stage[t] = "answer"
  /\ TimedReturn(t, IF word = expected[t] THEN "ETIMEDOUT" ELSE "ok")
  /\ until' = [until EXCEPT ![t] = NONE]
  /\ UNCHANGED <<clock, word, args, ns, woken, waker>>

\* A timeout is reported unless the word has changed all the same.
Answer(t) ==
  /\ stage[t] = "answer"
  /\ TimedReturn(t, IF ~woken[t] /\ word = expected[t] THEN "ETIMEDOUT" ELSE "ok")
  /\ until' = [until EXCEPT ![t] = NONE]
  /\ UNCHANGED <<clock, word, args, ns, woken, waker>>

-----------------------------------------------------------------------------
(* The thread that changes the word and calls __wake. *)

Asleep == {t \in Waiters : stage[t] = "asleep"}

StoreWord(c) ==
  /\ wpc = "idle" /\ word < MaxWord
  /\ word' = word + 1
  /\ cnt' = c
  /\ wpc' = "call"
  /\ UNCHANGED <<clock, stage, args, ns, until, woken, result>>

CallWake ==
  /\ wpc = "call"
  /\ wpc' = IF cnt = INT_MAX THEN "all" ELSE "wake"
  /\ UNCHANGED <<clock, word, stage, args, ns, until, woken, result, cnt>>

\* The host wakes the threads of S.
Rouse(S) ==
  /\ stage' = [t \in Waiters |-> IF t \in S THEN "answer" ELSE stage[t]]
  /\ woken' = [t \in Waiters |-> woken[t] \/ t \in S]

\* Mutant: INT_MAX is not told apart, and wakes one thread.
WakeAllOnce ==
  /\ wpc = "all"
  /\ \E S \in SUBSET Asleep :
       /\ Cardinality(S) = IF Asleep = {} THEN 0 ELSE 1
       /\ Rouse(S)
  /\ wpc' = "idle"
  /\ UNCHANGED <<clock, word, args, ns, until, result, cnt>>

HostWakeAll ==
  /\ wpc = "all"
  /\ Rouse(Asleep)
  /\ wpc' = "idle"
  /\ UNCHANGED <<clock, word, args, ns, until, result, cnt>>

\* One turn of the loop: one thread, if there is one.
HostWake ==
  /\ wpc = "wake" /\ cnt > 0
  /\ \E S \in SUBSET Asleep :
       /\ Cardinality(S) = IF Asleep = {} THEN 0 ELSE 1
       /\ Rouse(S)
  /\ cnt' = cnt - 1
  /\ UNCHANGED <<clock, word, args, ns, until, result, wpc>>

WakeDone ==
  /\ wpc = "wake" /\ cnt = 0
  /\ wpc' = "idle"
  /\ UNCHANGED <<clock, word, stage, args, ns, until, woken, result, cnt>>

-----------------------------------------------------------------------------
TimedNext ==
  \/ Tick
  \/ \E t \in Waiters :
       \/ \E a \in Deadlines \cup {Forever}, v \in 0 .. word : CallTimedWait(t, a, v)
       \/ ReadClock(t) \/ ClockFails(t) \/ Compare(t) \/ HostWait(t) \/ HostTimeout(t) \/ Answer(t)
  \/ \E c \in Counts : StoreWord(c)
  \/ CallWake \/ HostWakeAll \/ HostWake \/ WakeDone

TimedSpec == TimedInit /\ [][TimedNext]_timedVars

-----------------------------------------------------------------------------
\* The types of the variables.
TimedTypeOK ==
  /\ clock \in Nat /\ word \in Nat
  /\ stage \in [Waiters -> {"idle", "clock", "compare", "host", "asleep", "answer", "trap"}]
  /\ at \in [Waiters -> Deadlines \cup {Forever}]
  /\ expected \in [Waiters -> Nat]
  /\ ns \in [Waiters -> Int] /\ until \in [Waiters -> Int]
  /\ woken \in [Waiters -> BOOLEAN]
  /\ result \in [Waiters -> {"none", "ok", "ETIMEDOUT", "EINVAL"}]
  /\ wpc \in {"idle", "call", "all", "wake"} /\ cnt \in Nat

\* ETIMEDOUT is the truth: there was a deadline, it is over, whatever was borrowed from the
\* seconds, and the host had not woken the thread (a wake-up given to a thread
\* that reports a timeout would be lost to the others).
TimeoutIsReal ==
  \A t \in Waiters : result[t] = "ETIMEDOUT" =>
     /\ at[t] # Forever
     /\ clock >= at[t].sec * NSEC + at[t].nsec
     /\ ~woken[t]

\* When a __wake(addr, -1) that followed a change of the word is over, no
\* thread sleeps on an older value, wherever it was when the word changed.
AllReached ==
  wpc = "idle" /\ cnt = INT_MAX =>
     \A t \in Waiters : stage[t] = "asleep" => expected[t] = word

\* A wait that was given a deadline does not sleep without a timeout: only a
\* negative max_wait_ns means forever (the comment on futex waiting in __wait.c).
TimedSleepBounded ==
  \A t \in Waiters : stage[t] = "asleep" /\ at[t] # Forever => until[t] # NONE

=============================================================================
