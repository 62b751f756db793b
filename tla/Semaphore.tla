------------------------------ MODULE Semaphore ------------------------------
(***************************************************************************)
(* One unnamed semaphore: sem_init, sem_post, sem_wait, sem_timedwait,     *)
(* sem_trywait and sem_getvalue.  The value -1 means none left and someone *)
(* may be asleep.  As in RWLock the busy-wait loop and the attempt before  *)
(* it are left to the attempts of the loop, and sem_wait is a timed wait   *)
(* that does not time out.                                                 *)
(***************************************************************************)
EXTENDS ThreadCalls

CONSTANTS
  SEM_VALUE_MAX,
  SemValues,      \* the values sem_init may be called with
  SemCalls        \* bound: how many calls each thread makes

ASSUME SemaphoreAssumption ==
  /\ SEM_VALUE_MAX \in Nat \ {0}
  /\ SemValues \subseteq 0 .. SEM_VALUE_MAX
  /\ SemCalls \in [Threads -> Nat]

VARIABLES
  semval,       \* __val[0]
  semwaiters,   \* __val[1]
  semread,      \* the value each thread has read
  semnonzero,   \* it found waiters
  semtokens,    \* tokens put in less tokens taken out (a history variable)
  semapart      \* no two posts have overlapped so far (a history variable)

semVars == <<semval, semwaiters, semread, semnonzero, semtokens, semapart>>

SemOps == {"sem_timedwait", "sem_trywait", "sem_post"}

\* sem_init
SemInit ==
  /\ semval \in SemValues
  /\ semwaiters = 0
  /\ semread = [t \in Threads |-> 0]
  /\ semnonzero = [t \in Threads |-> FALSE]
  /\ semtokens = semval
  /\ semapart = TRUE

-----------------------------------------------------------------------------
SemReturn(t) ==
  /\ Return(t)
  /\ semread' = [semread EXCEPT ![t] = 0]
  /\ semnonzero' = [semnonzero EXCEPT ![t] = FALSE]

SemCall(t, o) ==
  /\ Call(t, o, IF o = "sem_post" THEN "postload" ELSE "semload")
  /\ UNCHANGED semVars

\* sem_trywait reads the value, then the waiters.
SemLoad(t) ==
  /\ pc[t] = "semload"
  /\ IF semval > 0
     THEN Goto(t, "semwaiters") /\ semread' = [semread EXCEPT ![t] = semval] /\ UNCHANGED semnonzero
     ELSE IF op[t] = "sem_trywait" THEN SemReturn(t)
     ELSE Goto(t, "seminc") /\ UNCHANGED <<semread, semnonzero>>
  /\ UNCHANGED <<asleep, semval, semwaiters, semtokens, semapart>>

SemSeeWaiters(t) ==
  /\ pc[t] = "semwaiters"
  /\ semnonzero' = [semnonzero EXCEPT ![t] = semread[t] = 1 /\ semwaiters # 0]
  /\ Goto(t, "semcas")
  /\ UNCHANGED <<asleep, semval, semwaiters, semread, semtokens, semapart>>

\* The value after a token is taken: with waiters the last one leaves -1.
Taken(t) == semread[t] - 1 - (IF semnonzero[t] THEN 1 ELSE 0)

SemCas(t) ==
  /\ pc[t] = "semcas"
  /\ IF semval = semread[t]
     THEN /\ semval' = Taken(t)
          /\ semtokens' = semtokens - 1
          /\ SemReturn(t)
     ELSE Goto(t, "semload") /\ UNCHANGED <<semval, semtokens, semread, semnonzero>>
  /\ UNCHANGED <<asleep, semwaiters, semapart>>

SemInc(t) ==
  /\ pc[t] = "seminc"
  /\ semwaiters' = semwaiters + 1
  /\ Goto(t, "semmark")
  /\ UNCHANGED <<asleep, semval, semread, semnonzero, semtokens, semapart>>

SemMark(t) ==
  /\ pc[t] = "semmark"
  /\ semval' = IF semval = 0 THEN -1 ELSE semval
  /\ Goto(t, "semsleep")
  /\ UNCHANGED <<asleep, semwaiters, semread, semnonzero, semtokens, semapart>>

SemSleep(t) ==
  /\ pc[t] = "semsleep"
  /\ FutexWait(t, semval = -1, "semdec")
  /\ UNCHANGED semVars

\* __timedwait_cp fails: the deadline passes before or during the sleep.
SemTimeout(t) ==
  /\ pc[t] = "semsleep" \/ (pc[t] = "semdec" /\ t \in asleep)
  /\ asleep' = asleep \ {t}
  /\ Goto(t, "semgiveup")
  /\ UNCHANGED semVars

\* cleanup
SemDec(t) ==
  /\ pc[t] \in {"semdec", "semgiveup"} /\ t \notin asleep
  /\ semwaiters' = semwaiters - 1
  /\ IF pc[t] = "semgiveup" THEN SemReturn(t)
     ELSE Goto(t, "semload") /\ UNCHANGED <<semread, semnonzero>>
  /\ UNCHANGED <<asleep, semval, semtokens, semapart>>

-----------------------------------------------------------------------------
(* sem_post *)

\* t has read the value and its compare-and-swap is still to come.
Posting(t) == pc[t] \in {"postwaiters", "postcas"}

PostLoad(t) ==
  /\ pc[t] = "postload"
  /\ semread' = [semread EXCEPT ![t] = semval]
  /\ semapart' = (semapart /\ \A u \in Threads \ {t} : ~Posting(u))
  /\ Goto(t, "postwaiters")
  /\ UNCHANGED <<asleep, semval, semwaiters, semnonzero, semtokens>>

\* EOVERFLOW is found after the waiters are read.
PostSeeWaiters(t) ==
  /\ pc[t] = "postwaiters"
  /\ IF semread[t] = SEM_VALUE_MAX THEN SemReturn(t)
     ELSE /\ semnonzero' = [semnonzero EXCEPT ![t] = semwaiters # 0]
          /\ Goto(t, "postcas") /\ UNCHANGED semread
  /\ UNCHANGED <<asleep, semval, semwaiters, semtokens, semapart>>

\* Mutant: a post on -1 stores 0.
PostedPlain(t) == semread[t] + 1

\* A post on -1 skips zero.
Posted(t) == semread[t] + 1 + (IF semread[t] < 0 THEN 1 ELSE 0)

\* Mutant: a value that is not negative is taken to mean that nobody sleeps.
PostWakesOnMinus(t) == semread[t] < 0

PostWakes(t) == semread[t] < 0 \/ semnonzero[t]

PostCas(t) ==
  /\ pc[t] = "postcas"
  /\ IF semval = semread[t]
     THEN /\ semval' = Posted(t)
          /\ semtokens' = semtokens + 1
          /\ IF PostWakes(t)
             THEN Goto(t, "postwake") /\ UNCHANGED <<semread, semnonzero>>
             ELSE SemReturn(t)
     ELSE Goto(t, "postload") /\ UNCHANGED <<semval, semtokens, semread, semnonzero>>
  /\ UNCHANGED <<asleep, semwaiters, semapart>>

PostWake(t) ==
  /\ pc[t] = "postwake"
  /\ WakeUp(asleep, 1)
  /\ SemReturn(t)
  /\ UNCHANGED <<semval, semwaiters, semtokens, semapart>>

-----------------------------------------------------------------------------
SemStep(t) ==
  \/ SemLoad(t) \/ SemSeeWaiters(t) \/ SemCas(t) \/ SemInc(t) \/ SemMark(t)
  \/ SemSleep(t) \/ SemDec(t)
  \/ PostLoad(t) \/ PostSeeWaiters(t) \/ PostCas(t) \/ PostWake(t)

SemNext ==
  \E t \in Threads :
    SemStep(t) \/ SemTimeout(t) \/ \E o \in SemOps : SemCall(t, o)

SemFairness == \A t \in Threads : WF_<<threadVars, semVars>>(SemStep(t))

SemSpec ==
  /\ ThreadsInit(SemCalls) /\ SemInit
  /\ [][SemNext]_<<threadVars, semVars>>
  /\ SemFairness

-----------------------------------------------------------------------------
SemTypeOK ==
  /\ semval \in -1 .. SEM_VALUE_MAX
  /\ semwaiters \in Int
  /\ semread \in [Threads -> -1 .. SEM_VALUE_MAX]
  /\ semnonzero \in [Threads -> BOOLEAN]
  /\ semtokens \in Int
  /\ semapart \in BOOLEAN

\* sem_getvalue
SemGetValue == IF semval < 0 THEN 0 ELSE semval

\* No post is lost and no token is taken twice: what sem_getvalue reports is
\* the initial value, plus every post that succeeded, less every wait that
\* did, whichever of them meet on the values -1, 0 and SEM_VALUE_MAX.
SemTokensKept == SemGetValue = semtokens

\* The threads that will look at the value again before they sleep, or wake
\* a sleeper.
SemRescuers ==
  {t \in Threads :
     \/ pc[t] = "postwake"
     \/ op[t] = "sem_timedwait" /\ pc[t] \in {"semload", "semwaiters", "semcas"}
     \/ pc[t] = "semdec" /\ t \notin asleep}

\* While no two posts overlap between their reading of the value and their
\* compare-and-swap, somebody sees to a token beside which a thread sleeps:
\* neither a waiter that times out or overtakes another, nor waiters that
\* are counted by one side and not yet seen by the other, lose a wake-up.
SemTokenServed ==
  semapart /\ semval > 0 /\ asleep # {} => SemRescuers # {}

\* The same of any posts, when everybody has come to rest: no thread sleeps
\* in sem_wait beside a token while no call is running.  POSIX says of sem_post that
\* with a positive result no threads were blocked.
SemTokenTaken ==
  semval > 0 /\ asleep # {} => \E t \in Threads \ asleep : pc[t] # "idle"
=============================================================================
