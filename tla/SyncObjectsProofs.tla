-------------------------- MODULE SyncObjectsProofs --------------------------
(***************************************************************************)
(* Proofs about Semaphore, Once, RWLock and Barrier, which share the       *)
(* threads and their calls. The invariant of each of the first three has   *)
(* to be strengthened with what a thread knows of the value it read before *)
(* its compare-and-swap: the swap succeeds only if the word is that value  *)
(* again, whatever the other threads did in between, so the step that is   *)
(* right for the value read is right for the word.                         *)
(***************************************************************************)
EXTENDS Semaphore, Once, RWLock, Barrier, FiniteSetTheorems, TLAPS

(***************************************************************************)
(*                               Semaphores                                *)
(***************************************************************************)

SemLabels ==
  {"idle", "semload", "semwaiters", "semcas", "seminc", "semmark", "semsleep", "semdec",
   "semgiveup", "postload", "postwaiters", "postcas", "postwake"}

\* What a thread knows of the value it has read.
SemReadOK(t) ==
  /\ pc[t] \in {"semwaiters", "semcas"} => semread[t] > 0
  /\ pc[t] = "semcas" /\ semnonzero[t] => semread[t] = 1
  /\ pc[t] = "postcas" => semread[t] < SEM_VALUE_MAX

SemIInv ==
  /\ SemTypeOK
  /\ pc \in [Threads -> SemLabels]
  /\ \A t \in Threads : SemReadOK(t)
  /\ SemTokensKept

\* A step of t that leaves the value of the semaphore alone.
LEMMA SemQuiet ==
  ASSUME SemIInv, SemTypeOK', NEW t \in Threads,
         NEW l \in SemLabels, pc' = [pc EXCEPT ![t] = l],
         \A u \in Threads \ {t} : semread'[u] = semread[u] /\ semnonzero'[u] = semnonzero[u],
         SemReadOK(t)', SemTokensKept'
  PROVE  SemIInv'
BY DEF SemIInv, SemReadOK

LEMMA SemReturnTyped ==
  ASSUME SemIInv, NEW t \in Threads, SemReturn(t)
  PROVE  /\ pc' = [pc EXCEPT ![t] = "idle"]
         /\ semread' \in [Threads -> -1 .. SEM_VALUE_MAX]
         /\ semnonzero' \in [Threads -> BOOLEAN]
         /\ \A u \in Threads \ {t} : semread'[u] = semread[u] /\ semnonzero'[u] = semnonzero[u]
         /\ SemReadOK(t)'
BY SemaphoreAssumption
DEF SemIInv, SemTypeOK, SemReturn, Return, SemReadOK, SemaphoreAssumption

LEMMA SemStepIInv ==
  ASSUME SemIInv, NEW t \in Threads, SemStep(t)
  PROVE  SemIInv'
<1> USE SemaphoreAssumption DEF SemaphoreAssumption, SemLabels
<1>1. CASE SemLoad(t)
  <2>1. CASE semval > 0
    BY <1>1, <2>1, SemQuiet
    DEF SemLoad, Goto, SemIInv, SemTypeOK, SemReadOK, SemTokensKept, SemGetValue
  <2>2. CASE ~ (semval > 0) /\ op[t] = "sem_trywait"
    <3>1. SemReturn(t) /\ UNCHANGED <<semval, semwaiters, semtokens, semapart>>
      BY <1>1, <2>2 DEF SemLoad
    <3>2. QED
      BY <3>1, SemReturnTyped, SemQuiet DEF SemIInv, SemTypeOK, SemTokensKept, SemGetValue
  <2>3. CASE ~ (semval > 0) /\ op[t] # "sem_trywait"
    BY <1>1, <2>3, SemQuiet
    DEF SemLoad, Goto, SemIInv, SemTypeOK, SemReadOK, SemTokensKept, SemGetValue
  <2>4. QED
    BY <2>1, <2>2, <2>3
<1>2. CASE SemSeeWaiters(t)
  BY <1>2, SemQuiet
  DEF SemSeeWaiters, Goto, SemIInv, SemTypeOK, SemReadOK, SemTokensKept, SemGetValue
<1>3. CASE SemCas(t)
  <2>1. CASE semval = semread[t]
    <3>1. semval' = Taken(t) /\ semtokens' = semtokens - 1 /\ SemReturn(t) /\ UNCHANGED <<semwaiters, semapart>>
      BY <1>3, <2>1 DEF SemCas
    <3>2. semval > 0 /\ (semnonzero[t] => semval = 1)
      BY <1>3, <2>1 DEF SemCas, SemIInv, SemReadOK
    <3>3. semval' \in -1 .. SEM_VALUE_MAX /\ SemGetValue' = SemGetValue - 1
      BY <2>1, <3>1, <3>2 DEF Taken, SemIInv, SemTypeOK, SemGetValue
    <3>4. QED
      BY <3>1, <3>3, SemReturnTyped, SemQuiet DEF SemIInv, SemTypeOK, SemTokensKept
  <2>2. CASE semval # semread[t]
    BY <1>3, <2>2, SemQuiet
    DEF SemCas, Goto, SemIInv, SemTypeOK, SemReadOK, SemTokensKept, SemGetValue
  <2>3. QED
    BY <2>1, <2>2
<1>4. CASE SemInc(t)
  <2>1. SemTypeOK' /\ SemTokensKept'
    BY <1>4 DEF SemInc, SemIInv, SemTypeOK, SemTokensKept, SemGetValue
  <2>2. SemReadOK(t)'
    BY <1>4 DEF SemInc, Goto, SemIInv, SemReadOK
  <2>3. QED
    BY <1>4, <2>1, <2>2, SemQuiet DEF SemInc, Goto
<1>5. CASE SemMark(t)
  <2>1. SemTypeOK' /\ SemTokensKept'
    BY <1>5 DEF SemMark, SemIInv, SemTypeOK, SemTokensKept, SemGetValue
  <2>2. SemReadOK(t)'
    BY <1>5 DEF SemMark, Goto, SemIInv, SemReadOK
  <2>3. QED
    BY <1>5, <2>1, <2>2, SemQuiet DEF SemMark, Goto
<1>6. CASE SemSleep(t)
  BY <1>6, SemQuiet
  DEF SemSleep, FutexWait, Goto, semVars, SemIInv, SemTypeOK, SemReadOK, SemTokensKept, SemGetValue
<1>7. CASE SemDec(t)
  <2>1. CASE pc[t] = "semgiveup"
    <3>1. SemReturn(t) /\ semwaiters' = semwaiters - 1 /\ UNCHANGED <<semval, semtokens, semapart>>
      BY <1>7, <2>1 DEF SemDec
    <3>2. QED
      BY <3>1, SemReturnTyped, SemQuiet DEF SemIInv, SemTypeOK, SemTokensKept, SemGetValue
  <2>2. CASE pc[t] # "semgiveup"
    BY <1>7, <2>2, SemQuiet
    DEF SemDec, Goto, SemIInv, SemTypeOK, SemReadOK, SemTokensKept, SemGetValue
  <2>3. QED
    BY <2>1, <2>2
<1>8. CASE PostLoad(t)
  BY <1>8, SemQuiet
  DEF PostLoad, Goto, SemIInv, SemTypeOK, SemReadOK, SemTokensKept, SemGetValue
<1>9. CASE PostSeeWaiters(t)
  <2>1. CASE semread[t] = SEM_VALUE_MAX
    <3>1. SemReturn(t) /\ UNCHANGED <<semval, semwaiters, semtokens, semapart>>
      BY <1>9, <2>1 DEF PostSeeWaiters
    <3>2. QED
      BY <3>1, SemReturnTyped, SemQuiet DEF SemIInv, SemTypeOK, SemTokensKept, SemGetValue
  <2>2. CASE semread[t] # SEM_VALUE_MAX
    <3>1. SemTypeOK' /\ SemTokensKept'
      BY <1>9, <2>2 DEF PostSeeWaiters, SemIInv, SemTypeOK, SemTokensKept, SemGetValue
    <3>2. SemReadOK(t)'
      BY <1>9, <2>2 DEF PostSeeWaiters, Goto, SemIInv, SemTypeOK, SemReadOK
    <3>3. QED
      BY <1>9, <2>2, <3>1, <3>2, SemQuiet DEF PostSeeWaiters, Goto, SemIInv, SemTypeOK
  <2>3. QED
    BY <2>1, <2>2
<1>10. CASE PostCas(t)
  <2>1. CASE semval = semread[t]
    <3>1. semval' = Posted(t) /\ semtokens' = semtokens + 1 /\ UNCHANGED <<semwaiters, semapart>>
      BY <1>10, <2>1 DEF PostCas
    <3>2. semval < SEM_VALUE_MAX
      BY <1>10, <2>1 DEF PostCas, SemIInv, SemReadOK
    <3>3. semval' \in -1 .. SEM_VALUE_MAX /\ SemGetValue' = SemGetValue + 1
      BY <2>1, <3>1, <3>2 DEF Posted, SemIInv, SemTypeOK, SemGetValue
    <3>4. SemTokensKept' /\ semtokens' \in Int /\ semwaiters' \in Int /\ semapart' \in BOOLEAN
      BY <3>1, <3>3 DEF SemIInv, SemTypeOK, SemTokensKept
    <3>5. CASE PostWakes(t)
      BY <1>10, <2>1, <3>3, <3>4, <3>5, SemQuiet DEF PostCas, Goto, SemIInv, SemTypeOK, SemReadOK
    <3>6. CASE ~ PostWakes(t)
      <4>1. SemReturn(t)
        BY <1>10, <2>1, <3>6 DEF PostCas
      <4>2. QED
        BY <3>3, <3>4, <4>1, SemReturnTyped, SemQuiet DEF SemIInv, SemTypeOK
    <3>7. QED
      BY <3>5, <3>6
  <2>2. CASE semval # semread[t]
    BY <1>10, <2>2, SemQuiet
    DEF PostCas, Goto, SemIInv, SemTypeOK, SemReadOK, SemTokensKept, SemGetValue
  <2>3. QED
    BY <2>1, <2>2
<1>11. CASE PostWake(t)
  <2>1. SemReturn(t) /\ UNCHANGED <<semval, semwaiters, semtokens, semapart>>
    BY <1>11 DEF PostWake
  <2>2. QED
    BY <2>1, SemReturnTyped, SemQuiet DEF SemIInv, SemTypeOK, SemTokensKept, SemGetValue
<1>12. QED
  BY <1>1, <1>2, <1>3, <1>4, <1>5, <1>6, <1>7, <1>8, <1>9, <1>10, <1>11 DEF SemStep

LEMMA SemNextIInv == SemIInv /\ [SemNext]_<<threadVars, semVars>> => SemIInv'
<1> SUFFICES ASSUME SemIInv, [SemNext]_<<threadVars, semVars>> PROVE SemIInv'
  OBVIOUS
<1>1. ASSUME NEW t \in Threads, SemStep(t) PROVE SemIInv'
  BY <1>1, SemStepIInv
<1>2. ASSUME NEW t \in Threads, SemTimeout(t) PROVE SemIInv'
  BY <1>2, SemQuiet
  DEF SemTimeout, Goto, semVars, SemIInv, SemTypeOK, SemReadOK, SemTokensKept, SemGetValue, SemLabels
<1>3. ASSUME NEW t \in Threads, NEW o \in SemOps, SemCall(t, o) PROVE SemIInv'
  BY <1>3, SemQuiet
  DEF SemCall, Call, semVars, SemIInv, SemTypeOK, SemReadOK, SemTokensKept, SemGetValue, SemLabels
<1>4. CASE UNCHANGED <<threadVars, semVars>>
  BY <1>4 DEF threadVars, semVars, SemIInv, SemTypeOK, SemReadOK, SemTokensKept, SemGetValue
<1>5. QED
  BY <1>1, <1>2, <1>3, <1>4 DEF SemNext

\* The strengthened invariant of the semaphore holds in every reachable state,
\* its type invariant included.
THEOREM SemInvariance == SemSpec => []SemIInv
<1>1. ThreadsInit(SemCalls) /\ SemInit => SemIInv
  BY SemaphoreAssumption
  DEF SemaphoreAssumption, ThreadsInit, SemInit, SemIInv, SemTypeOK, SemReadOK, SemTokensKept,
      SemGetValue, SemLabels
<1>2. QED
  BY <1>1, SemNextIInv, PTL DEF SemSpec

\* sem_post and sem_wait keep every token, for any number of threads and calls
\* and any SEM_VALUE_MAX: what sem_getvalue reports is the initial value, plus
\* every post that succeeded, less every wait that did.
THEOREM SemSafe == SemSpec => []SemTokensKept
<1>1. SemIInv => SemTokensKept
  BY DEF SemIInv
<1>2. QED
  BY <1>1, SemInvariance, PTL

(***************************************************************************)
(* A token beside a sleeper is seen to.  The rescuers are at least as many *)
(* as the tokens: a post adds one of each, a waiter that takes a token     *)
(* takes itself away.  The post that wakes nobody is the difficulty: it    *)
(* goes by the waiters it saw earlier.  While posts do not overlap, the    *)
(* value only falls between its reading and its compare-and-swap, so that  *)
(* the swap succeeds only if nobody changed the value in between, and then *)
(* nobody can have gone to sleep on -1.                                    *)
(***************************************************************************)

\* The threads that __val[1] counts.
SemWaiting == {t \in Threads : pc[t] \in {"semmark", "semsleep", "semdec", "semgiveup"}}

SemPlaces ==
  /\ op \in [Threads -> SemOps \cup {"none"}]
  /\ \A t \in Threads :
       /\ pc[t] \in {"semload", "semwaiters", "semcas"} => op[t] # "sem_post"
       /\ pc[t] \in {"semload", "semwaiters", "semcas"} => op[t] # "none"
       /\ pc[t] \in {"seminc", "semmark", "semsleep", "semdec"} => op[t] = "sem_timedwait"
  /\ \A t \in asleep : t \in Threads /\ pc[t] = "semdec"

\* What a post knows when it comes to its compare-and-swap.
SemPostOK(t) ==
  Posting(t) =>
    /\ \A u \in Threads : Posting(u) => u = t
    /\ semval <= semread[t]
    /\ pc[t] = "postcas" /\ semval = semread[t] /\ semval >= 0 /\ ~semnonzero[t] => asleep = {}

SemEnough == semval > 0 /\ asleep # {} => semval <= Cardinality(SemRescuers)

SemServed ==
  /\ SemPlaces
  /\ semwaiters = Cardinality(SemWaiting)
  /\ semapart => (\A t \in Threads : SemPostOK(t)) /\ SemEnough

SemMove(t) == SemStep(t) \/ SemTimeout(t) \/ \E o \in SemOps : SemCall(t, o)

LEMMA SemFinite ==
  /\ IsFiniteSet(SemWaiting) /\ Cardinality(SemWaiting) \in Nat
  /\ IsFiniteSet(SemRescuers) /\ Cardinality(SemRescuers) \in Nat
BY ThreadsAssumption, FS_Subset, FS_CardinalityType DEF ThreadsAssumption, SemWaiting, SemRescuers

\* A step of t leaves the other threads where they are.
LEMMA SemOthers ==
  ASSUME SemIInv, SemPlaces, NEW t \in Threads, SemMove(t), NEW u \in Threads \ {t}
  PROVE  /\ pc'[u] = pc[u] /\ op'[u] = op[u]
         /\ semread'[u] = semread[u] /\ semnonzero'[u] = semnonzero[u]
<1> USE DEF SemIInv, SemTypeOK, SemPlaces, SemReturn, Return, Goto
<1>1. CASE SemLoad(t) \/ SemSeeWaiters(t) \/ SemCas(t) \/ SemDec(t)
  BY <1>1 DEF SemLoad, SemSeeWaiters, SemCas, SemDec
<1>2. CASE SemInc(t) \/ SemMark(t) \/ SemSleep(t) \/ SemTimeout(t)
  BY <1>2 DEF SemInc, SemMark, SemSleep, SemTimeout, FutexWait, semVars
<1>3. CASE PostLoad(t) \/ PostSeeWaiters(t) \/ PostCas(t) \/ PostWake(t)
  BY <1>3 DEF PostLoad, PostSeeWaiters, PostCas, PostWake
<1>4. CASE \E o \in SemOps : SemCall(t, o)
  BY <1>4 DEF SemCall, Call, semVars
<1>5. QED
  BY <1>1, <1>2, <1>3, <1>4 DEF SemMove, SemStep

LEMMA SemPlacesKept ==
  ASSUME SemIInv, SemPlaces, NEW t \in Threads, SemMove(t)
  PROVE  SemPlaces'
<1> USE DEF SemIInv, SemTypeOK, SemPlaces, Goto, SemOps
<1>1. CASE SemLoad(t)
  BY <1>1 DEF SemLoad, SemReturn, Return
<1>2. CASE SemSeeWaiters(t) \/ SemInc(t) \/ SemMark(t) \/ SemSleep(t) \/ SemTimeout(t)
  BY <1>2 DEF SemSeeWaiters, SemInc, SemMark, SemSleep, SemTimeout, FutexWait, semVars
<1>3. CASE SemCas(t)
  BY <1>3 DEF SemCas, SemReturn, Return
<1>4. CASE SemDec(t)
  BY <1>4 DEF SemDec, SemReturn, Return
<1>5. CASE PostLoad(t) \/ PostSeeWaiters(t) \/ PostCas(t)
  BY <1>5 DEF PostLoad, PostSeeWaiters, PostCas, SemReturn, Return
<1>6. CASE PostWake(t)
  <2>1. asleep' \subseteq asleep
    BY <1>6 DEF PostWake, WakeUp, Wake
  <2>2. QED
    BY <1>6, <2>1 DEF PostWake, SemReturn, Return
<1>7. CASE \E o \in SemOps : SemCall(t, o)
  BY <1>7 DEF SemCall, Call, semVars
<1>8. QED
  BY <1>1, <1>2, <1>3, <1>4, <1>5, <1>6, <1>7 DEF SemMove, SemStep

\* __val[1] is exact.
LEMMA SemWaitersKept ==
  ASSUME SemIInv, SemPlaces, semwaiters = Cardinality(SemWaiting), NEW t \in Threads, SemMove(t)
  PROVE  semwaiters' = Cardinality(SemWaiting')
<1>1. CASE SemInc(t)
  <2>1. SemWaiting' = SemWaiting \cup {t} /\ t \notin SemWaiting
    BY <1>1 DEF SemInc, Goto, SemWaiting, SemIInv, SemTypeOK
  <2>2. QED
    BY <1>1, <2>1, SemFinite, FS_AddElement DEF SemInc
<1>2. CASE SemDec(t)
  <2>1. SemWaiting' = SemWaiting \ {t} /\ t \in SemWaiting
    BY <1>2 DEF SemDec, SemReturn, Return, Goto, SemWaiting, SemIInv, SemTypeOK
  <2>2. QED
    BY <1>2, <2>1, SemFinite, FS_RemoveElement DEF SemDec
<1>3. CASE ~SemInc(t) /\ ~SemDec(t)
  <2>1. semwaiters' = semwaiters
    BY <1>3 DEF SemMove, SemStep, SemLoad, SemSeeWaiters, SemCas, SemMark, SemSleep, SemTimeout,
       SemCall, PostLoad, PostSeeWaiters, PostCas, PostWake, semVars
  <2>2. t \in SemWaiting' <=> t \in SemWaiting
    BY <1>3 DEF SemMove, SemStep, SemLoad, SemSeeWaiters, SemCas, SemMark, SemSleep, SemTimeout,
       SemCall, PostLoad, PostSeeWaiters, PostCas, PostWake, SemReturn, Return, Call, Goto, FutexWait,
       SemIInv, SemWaiting
  <2>3. SemWaiting' = SemWaiting
    BY <2>2, SemOthers DEF SemWaiting
  <2>4. QED
    BY <2>1, <2>3
<1>4. QED
  BY <1>1, <1>2, <1>3

\* Only a post raises the value, only a thread that finds -1 goes to sleep.
LEMMA SemMonotone ==
  ASSUME SemIInv, NEW t \in Threads, SemMove(t)
  PROVE  /\ semval' <= semval \/ (PostCas(t) /\ semval = semread[t])
         /\ asleep' \subseteq asleep \/ (semval = -1 /\ semval' = -1)
         /\ semapart' => semapart
<1> USE DEF SemIInv, SemTypeOK
<1>1. CASE SemCas(t)
  BY <1>1 DEF SemCas, Taken, SemReadOK
<1>2. CASE SemMark(t) \/ SemSleep(t)
  BY <1>2 DEF SemMark, SemSleep, FutexWait, semVars
<1>3. CASE PostCas(t)
  BY <1>3 DEF PostCas
<1>4. CASE PostWake(t)
  BY <1>4 DEF PostWake, WakeUp, Wake
<1>5. CASE SemLoad(t) \/ SemSeeWaiters(t) \/ SemInc(t) \/ SemDec(t) \/ SemTimeout(t)
           \/ PostLoad(t) \/ PostSeeWaiters(t) \/ \E o \in SemOps : SemCall(t, o)
  BY <1>5 DEF SemLoad, SemSeeWaiters, SemInc, SemDec, SemTimeout, PostLoad, PostSeeWaiters, SemCall,
       Call, semVars
<1>6. QED
  BY <1>1, <1>2, <1>3, <1>4, <1>5 DEF SemMove, SemStep

LEMMA SemPostKept ==
  ASSUME SemIInv, SemServed, NEW t \in Threads, SemMove(t), SemIInv', semapart',
         NEW v \in Threads
  PROVE  SemPostOK(v)'
<1>1. semapart /\ \A u \in Threads : SemPostOK(u)
  BY SemMonotone DEF SemServed
<1>0. SemPlaces
  BY DEF SemServed
<1> SUFFICES ASSUME Posting(v)' PROVE SemPostOK(v)'
  BY DEF SemPostOK
<1>2. CASE v # t
  <2>1. pc'[v] = pc[v] /\ semread'[v] = semread[v] /\ semnonzero'[v] = semnonzero[v] /\ Posting(v)
    BY <1>0, <1>2, SemOthers DEF Posting
  <2>2. ~Posting(t) /\ ~PostLoad(t)
    BY <1>1, <1>2, <2>1 DEF SemPostOK, PostLoad
  <2>3. semval' <= semval
    BY <2>2, SemMonotone DEF PostCas, Posting
  <2>4. ~Posting(t)'
    BY <2>2 DEF Posting, SemMove, SemStep, SemLoad, SemSeeWaiters, SemCas, SemInc, SemMark, SemSleep, SemDec,
       SemTimeout, SemCall, PostSeeWaiters, PostCas, PostWake, SemReturn, Return, Call, Goto, FutexWait, SemIInv
  <2>5. \A u \in Threads : Posting(u)' => u = v
    BY <1>0, <1>1, <2>1, <2>4, SemOthers DEF SemPostOK, Posting
  <2>6. semval' = semread[v] /\ semval' >= 0 => semval' = semval /\ asleep' \subseteq asleep
    BY <1>1, <2>1, <2>3, SemMonotone DEF SemPostOK, SemIInv, SemTypeOK
  <2>7. QED
    BY <1>1, <2>1, <2>3, <2>5, <2>6 DEF SemPostOK, SemIInv, SemTypeOK
<1>3. CASE v = t /\ PostLoad(t)
  <2>1. \A u \in Threads \ {t} : ~Posting(u)
    BY <1>3 DEF PostLoad
  <2>2. \A u \in Threads : Posting(u)' => u = t
    BY <1>0, <2>1, SemOthers DEF Posting
  <2>3. semval' = semread'[t] /\ pc'[t] = "postwaiters"
    BY <1>3 DEF PostLoad, Goto, SemIInv, SemTypeOK
  <2>4. QED
    BY <1>3, <2>2, <2>3 DEF SemPostOK, SemIInv, SemTypeOK
<1>4. CASE v = t /\ PostSeeWaiters(t)
  <2>1. /\ Posting(t) /\ semread' = semread /\ UNCHANGED <<semval, asleep>>
        /\ semnonzero' = [semnonzero EXCEPT ![t] = semwaiters # 0]
    BY <1>4 DEF PostSeeWaiters, Posting, SemReturn, Return, SemIInv
  <2>2. semwaiters = 0 => asleep = {}
    BY SemFinite, FS_EmptySet DEF SemServed, SemPlaces, SemWaiting
  <2>3. \A u \in Threads : Posting(u)' => u = t
    BY <1>0, <1>1, <2>1, SemOthers DEF SemPostOK, Posting
  <2>4. QED
    BY <1>1, <1>4, <2>1, <2>2, <2>3 DEF SemPostOK, SemIInv, SemTypeOK
<1>5. CASE v = t /\ ~PostLoad(t) /\ ~PostSeeWaiters(t)
  BY <1>5 DEF Posting, SemMove, SemStep, SemLoad, SemSeeWaiters, SemCas, SemInc, SemMark, SemSleep, SemDec,
       SemTimeout, SemCall, PostCas, PostWake, SemReturn, Return, Call, Goto, FutexWait, SemIInv
<1>6. QED
  BY <1>2, <1>3, <1>4, <1>5

\* The steps that touch neither side of the balance but to its advantage.
LEMMA SemBalance ==
  ASSUME SemIInv, SemIInv', SemEnough, NEW t \in Threads, SemMove(t),
         semval' <= semval, asleep' \subseteq asleep,
         \A u \in SemRescuers : u \in SemRescuers' \/ (u = t /\ semval' < semval)
  PROVE  SemEnough'
<1>1. SUFFICES ASSUME semval' > 0, asleep' # {} PROVE semval' <= Cardinality(SemRescuers')
  BY DEF SemEnough
<1>2. semval <= Cardinality(SemRescuers)
  BY <1>1 DEF SemEnough, SemIInv, SemTypeOK
<1>3. IsFiniteSet(SemRescuers') /\ Cardinality(SemRescuers') \in Nat
  BY ThreadsAssumption, FS_Subset, FS_CardinalityType DEF ThreadsAssumption, SemRescuers
<1>4. CASE SemRescuers \subseteq SemRescuers'
  BY <1>2, <1>3, <1>4, SemFinite, FS_Subset DEF SemIInv, SemTypeOK
<1>5. CASE ~(SemRescuers \subseteq SemRescuers')
  <2>1. t \in SemRescuers /\ SemRescuers \ {t} \subseteq SemRescuers' /\ semval' < semval
    BY <1>5
  <2>2. Cardinality(SemRescuers \ {t}) = Cardinality(SemRescuers) - 1 /\ IsFiniteSet(SemRescuers \ {t})
    BY <2>1, SemFinite, FS_RemoveElement
  <2>3. Cardinality(SemRescuers \ {t}) <= Cardinality(SemRescuers')
    BY <1>3, <2>1, FS_Subset
  <2>4. QED
    BY <1>2, <1>3, <2>1, <2>2, <2>3, SemFinite DEF SemIInv, SemTypeOK
<1>6. QED
  BY <1>4, <1>5

\* A step of t leaves the other rescuers what they are.
LEMMA SemRescuersStay ==
  ASSUME SemIInv, SemPlaces, NEW t \in Threads, SemMove(t), asleep' \subseteq asleep,
         NEW u \in SemRescuers, u # t
  PROVE  u \in SemRescuers'
BY SemOthers DEF SemRescuers

LEMMA SemEnoughKept ==
  ASSUME SemIInv, SemIInv', SemServed, NEW t \in Threads, SemMove(t), semapart'
  PROVE  SemEnough'
<1>1. semapart /\ SemEnough /\ SemPlaces /\ SemPostOK(t)
  BY SemMonotone DEF SemServed
<1> USE DEF SemIInv, SemTypeOK
<1>2. CASE semval' <= 0
  BY <1>2 DEF SemEnough
<1>3. CASE semval' > 0 /\ PostCas(t) /\ semval = semread[t]
  <2>1. semval' = Posted(t) /\ asleep' = asleep
    BY <1>3 DEF PostCas
  <2>2. CASE PostWakes(t)
    <3>1. pc'[t] = "postwake" /\ t \in SemRescuers' /\ t \notin SemRescuers
      BY <1>3, <2>2 DEF PostCas, Goto, SemRescuers
    <3>2. SemRescuers \cup {t} \subseteq SemRescuers'
      BY <1>1, <2>1, <3>1, SemRescuersStay
    <3>3. Cardinality(SemRescuers \cup {t}) = Cardinality(SemRescuers) + 1
      BY <3>1, SemFinite, FS_AddElement
    <3>4. IsFiniteSet(SemRescuers') /\ Cardinality(SemRescuers') \in Nat
      BY ThreadsAssumption, FS_Subset, FS_CardinalityType DEF ThreadsAssumption, SemRescuers
    <3>5. Cardinality(SemRescuers) + 1 <= Cardinality(SemRescuers')
      BY <3>2, <3>3, <3>4, FS_Subset
    <3>6. CASE asleep = {}
      BY <2>1, <3>6 DEF SemEnough
    <3>7. CASE asleep # {} /\ semval > 0
      BY <1>1, <1>3, <2>1, <3>4, <3>5, <3>7, SemFinite DEF SemEnough, Posted
    <3>8. CASE semval <= 0
      BY <1>3, <2>1, <3>4, <3>5, <3>8, SemFinite DEF SemEnough, Posted
    <3>9. QED
      BY <3>6, <3>7, <3>8
  <2>3. CASE ~PostWakes(t)
    <3>1. asleep = {}
      BY <1>1, <1>3, <2>3 DEF PostWakes, SemPostOK, Posting, PostCas
    <3>2. QED
      BY <2>1, <3>1 DEF SemEnough
  <2>4. QED
    BY <2>2, <2>3
<1>4. CASE semval' > 0 /\ PostWake(t)
  <2>1. /\ pc[t] = "postwake" /\ t \in SemRescuers /\ semval' = semval
        /\ asleep' \in Wake(asleep, 1)
    BY <1>4 DEF PostWake, WakeUp, SemRescuers, Wake
  <2>2. CASE asleep = {}
    BY <2>1, <2>2 DEF SemEnough, Wake
  <2>3. CASE asleep # {}
    <3>1. IsFiniteSet(asleep) /\ asleep' \subseteq asleep
      BY <1>1, <2>1, ThreadsAssumption, FS_Subset DEF SemPlaces, ThreadsAssumption, Wake
    <3>2. PICK w \in asleep : w \notin asleep'
      <4>1. Cardinality(asleep) \in Nat /\ Cardinality(asleep) # 0
        BY <2>3, <3>1, FS_CardinalityType, FS_EmptySet
      <4>2. Cardinality(asleep \ asleep') = 1
        BY <2>1, <4>1 DEF Wake
      <4>3. asleep \ asleep' # {}
        <5>1. Cardinality(asleep \ asleep') # 0
          BY <4>2
        <5>2. QED
          BY <5>1, FS_EmptySet, Zenon
      <4>4. QED
        BY <4>3
    <3>3. w \in Threads /\ pc[w] = "semdec" /\ w # t /\ w \notin SemRescuers
      BY <1>1, <2>1, <3>2 DEF SemPlaces, SemRescuers
    <3>4. w \in SemRescuers'
      BY <1>1, <3>2, <3>3, SemOthers DEF SemRescuers
    <3>5. (SemRescuers \ {t}) \cup {w} \subseteq SemRescuers'
      BY <1>1, <3>1, <3>4, SemRescuersStay
    <3>6. Cardinality((SemRescuers \ {t}) \cup {w}) = Cardinality(SemRescuers)
      <4>1. /\ IsFiniteSet(SemRescuers \ {t})
            /\ Cardinality(SemRescuers \ {t}) = Cardinality(SemRescuers) - 1
        BY <2>1, SemFinite, FS_RemoveElement
      <4>2. Cardinality((SemRescuers \ {t}) \cup {w}) = Cardinality(SemRescuers \ {t}) + 1
        BY <3>3, <4>1, FS_AddElement
      <4>3. QED
        BY <4>1, <4>2, SemFinite
    <3>7. IsFiniteSet(SemRescuers') /\ Cardinality(SemRescuers') \in Nat
      BY ThreadsAssumption, FS_Subset, FS_CardinalityType DEF ThreadsAssumption, SemRescuers
    <3>8. Cardinality(SemRescuers) <= Cardinality(SemRescuers')
      BY <3>5, <3>6, <3>7, FS_Subset
    <3>9. QED
      BY <1>1, <1>4, <2>1, <2>3, <3>7, <3>8, SemFinite DEF SemEnough
  <2>4. QED
    BY <2>2, <2>3
<1>5. CASE semval' > 0 /\ SemCas(t)
  <2>1. semval' <= semval /\ asleep' = asleep
    BY <1>5, SemMonotone DEF SemCas, PostCas
  <2>2. t \in SemRescuers => t \in SemRescuers' \/ semval' < semval
    BY <1>5 DEF SemCas, Taken, Goto, SemRescuers, SemReadOK
  <2>3. QED
    BY <1>1, <2>1, <2>2, SemRescuersStay, SemBalance
<1>6. CASE semval' > 0 /\ ~PostWake(t) /\ ~SemCas(t) /\ ~(PostCas(t) /\ semval = semread[t])
  <2>1. semval' <= semval /\ asleep' \subseteq asleep
    BY <1>6, SemMonotone
  <2>2. t \in SemRescuers => t \in SemRescuers'
    <3>1. CASE SemLoad(t)
      BY <1>6, <3>1 DEF SemLoad, Goto, SemRescuers
    <3>2. CASE SemSeeWaiters(t)
      BY <3>2 DEF SemSeeWaiters, Goto, SemRescuers
    <3>3. CASE SemDec(t)
      BY <1>1, <3>3 DEF SemDec, SemReturn, Return, Goto, SemRescuers, SemPlaces
    <3>4. CASE ~SemLoad(t) /\ ~SemSeeWaiters(t) /\ ~SemDec(t)
      BY <1>1, <1>6, <3>4 DEF SemMove, SemStep, SemInc, SemMark, SemSleep, SemTimeout, SemCall, Call,
         PostLoad, PostSeeWaiters, PostCas, SemRescuers, SemPlaces
    <3>5. QED
      BY <3>1, <3>2, <3>3, <3>4
  <2>3. QED
    BY <1>1, <2>1, <2>2, SemRescuersStay, SemBalance
<1>7. QED
  BY <1>2, <1>3, <1>4, <1>5, <1>6

\* A token beside which a thread sleeps has somebody who sees to it, for any
\* number of threads and any initial value, as long as no two posts overlap.
THEOREM SemServedAlways == SemSpec => []SemTokenServed
<1>1. ThreadsInit(SemCalls) /\ SemInit => SemServed
  <2> SUFFICES ASSUME ThreadsInit(SemCalls), SemInit PROVE SemServed
    OBVIOUS
  <2>1. SemWaiting = {} /\ asleep = {} /\ \A t \in Threads : ~Posting(t)
    BY DEF ThreadsInit, SemWaiting, Posting
  <2>2. QED
    BY <2>1, FS_EmptySet
    DEF ThreadsInit, SemInit, SemServed, SemPlaces, SemPostOK, SemEnough
<1>2. SemIInv /\ SemIInv' /\ SemServed /\ [SemNext]_<<threadVars, semVars>> => SemServed'
  <2> SUFFICES ASSUME SemIInv, SemIInv', SemServed, [SemNext]_<<threadVars, semVars>>
               PROVE  SemServed'
    OBVIOUS
  <2>1. ASSUME NEW t \in Threads, SemMove(t) PROVE SemServed'
    BY <2>1, SemPlacesKept, SemWaitersKept, SemPostKept, SemEnoughKept DEF SemServed
  <2>2. CASE UNCHANGED <<threadVars, semVars>>
    BY <2>2 DEF threadVars, semVars, SemServed, SemPlaces, SemPostOK, SemEnough, SemWaiting, SemRescuers,
       Posting
  <2>3. QED
    BY <2>1, <2>2 DEF SemNext, SemMove
<1>3. SemIInv /\ SemServed => SemTokenServed
  <2> SUFFICES ASSUME SemIInv, SemServed, semapart, semval > 0, asleep # {} PROVE SemRescuers # {}
    BY DEF SemTokenServed
  <2>1. Cardinality(SemRescuers) # 0
    BY SemFinite DEF SemServed, SemEnough, SemIInv, SemTypeOK
  <2>2. QED
    BY <2>1, FS_EmptySet
<1>4. QED
  BY <1>1, <1>2, <1>3, SemInvariance, PTL DEF SemSpec

(***************************************************************************)
(*                         One-time initialisation                         *)
(***************************************************************************)

OnceLabels ==
  {"idle", "oncefast", "oncecas", "oncemark", "oncewait", "init", "oncewake", "undowake", "exited"}

\* The word says 1 or 3 as long as a thread runs the routine, and 2 once it
\* has been run; only then does anybody return.
ControlOK ==
  /\ \A t \in Threads : pc[t] = "init" => control \in {1, 3}
  /\ \A t \in Threads : pc[t] = "oncewake" => control = 2
  /\ initruns = IF control = 2 THEN 1 ELSE 0
  /\ oncedone # {} => control = 2

OneInit == \A t, u \in Threads : pc[t] = "init" /\ pc[u] = "init" => t = u

OnceIInv ==
  /\ OnceTypeOK
  /\ pc \in [Threads -> OnceLabels]
  /\ ControlOK
  /\ OneInit

LEMMA OnceStepIInv ==
  ASSUME OnceIInv, NEW t \in Threads, OnceStep(t)
  PROVE  OnceIInv'
<1> USE DEF OnceIInv, OnceTypeOK, ControlOK, OneInit, OnceLabels, Goto
<1>1. CASE OnceFast(t)
  BY <1>1 DEF OnceFast, OnceReturn, Return
<1>2. CASE OnceCas(t)
  <2>1. CASE control = 0
    BY <1>2, <2>1 DEF OnceCas
  <2>2. CASE control # 0
    BY <1>2, <2>2 DEF OnceCas, OnceReturn, Return
  <2>3. QED
    BY <2>1, <2>2
<1>3. CASE OnceMark(t)
  BY <1>3 DEF OnceMark
<1>4. CASE OnceWait(t)
  BY <1>4 DEF OnceWait, FutexWait, onceVars
<1>5. CASE InitReturns(t)
  <2>1. initruns' = 1 /\ control' = 2 /\ \A u \in Threads : pc'[u] # "init"
    BY <1>5 DEF InitReturns, OnceReturn, Return
  <2>2. QED
    BY <1>5, <2>1 DEF InitReturns, OnceReturn, Return
<1>6. CASE OnceWake(t)
  BY <1>6 DEF OnceWake, OnceReturn, Return
<1>7. CASE Undo(t)
  <2>1. /\ initruns' = 0 /\ control' = 0 /\ oncedone' = {}
        /\ \A u \in Threads : pc'[u] \notin {"init", "oncewake"}
    BY <1>7 DEF Undo, ExitThread
  <2>2. pc' \in [Threads -> OnceLabels]
    BY <1>7 DEF Undo, ExitThread
  <2>3. QED
    BY <2>1, <2>2
<1>8. CASE UndoWake(t)
  BY <1>8 DEF UndoWake, ExitThread, onceVars
<1>9. QED
  BY <1>1, <1>2, <1>3, <1>4, <1>5, <1>6, <1>7, <1>8 DEF OnceStep

\* The strengthened invariant of pthread_once holds in every reachable state.
THEOREM OnceInvariance == OnceSpec => []OnceIInv
<1>1. ThreadsInit(OnceCalls) /\ OnceInit => OnceIInv
  BY DEF ThreadsInit, OnceInit, OnceIInv, OnceTypeOK, ControlOK, OneInit, OnceLabels
<1>2. OnceIInv /\ [OnceNext]_<<threadVars, onceVars>> => OnceIInv'
  <2> SUFFICES ASSUME OnceIInv, [OnceNext]_<<threadVars, onceVars>> PROVE OnceIInv'
    OBVIOUS
  <2>1. ASSUME NEW t \in Threads, OnceCall(t) PROVE OnceIInv'
    BY <2>1 DEF OnceCall, Call, onceVars, OnceIInv, OnceTypeOK, ControlOK, OneInit, OnceLabels
  <2>2. CASE UNCHANGED <<threadVars, onceVars>>
    BY <2>2 DEF threadVars, onceVars, OnceIInv, OnceTypeOK, ControlOK, OneInit
  <2>3. QED
    BY <2>1, <2>2, OnceStepIInv DEF OnceNext
<1>3. QED
  BY <1>1, <1>2, PTL DEF OnceSpec

\* pthread_once runs the routine to its end once, one thread at a time, and
\* returns to nobody before that, for any number of threads and calls and
\* whichever of the threads exit in the middle of the routine.
THEOREM OnceSafe == OnceSpec => []OnceOnly
<1>1. OnceIInv => OnceOnly
  BY DEF OnceIInv, OnceTypeOK, ControlOK, OneInit, OnceOnly
<1>2. QED
  BY <1>1, OnceInvariance, PTL

(***************************************************************************)
(*                            Read-write locks                             *)
(***************************************************************************)

RwLabels ==
  {"idle", "rdload", "rdcas", "wrcas", "rwbusy", "rwinc", "rwmark", "rwwait", "rwdec", "rwgiveup",
   "unload", "unwaiters", "uncas", "unwake"}

RwReaders == {t \in Threads : rwheld[t] = "read"}
RwWriting == \E t \in Threads : rwheld[t] = "write"

\* A thread holds the lock while it is in none of the functions, or in unlock
\* before its compare-and-swap; at the compare-and-swap of tryrdlock it has
\* read a count that leaves room for one more reader.
RwLocal(t) ==
  /\ pc[t] \in {"unload", "unwaiters", "uncas"} => rwheld[t] # "none"
  /\ pc[t] \notin {"idle", "unload", "unwaiters", "uncas"} => rwheld[t] = "none"
  /\ pc[t] = "rdcas" => rwval[t].cnt < WRITER - 1

\* The readers never fill the count up to the mark of a writer.
RwRoom == ~ RwWriting => rwlock.cnt < WRITER

RwIInv ==
  /\ RwTypeOK
  /\ pc \in [Threads -> RwLabels]
  /\ \A t \in Threads : RwLocal(t)
  /\ RwRoom
  /\ RwExclusion

\* A step of t that neither takes nor releases the lock.
LEMMA RwQuiet ==
  ASSUME RwIInv, NEW t \in Threads, NEW l \in RwLabels, NEW v \in RwWord,
         pc' = [pc EXCEPT ![t] = l], rwval' = [rwval EXCEPT ![t] = v],
         rwlock' \in RwWord, rwlock'.cnt = rwlock.cnt, rwwaiters' \in Int,
         rwseen' \in [Threads -> BOOLEAN], UNCHANGED rwheld,
         l \in {"unload", "unwaiters", "uncas"} => rwheld[t] # "none",
         l \notin {"idle", "unload", "unwaiters", "uncas"} => rwheld[t] = "none",
         l = "rdcas" => v.cnt < WRITER - 1
  PROVE  RwIInv'
<1>1. RwTypeOK' /\ pc' \in [Threads -> RwLabels]
  BY DEF RwIInv, RwTypeOK
<1>2. \A u \in Threads : RwLocal(u)'
  BY DEF RwIInv, RwTypeOK, RwLocal
<1>3. RwRoom' /\ RwExclusion'
  BY DEF RwIInv, RwRoom, RwWriting, RwExclusion
<1>4. QED
  BY <1>1, <1>2, <1>3 DEF RwIInv

\* A step of t that takes or releases the lock: the local facts.
LEMMA RwMoves ==
  ASSUME RwIInv, NEW t \in Threads, NEW l \in {"idle", "unwake"}, NEW v \in RwWord,
         NEW h \in {"none", "read", "write"}, l = "unwake" => h = "none",
         pc' = [pc EXCEPT ![t] = l], rwval' = [rwval EXCEPT ![t] = v],
         rwheld' = [rwheld EXCEPT ![t] = h],
         rwlock' \in RwWord, UNCHANGED rwwaiters, rwseen' \in [Threads -> BOOLEAN]
  PROVE  /\ RwTypeOK' /\ pc' \in [Threads -> RwLabels]
         /\ \A u \in Threads : RwLocal(u)'
<1>1. RwTypeOK' /\ pc' \in [Threads -> RwLabels]
  BY DEF RwIInv, RwTypeOK, RwLabels
<1>2. \A u \in Threads : RwLocal(u)'
  BY DEF RwIInv, RwTypeOK, RwLocal
<1>3. QED
  BY <1>1, <1>2

LEMMA RwReadersFinite ==
  ASSUME RwIInv
  PROVE  IsFiniteSet(RwReaders) /\ Cardinality(RwReaders) \in Nat
BY ThreadsAssumption, FS_Subset, FS_CardinalityType DEF ThreadsAssumption, RwReaders

LEMMA RwReturned ==
  ASSUME RwIInv, NEW t \in Threads, RwReturn(t)
  PROVE  /\ pc' = [pc EXCEPT ![t] = "idle"]
         /\ rwval' = [rwval EXCEPT ![t] = Unlocked]
         /\ rwseen' \in [Threads -> BOOLEAN]
BY DEF RwIInv, RwTypeOK, RwReturn, Return

LEMMA UnlockedWord == Unlocked \in RwWord /\ Unlocked.cnt = 0
BY RWLockAssumption DEF RWLockAssumption, Unlocked, RwWord

\* An attempt that fails.
LEMMA RwBusyIInv ==
  ASSUME RwIInv, NEW t \in Threads, pc[t] \in {"rdload", "wrcas"}, RwBusy(t),
         UNCHANGED <<rwlock, rwwaiters, rwheld>>
  PROVE  RwIInv'
<1>1. rwlock' \in RwWord /\ rwwaiters' \in Int
  BY DEF RwIInv, RwTypeOK
<1>2. rwheld[t] = "none"
  BY DEF RwIInv, RwLocal
<1>3. CASE op[t] \in {"tryrdlock", "trywrlock"}
  BY <1>1, <1>2, <1>3, RwReturned, RwQuiet, UnlockedWord DEF RwBusy, RwLabels
<1>4. CASE op[t] \notin {"tryrdlock", "trywrlock"}
  BY <1>1, <1>2, <1>4, RwQuiet, UnlockedWord
  DEF RwBusy, RwGoto, Goto, RwLabels, RwIInv, RwTypeOK
<1>5. QED
  BY <1>3, <1>4

LEMMA RdCasIInv ==
  ASSUME RwIInv, NEW t \in Threads, RdCas(t), rwlock = rwval[t]
  PROVE  RwIInv'
<1>1. /\ rwlock' = [rwlock EXCEPT !.cnt = @ + 1]
      /\ rwheld' = [rwheld EXCEPT ![t] = "read"] /\ RwReturn(t) /\ UNCHANGED rwwaiters
  BY DEF RdCas
<1>2. rwheld[t] = "none" /\ rwlock.cnt < WRITER - 1
  BY DEF RdCas, RwIInv, RwLocal
<1>3. rwlock' \in RwWord /\ rwlock'.cnt = rwlock.cnt + 1
  BY <1>1, <1>2, RWLockAssumption DEF RWLockAssumption, RwIInv, RwTypeOK, RwWord
<1>4. ~ RwWriting /\ rwlock.cnt = Cardinality(RwReaders)
  BY <1>2, RWLockAssumption
  DEF RWLockAssumption, RwIInv, RwExclusion, RwWriting, RwReaders, RwTypeOK, RwWord
<1>5. ~ RwWriting' /\ RwReaders' = RwReaders \cup {t} /\ t \notin RwReaders
  BY <1>1, <1>2, <1>4 DEF RwWriting, RwReaders, RwIInv, RwTypeOK
<1>6. Cardinality(RwReaders') = rwlock'.cnt
  <2>1. Cardinality(RwReaders \cup {t}) = Cardinality(RwReaders) + 1
    BY <1>5, RwReadersFinite, FS_AddElement
  <2>2. QED
    BY <1>3, <1>4, <1>5, <2>1
<1>7. RwRoom' /\ RwExclusion'
  <2>1. rwlock'.cnt < WRITER
    BY <1>2, <1>3, RWLockAssumption DEF RWLockAssumption, RwIInv, RwTypeOK, RwWord
  <2>2. QED
    BY <1>5, <1>6, <2>1 DEF RwRoom, RwExclusion, RwWriting, RwReaders
<1>8. QED
  BY <1>1, <1>3, <1>7, RwMoves, RwReturned, UnlockedWord DEF RwIInv

LEMMA WrCasIInv ==
  ASSUME RwIInv, NEW t \in Threads, WrCas(t), rwlock = Unlocked
  PROVE  RwIInv'
<1>1. /\ rwlock' = [cnt |-> WRITER, wait |-> FALSE]
      /\ rwheld' = [rwheld EXCEPT ![t] = "write"] /\ RwReturn(t) /\ UNCHANGED rwwaiters
  BY DEF WrCas
<1>2. ~ RwWriting /\ Cardinality(RwReaders) = 0
  BY UnlockedWord, RWLockAssumption
  DEF RWLockAssumption, RwIInv, RwExclusion, RwWriting, RwReaders
<1>3. RwReaders = {}
  BY <1>2, RwReadersFinite, FS_EmptySet
<1>4. \A u \in Threads : rwheld[u] = "none"
  BY <1>2, <1>3 DEF RwWriting, RwReaders, RwIInv, RwTypeOK
<1>5. rwheld'[t] = "write" /\ \A u \in Threads \ {t} : rwheld'[u] = "none"
  BY <1>1, <1>4 DEF RwIInv, RwTypeOK
<1>6. RwRoom' /\ RwExclusion'
  BY <1>1, <1>5 DEF RwRoom, RwExclusion, RwWriting
<1>7. rwlock' \in RwWord
  BY <1>1, RWLockAssumption DEF RWLockAssumption, RwWord
<1>8. QED
  BY <1>1, <1>6, <1>7, RwMoves, RwReturned, UnlockedWord DEF RwIInv

LEMMA UnCasIInv ==
  ASSUME RwIInv, NEW t \in Threads, UnCas(t), rwlock = rwval[t]
  PROVE  RwIInv'
<1>1. /\ rwlock' = IF LastOut(rwlock) THEN Unlocked ELSE [rwlock EXCEPT !.cnt = @ - 1]
      /\ rwheld' = [rwheld EXCEPT ![t] = "none"] /\ UNCHANGED rwwaiters
  BY DEF UnCas
<1>2. rwheld[t] # "none"
  BY DEF UnCas, RwIInv, RwLocal
<1>3. rwlock' \in RwWord /\ RwRoom' /\ RwExclusion'
  <2>1. CASE rwheld[t] = "write"
    <3>1. rwlock.cnt = WRITER /\ \A u \in Threads \ {t} : rwheld[u] = "none"
      BY <2>1 DEF RwIInv, RwExclusion
    <3>2. rwlock' = Unlocked
      BY <1>1, <3>1 DEF LastOut
    <3>3. \A u \in Threads : rwheld'[u] = "none"
      BY <1>1, <3>1 DEF RwIInv, RwTypeOK
    <3>4. RwReaders' = {} /\ ~ RwWriting'
      BY <3>3 DEF RwReaders, RwWriting
    <3>5. Cardinality(RwReaders') = 0
      BY <3>4, FS_EmptySet
    <3>6. QED
      BY <3>2, <3>4, <3>5, UnlockedWord, RWLockAssumption
      DEF RWLockAssumption, RwRoom, RwExclusion, RwReaders, RwWriting
  <2>2. CASE rwheld[t] = "read"
    <3>1. ~ RwWriting
      BY <2>2 DEF RwIInv, RwExclusion, RwWriting
    <3>2. rwlock.cnt = Cardinality(RwReaders) /\ rwlock.cnt < WRITER /\ rwlock.cnt \in Nat
      BY <3>1, RwReadersFinite DEF RwIInv, RwExclusion, RwRoom, RwWriting, RwReaders
    <3>3. t \in RwReaders /\ RwReaders' = RwReaders \ {t} /\ ~ RwWriting'
      BY <1>1, <2>2, <3>1 DEF RwReaders, RwWriting, RwIInv, RwTypeOK
    <3>4. Cardinality(RwReaders') = rwlock.cnt - 1
      BY <3>2, <3>3, RwReadersFinite, FS_RemoveElement
    <3>5. rwlock.cnt # 0
      BY <3>2, <3>3, RwReadersFinite, FS_EmptySet
    <3>6. rwlock' \in RwWord /\ rwlock'.cnt = rwlock.cnt - 1
      <4>1. CASE LastOut(rwlock)
        BY <1>1, <3>2, <4>1, UnlockedWord, RWLockAssumption DEF RWLockAssumption, LastOut
      <4>2. CASE ~ LastOut(rwlock)
        <5>1. rwlock' = [rwlock EXCEPT !.cnt = @ - 1] /\ rwlock.cnt - 1 \in 0 .. WRITER
          BY <1>1, <3>2, <3>5, <4>2, RWLockAssumption DEF RWLockAssumption
        <5>2. rwlock \in RwWord
          BY DEF RwIInv, RwTypeOK
        <5>3. QED
          BY <5>1, <5>2 DEF RwWord
      <4>3. QED
        BY <4>1, <4>2
    <3>7. rwlock'.cnt < WRITER
      BY <3>2, <3>6, RWLockAssumption DEF RWLockAssumption
    <3>8. QED
      BY <3>3, <3>4, <3>6, <3>7 DEF RwRoom, RwExclusion, RwReaders, RwWriting
  <2>3. QED
    BY <1>2, <2>1, <2>2 DEF RwIInv, RwTypeOK
<1>4. CASE Wakes(t)
  <2>1. /\ pc' = [pc EXCEPT ![t] = "unwake"] /\ rwval' = [rwval EXCEPT ![t] = rwval[t]]
        /\ UNCHANGED rwseen
    BY <1>4 DEF UnCas, RwGoto, Goto
  <2>2. rwval[t] \in RwWord /\ rwseen \in [Threads -> BOOLEAN]
    BY DEF RwIInv, RwTypeOK
  <2>3. QED
    BY <1>1, <1>3, <2>1, <2>2, RwMoves DEF RwIInv
<1>5. CASE ~ Wakes(t)
  <2>1. RwReturn(t)
    BY <1>5 DEF UnCas
  <2>2. QED
    BY <1>1, <1>3, <2>1, RwMoves, RwReturned, UnlockedWord DEF RwIInv
<1>6. QED
  BY <1>4, <1>5

LEMMA RwStepIInv ==
  ASSUME RwIInv, NEW t \in Threads, RwStep(t)
  PROVE  RwIInv'
<1> USE UnlockedWord DEF RwLabels
<1>0. /\ rwlock \in RwWord /\ rwwaiters \in Int /\ rwseen \in [Threads -> BOOLEAN]
      /\ rwval \in [Threads -> RwWord] /\ rwval[t] \in RwWord
      /\ rwval = [rwval EXCEPT ![t] = rwval[t]]
  BY DEF RwIInv, RwTypeOK
<1>1. CASE RdLoad(t)
  <2>1. rwheld[t] = "none"
    BY <1>1 DEF RdLoad, RwIInv, RwLocal
  <2>2. CASE rwlock.cnt = WRITER /\ RwBusy(t)
    BY <1>1, <2>2, RwBusyIInv DEF RdLoad
  <2>3. CASE rwlock.cnt = WRITER - 1 /\ RwReturn(t)
    BY <1>0, <1>1, <2>1, <2>3, RwReturned, RwQuiet DEF RdLoad
  <2>4. CASE rwlock.cnt < WRITER - 1 /\ RwGoto(t, "rdcas", rwlock)
    BY <1>0, <1>1, <2>1, <2>4, RwQuiet DEF RdLoad, RwGoto, Goto
  <2>5. QED
    BY <1>1, <2>2, <2>3, <2>4 DEF RdLoad
<1>2. CASE RdCas(t)
  <2>1. CASE rwlock # rwval[t]
    <3>1. rwheld[t] = "none"
      BY <1>2 DEF RdCas, RwIInv, RwLocal
    <3>2. QED
      BY <1>0, <1>2, <2>1, <3>1, RwQuiet DEF RdCas, RwGoto, Goto
  <2>2. QED
    BY <1>2, <2>1, RdCasIInv
<1>3. CASE WrCas(t)
  <2>1. CASE rwlock # Unlocked
    BY <1>3, <2>1, RwBusyIInv DEF WrCas
  <2>2. QED
    BY <1>3, <2>1, WrCasIInv
<1>4. CASE RwLoop(t)
  <2>1. rwheld[t] = "none"
    BY <1>4 DEF RwLoop, RwIInv, RwLocal
  <2>2. RwAttempt(op[t]) \in {"rdload", "wrcas"}
    BY DEF RwAttempt
  <2>3. \E l \in {"rwinc", "rdload", "wrcas"}, v \in RwWord : RwGoto(t, l, v)
    BY <1>0, <1>4, <2>2 DEF RwLoop
  <2>4. PICK l \in {"rwinc", "rdload", "wrcas"}, v \in RwWord : RwGoto(t, l, v)
    BY <2>3
  <2>5. pc' = [pc EXCEPT ![t] = l] /\ rwval' = [rwval EXCEPT ![t] = v] /\ UNCHANGED rwseen
    BY <2>4 DEF RwGoto, Goto
  <2>6. QED
    BY <1>0, <1>4, <2>1, <2>5, RwQuiet DEF RwLoop
<1>5. CASE RwInc(t)
  <2>1. rwheld[t] = "none"
    BY <1>5 DEF RwInc, RwIInv, RwLocal
  <2>2. /\ pc' = [pc EXCEPT ![t] = "rwmark"] /\ rwval' = [rwval EXCEPT ![t] = rwval[t]]
        /\ rwwaiters' \in Int /\ UNCHANGED <<rwlock, rwseen, rwheld>>
    BY <1>0, <1>5 DEF RwInc, Goto
  <2>3. QED
    BY <1>0, <2>1, <2>2, RwQuiet
<1>6. CASE RwMark(t)
  <2>1. rwheld[t] = "none"
    BY <1>6 DEF RwMark, RwIInv, RwLocal
  <2>2. /\ rwlock' \in RwWord /\ rwlock'.cnt = rwlock.cnt
        /\ [rwval[t] EXCEPT !.wait = TRUE] \in RwWord
    BY <1>0, <1>6 DEF RwMark, RwWord
  <2>3. QED
    BY <1>0, <1>6, <2>1, <2>2, RwQuiet DEF RwMark, RwGoto, Goto
<1>7. CASE RwWait(t)
  <2>1. rwheld[t] = "none"
    BY <1>7 DEF RwWait, RwIInv, RwLocal
  <2>2. QED
    BY <1>0, <1>7, <2>1, RwQuiet DEF RwWait, FutexWait, Goto, rwVars
<1>8. CASE RwDec(t)
  <2>1. rwheld[t] = "none"
    BY <1>8 DEF RwDec, RwIInv, RwLocal
  <2>2. CASE pc[t] = "rwgiveup"
    BY <1>0, <1>8, <2>1, <2>2, RwReturned, RwQuiet DEF RwDec
  <2>3. CASE pc[t] # "rwgiveup"
    <3>1. RwAttempt(op[t]) \in {"rdload", "wrcas"}
      BY DEF RwAttempt
    <3>2. QED
      BY <1>0, <1>8, <2>1, <2>3, <3>1, RwQuiet DEF RwDec, RwGoto, Goto
  <2>4. QED
    BY <2>2, <2>3
<1>9. CASE RwCallUnlock(t)
  BY <1>0, <1>9, RwQuiet DEF RwCallUnlock, rwVars
<1>10. CASE UnLoad(t)
  <2>1. rwheld[t] # "none"
    BY <1>10 DEF UnLoad, RwIInv, RwLocal
  <2>2. QED
    BY <1>0, <1>10, <2>1, RwQuiet DEF UnLoad, RwGoto, Goto
<1>11. CASE UnWaiters(t)
  <2>1. rwheld[t] # "none"
    BY <1>11 DEF UnWaiters, RwIInv, RwLocal
  <2>2. rwseen' \in [Threads -> BOOLEAN]
    BY <1>0, <1>11 DEF UnWaiters
  <2>3. QED
    BY <1>0, <1>11, <2>1, <2>2, RwQuiet DEF UnWaiters, Goto
<1>12. CASE UnCas(t)
  <2>1. CASE rwlock # rwval[t]
    <3>1. rwheld[t] # "none"
      BY <1>12 DEF UnCas, RwIInv, RwLocal
    <3>2. QED
      BY <1>0, <1>12, <2>1, <3>1, RwQuiet DEF UnCas, RwGoto, Goto
  <2>2. QED
    BY <1>12, <2>1, UnCasIInv
<1>13. CASE UnWake(t)
  <2>1. rwheld[t] = "none"
    BY <1>13 DEF UnWake, RwIInv, RwLocal
  <2>2. QED
    BY <1>0, <1>13, <2>1, RwReturned, RwQuiet DEF UnWake
<1>14. QED
  BY <1>1, <1>2, <1>3, <1>4, <1>5, <1>6, <1>7, <1>8, <1>9, <1>10, <1>11, <1>12, <1>13 DEF RwStep

LEMMA RwNextIInv == RwIInv /\ [RwNext]_<<threadVars, rwVars>> => RwIInv'
<1> SUFFICES ASSUME RwIInv, [RwNext]_<<threadVars, rwVars>> PROVE RwIInv'
  OBVIOUS
<1>0. /\ rwlock \in RwWord /\ rwwaiters \in Int /\ rwseen \in [Threads -> BOOLEAN]
      /\ \A t \in Threads : rwval[t] \in RwWord /\ rwval = [rwval EXCEPT ![t] = rwval[t]]
  BY DEF RwIInv, RwTypeOK
<1>1. ASSUME NEW t \in Threads, RwTimeout(t) PROVE RwIInv'
  <2>1. rwheld[t] = "none"
    BY <1>1 DEF RwTimeout, RwIInv, RwLocal
  <2>2. QED
    BY <1>0, <1>1, <2>1, RwQuiet DEF RwTimeout, Goto, rwVars, RwLabels
<1>2. ASSUME NEW t \in Threads, NEW o \in RwOps, RwCall(t, o) PROVE RwIInv'
  <2>1. RwAttempt(o) \in {"rdload", "wrcas"}
    BY DEF RwAttempt
  <2>2. QED
    BY <1>0, <1>2, <2>1, RwQuiet DEF RwCall, Call, rwVars, RwLabels
<1>3. CASE UNCHANGED <<threadVars, rwVars>>
  BY <1>3 DEF threadVars, rwVars, RwIInv, RwTypeOK, RwLocal, RwRoom, RwWriting, RwExclusion
<1>4. QED
  BY <1>1, <1>2, <1>3, RwStepIInv DEF RwNext

\* The strengthened invariant of the read-write lock holds in every reachable
\* state, its type invariant included.
THEOREM RwInvariance == RwSpec => []RwIInv
<1>1. ThreadsInit(RwCalls) /\ RwInit => RwIInv
  <2> SUFFICES ASSUME ThreadsInit(RwCalls), RwInit PROVE RwIInv
    OBVIOUS
  <2>1. RwReaders = {} /\ ~ RwWriting
    BY DEF RwInit, RwReaders, RwWriting
  <2>2. RwTypeOK /\ pc \in [Threads -> RwLabels] /\ \A t \in Threads : RwLocal(t)
    BY UnlockedWord DEF ThreadsInit, RwInit, RwTypeOK, RwLabels, RwLocal
  <2>3. RwExclusion /\ RwRoom
    BY <2>1, UnlockedWord, FS_EmptySet, RWLockAssumption
    DEF RWLockAssumption, RwInit, RwExclusion, RwRoom, RwReaders, RwWriting
  <2>4. QED
    BY <2>2, <2>3 DEF RwIInv
<1>2. QED
  BY <1>1, RwNextIInv, PTL DEF RwSpec

\* A writer of a pthread_rwlock_t is alone and the lock word counts the readers
\* exactly, for any number of threads and any value of the writer's mark,
\* although the two are told apart only by the count being at its limit.
THEOREM RwSafe == RwSpec => []RwExclusion
<1>1. RwIInv => RwExclusion
  BY DEF RwIInv
<1>2. QED
  BY <1>1, RwInvariance, PTL

(***************************************************************************)
(* Barriers, for any finite set of threads, any number of calls and any    *)
(* number of threads in a round, private and shared. Waiting on a word,    *)
(* unlocking and waking are several steps of the code that change nothing  *)
(* for the round. Heading(t) is what t does apart from them. Over it the   *)
(* invariant counts the threads of each round against the counters of the  *)
(* barrier and of the instances.                                           *)
(***************************************************************************)

\* The steps whose successor is in bwait.
Locking == {"bunlock", "bwaiters", "bunlockwake"}
Zeroing == {"pzero", "pwaiters2", "pwake2"}
Waits == {"bwait", "bsleep", "bdec"}

Labels ==
  Locking \cup Zeroing \cup Waits \cup
  {"idle", "bsleepuncounted", "block", "binst", "bownerinc", "breturnowner", "blast", "blastwaiters",
   "blastwake", "bothers", "bexit", "bfinish", "bfinishwake", "pcas", "pcount", "parrived", "pleave",
   "pleft", "punload", "punwaiters", "puncas", "punwake", "destroy", "destroyor", "destroyload"}

\* What a thread at p does, apart from the steps that no other thread can tell;
\* w is the step after its wait.
HeadingOf(p, w) ==
  CASE p \in {"bwait", "bsleep"} -> IF w = "bexit" THEN "bothers" ELSE w
    [] p = "bsleepuncounted" -> IF w = "breturnowner" THEN p ELSE "destroy"
    [] p \in Locking \cup Zeroing \cup {"bdec"} -> w
    [] p = "binst" -> "block"
    [] p = "pcount" -> "pcas"
    [] p \in {"blastwaiters", "blastwake"} -> "bexit"
    [] p \in {"punwaiters", "puncas"} -> "punload"
    [] p \in {"destroyor", "destroyload"} -> "destroy"
    [] OTHER -> p

Heading(t) == HeadingOf(pc[t], bwait[t].then)

Owners == {"bownerinc", "bsleepuncounted", "breturnowner"}
Users == {"blast", "bothers", "bexit"}
PrivateSteps == Owners \cup Users \cup {"idle", "block", "bfinish", "bfinishwake", "destroy"}
SharedSteps == {"idle", "pcas", "parrived", "pleave", "pleft", "punload", "punwake", "destroy"}

WaitRecords == [on : BWords, val : Int, then : Labels]

BarrierTyped ==
  /\ pc \in [Threads -> Labels]
  /\ op \in [Threads -> {"none", "barrier", "destroy"}]
  /\ left \in [Threads -> Nat]
  /\ bshared \in BOOLEAN
  /\ bword \in [BWords -> Int]
  /\ bwaiters \in [BWords -> Int]
  /\ binst \in Threads \cup {Null}
  /\ bcount \in [Threads -> Int]
  /\ bmine \in [Threads -> Threads \cup {Null}]
  /\ bwait \in [Threads -> WaitRecords]
  /\ bserial \in [Threads -> BOOLEAN]
  /\ bentered \in Nat /\ bleft \in Nat /\ bserials \in Nat
  /\ bdestroy \in Threads \cup {Null}

\* What t waits for, and that its steps are those of its call and of the kind
\* of barrier.
ShapeAt(t) ==
  /\ pc[t] \in Locking =>
       bwait[t].then \in IF bshared THEN {"parrived"} ELSE {"bownerinc", "blast", "bothers"}
  /\ pc[t] \in Zeroing => bwait[t].then \in {"pleave", "punload"}
  /\ pc[t] \in Waits =>
       IF bshared
       THEN \/ bwait[t].on = BLock /\ bwait[t].then = "pcas"
            \/ bwait[t].on = BCount /\ bwait[t].then \in {"parrived", "pleft"}
       ELSE \/ bwait[t].on = BLock /\ bwait[t].then = "block"
            \/ bwait[t].on = Last(bmine[t]) /\ bwait[t].val = 0 /\ bwait[t].then = "bexit"
  /\ pc[t] = "bsleepuncounted" =>
       IF bshared THEN bwait[t].on = BLock /\ bwait[t].then = "destroyload"
       ELSE bwait[t].on = Finished(t) /\ bwait[t].val = 1 /\ bwait[t].then = "breturnowner"
  /\ pc[t] \in {"destroyor", "destroyload"} => bshared
  /\ Heading(t) \in IF bshared THEN SharedSteps ELSE PrivateSteps
  /\ Heading(t) = "idle" <=> op[t] = "none"
  /\ Heading(t) = "destroy" <=> op[t] = "destroy"
  /\ op[t] = "destroy" => bdestroy = t

Shape == \A t \in Threads : ShapeAt(t)

-----------------------------------------------------------------------------
\* The calls that have not come to a round, and those that have.
Coming == {t \in Threads : Heading(t) \in {"block", "pcas"}}
Within == {t \in Threads : Heading(t) \notin {"idle", "destroy", "block", "pcas"}}
Serial == {t \in Within : bserial[t]}

\* The threads of the round that is not full, and the serial threads of it.
Present ==
  IF bshared THEN IF bword[BCount] \in 1 .. Count - 1 THEN bword[BCount] ELSE 0
  ELSE IF binst = Null THEN 0 ELSE bcount[binst] + 1
PresentSerial == IF ~bshared /\ binst # Null THEN 1 ELSE 0

\* All rounds but that one had Count threads and one serial thread.
RoundsAre(r) ==
  /\ bleft + Cardinality(Within) = Count * r + Present
  /\ bserials + Cardinality(Serial) = r + PresentSerial

CountsOK ==
  /\ bentered = Cardinality(Coming) + Cardinality(Within) + bleft
  /\ \E r \in Nat : RoundsAre(r)

-----------------------------------------------------------------------------
Holding(t) == pc[t] \in {"binst", "bunlock", "pcount"}
OneHolds == \A t, u \in Threads : Holding(t) /\ Holding(u) => t = u

\* A private barrier: the users of the instance of o, which counts them, and
\* the last of them, which has still to report to o.
Inside(o) == {t \in Threads : bmine[t] = o /\ Heading(t) \in Users}
Finishing(o) == {t \in Threads : bmine[t] = o /\ Heading(t) = "bfinish"}

MineOK(t) ==
  /\ Heading(t) \in Owners <=> bmine[t] = t
  /\ Heading(t) \in Users \cup {"bfinish"} => bmine[t] \in Threads /\ bmine[bmine[t]] = bmine[t]
  /\ Heading(t) \in {"idle", "block", "destroy"} => bmine[t] = Null
  /\ Heading(t) \notin {"idle", "destroy"} => (bserial[t] <=> Heading(t) \in Owners)

InstanceOK(o) ==
  /\ bcount[o] = Cardinality(Inside(o))
  /\ binst = o =>
       /\ bcount[o] < Count - 1 /\ bword[Last(o)] = 0 /\ Finishing(o) = {}
       /\ \A t \in Inside(o) : Heading(t) = "bothers"
  /\ binst # o /\ bword[Last(o)] = 0 =>
       /\ bcount[o] = Count - 1 /\ Finishing(o) = {}
       /\ \A t \in Inside(o) : Heading(t) # "bexit"
  /\ bword[Last(o)] # 0 => \A t \in Inside(o) : Heading(t) # "blast"
  /\ \A t, u \in Inside(o) : Heading(t) = "blast" /\ Heading(u) = "blast" => t = u
  /\ \A t, u \in Finishing(o) : t = u
  /\ Inside(o) # {} => Finishing(o) = {}
  /\ bword[Finished(o)] = (IF Heading(o) = "bownerinc" THEN 0 ELSE 1)
                          + (IF binst # o /\ Inside(o) = {} /\ Finishing(o) = {} THEN 1 ELSE 0)
  /\ Heading(o) = "breturnowner" => binst # o /\ Inside(o) = {} /\ Finishing(o) = {}

PrivateOK ==
  /\ \A t \in Threads : Holding(t) => bword[BLock] = 1
  /\ binst # Null => bmine[binst] = binst
  /\ \A t \in Threads : MineOK(t)
  /\ \A o \in Threads : bmine[o] = o => InstanceOK(o)

-----------------------------------------------------------------------------
\* A shared barrier: the threads that have arrived in the round, and those that
\* have counted themselves out of it.
Arrived == {t \in Threads : Heading(t) \in {"parrived", "pleave"}}
Gone == {t \in Threads : Heading(t) \in {"pleft", "punload"}}

NoHolder == \A t \in Threads : ~Holding(t)
NoZero == \A t \in Threads : pc[t] # "pzero"
OnlyZero(x) == \A t \in Threads : pc[t] = "pzero" <=> t = x

\* The round fills, ...
Filling ==
  /\ bdestroy = Null /\ NoZero /\ Gone = {}
  /\ bword[BCount] \in 0 .. Count - 1 /\ Cardinality(Arrived) = bword[BCount]
  /\ \A t \in Arrived : Heading(t) = "parrived"
  /\ bword[BLock] = IF NoHolder THEN 0 ELSE Count

\* ... is full, until the last thread has set the count to 0, ...
Full ==
  /\ bdestroy = Null /\ NoHolder /\ Gone = {} /\ bword[BLock] = Count
  /\ bword[BCount] = Count /\ Cardinality(Arrived) = Count
  /\ \E x \in Arrived : /\ OnlyZero(x) /\ Heading(x) = "pleave"
                        /\ \A t \in Arrived \ {x} : Heading(t) = "parrived"

\* ... empties, ...
Emptying ==
  /\ bdestroy = Null /\ NoHolder /\ NoZero /\ bword[BLock] = Count
  /\ Arrived # {} /\ bword[BCount] = - Cardinality(Gone)
  /\ Cardinality(Arrived) + Cardinality(Gone) = Count
  /\ \A t \in Gone : Heading(t) = "pleft"

\* ... is empty, until the last one has set the count to 0 again, ...
Empty ==
  /\ bdestroy = Null /\ NoHolder /\ Arrived = {} /\ bword[BLock] = Count
  /\ bword[BCount] = - Count /\ Cardinality(Gone) = Count
  /\ \E x \in Gone : /\ OnlyZero(x) /\ Heading(x) = "punload"
                     /\ \A t \in Gone \ {x} : Heading(t) = "pleft"

\* ... and ends, while its threads give the lock back one by one.
Ending ==
  /\ NoHolder /\ NoZero /\ Arrived = {} /\ bword[BCount] = 0
  /\ Cardinality(Gone) <= Count
  /\ \/ bword[BLock] = Cardinality(Gone)
     \/ bdestroy # Null /\ bword[BLock] = Cardinality(Gone) + INT_MIN
  /\ bdestroy = Null => Gone # {}

SharedOK == Filling \/ Full \/ Emptying \/ Empty \/ Ending

\* Who destroys the barrier has seen the last round end.
DestroyOK ==
  bdestroy # Null =>
    /\ op[bdestroy] \in {"none", "destroy"}
    /\ \A t \in Threads : left[t] = 0 /\ Heading(t) \notin {"block", "pcas"}
    /\ ~bshared => \A t \in Threads : Heading(t) \in {"idle", "destroy", "bfinishwake"}
    /\ bshared => Ending /\ (op[bdestroy] = "none" => Gone = {})

BarrierInv ==
  /\ BarrierTyped /\ Shape /\ CountsOK /\ DestroyOK /\ OneHolds
  /\ ~bshared => PrivateOK
  /\ bshared => SharedOK

-----------------------------------------------------------------------------
\* The words are different ones.
LEMMA Words ==
  /\ BLock \in BWords /\ BCount \in BWords /\ BLock # BCount
  /\ \A i \in Threads : /\ Last(i) \in BWords /\ Finished(i) \in BWords
                        /\ Last(i) # BLock /\ Last(i) # BCount
                        /\ Finished(i) # BLock /\ Finished(i) # BCount
  /\ \A i, j \in Threads : /\ Last(i) # Finished(j)
                           /\ Last(i) = Last(j) => i = j
                           /\ Finished(i) = Finished(j) => i = j
BY DEF BWords, BLock, BCount, Last, Finished

LEMMA WordsOf ==
  ASSUME NEW i \in Threads
  PROVE  /\ BLock \in BWords /\ BCount \in BWords /\ Last(i) \in BWords /\ Finished(i) \in BWords
         /\ Last(i) # BLock /\ Last(i) # BCount /\ Finished(i) # BLock /\ Finished(i) # BCount
         /\ Last(i) # Finished(i)
BY DEF BWords, BLock, BCount, Last, Finished

LEMMA WordsApart ==
  ASSUME NEW i \in Threads, NEW j \in Threads, i # j
  PROVE  Last(i) # Last(j) /\ Finished(i) # Finished(j) /\ Last(i) # Finished(j) /\ Last(j) # Finished(i)
BY DEF BWords, BLock, BCount, Last, Finished

\* The steps are steps.
LEMMA LabelsAre ==
  /\ "bunlock" \in Labels /\ "bwaiters" \in Labels /\ "bunlockwake" \in Labels
  /\ "pzero" \in Labels /\ "pwaiters2" \in Labels /\ "pwake2" \in Labels /\ "bwait" \in Labels
  /\ "bsleep" \in Labels /\ "bdec" \in Labels /\ "idle" \in Labels
  /\ "bsleepuncounted" \in Labels /\ "block" \in Labels /\ "binst" \in Labels
  /\ "bownerinc" \in Labels /\ "breturnowner" \in Labels /\ "blast" \in Labels
  /\ "blastwaiters" \in Labels /\ "blastwake" \in Labels /\ "bothers" \in Labels
  /\ "bexit" \in Labels /\ "bfinish" \in Labels /\ "bfinishwake" \in Labels
  /\ "pcas" \in Labels /\ "pcount" \in Labels /\ "parrived" \in Labels /\ "pleave" \in Labels
  /\ "pleft" \in Labels /\ "punload" \in Labels /\ "punwaiters" \in Labels
  /\ "puncas" \in Labels /\ "punwake" \in Labels /\ "destroy" \in Labels
  /\ "destroyor" \in Labels /\ "destroyload" \in Labels
BY DEF Labels, Locking, Zeroing, Waits

\* What a thread waits for.
LEMMA WaitsAre ==
  /\ NoWait \in WaitRecords
  /\ \A w \in BWords, v \in Int, l \in Labels : [on |-> w, val |-> v, then |-> l] \in WaitRecords
  /\ \A x \in WaitRecords : x.on \in BWords /\ x.val \in Int /\ x.then \in Labels
BY Words, LabelsAre DEF WaitRecords, NoWait

LEMMA WillWaitTyped ==
  ASSUME bwait \in [Threads -> WaitRecords], NEW t \in Threads,
         NEW w \in BWords, NEW v \in Int, NEW l \in Labels, WillWait(t, w, v, l)
  PROVE  bwait' \in [Threads -> WaitRecords]
<1>1. [on |-> w, val |-> v, then |-> l] \in WaitRecords
  BY WaitsAre
<1> QED BY <1>1 DEF WillWait

LEMMA ResumeTyped ==
  ASSUME BarrierTyped, NEW t \in Threads, Resume(t)
  PROVE  /\ pc' \in [Threads -> Labels] /\ op' = op /\ left' = left
         /\ bwait' \in [Threads -> WaitRecords]
<1>1. bwait[t].then \in Labels
  BY WaitsAre DEF BarrierTyped
<1> QED BY <1>1, WaitsAre DEF BarrierTyped, Resume, Goto

LEMMA BReturnTyped ==
  ASSUME BarrierTyped, NEW t \in Threads, BReturn(t), bword' \in [BWords -> Int], bcount' \in [Threads -> Int]
  PROVE  BarrierTyped'
<1>1. pc' \in [Threads -> Labels] /\ op' \in [Threads -> {"none", "barrier", "destroy"}]
  BY LabelsAre DEF BarrierTyped, BReturn, Return
<1>2. bwait' \in [Threads -> WaitRecords]
  BY WaitsAre DEF BarrierTyped, BReturn
<1>3. bmine' \in [Threads -> Threads \cup {Null}]
  BY DEF BarrierTyped, BReturn
<1> QED BY <1>1, <1>2, <1>3 DEF BarrierTyped, BReturn, Return

\* HeadingOf, step by step.
LEMMA HeadingIs ==
  ASSUME NEW w
  PROVE
  /\ HeadingOf("bunlock", w) = w
  /\ HeadingOf("bwaiters", w) = w
  /\ HeadingOf("bunlockwake", w) = w
  /\ HeadingOf("pzero", w) = w
  /\ HeadingOf("pwaiters2", w) = w
  /\ HeadingOf("pwake2", w) = w
  /\ HeadingOf("bwait", w) = (IF w = "bexit" THEN "bothers" ELSE w)
  /\ HeadingOf("bsleep", w) = (IF w = "bexit" THEN "bothers" ELSE w)
  /\ HeadingOf("bdec", w) = w
  /\ HeadingOf("idle", w) = "idle"
  /\ HeadingOf("bsleepuncounted", w) = (IF w = "breturnowner" THEN "bsleepuncounted" ELSE "destroy")
  /\ HeadingOf("block", w) = "block"
  /\ HeadingOf("binst", w) = "block"
  /\ HeadingOf("bownerinc", w) = "bownerinc"
  /\ HeadingOf("breturnowner", w) = "breturnowner"
  /\ HeadingOf("blast", w) = "blast"
  /\ HeadingOf("blastwaiters", w) = "bexit"
  /\ HeadingOf("blastwake", w) = "bexit"
  /\ HeadingOf("bothers", w) = "bothers"
  /\ HeadingOf("bexit", w) = "bexit"
  /\ HeadingOf("bfinish", w) = "bfinish"
  /\ HeadingOf("bfinishwake", w) = "bfinishwake"
  /\ HeadingOf("pcas", w) = "pcas"
  /\ HeadingOf("pcount", w) = "pcas"
  /\ HeadingOf("parrived", w) = "parrived"
  /\ HeadingOf("pleave", w) = "pleave"
  /\ HeadingOf("pleft", w) = "pleft"
  /\ HeadingOf("punload", w) = "punload"
  /\ HeadingOf("punwaiters", w) = "punload"
  /\ HeadingOf("puncas", w) = "punload"
  /\ HeadingOf("punwake", w) = "punwake"
  /\ HeadingOf("destroy", w) = "destroy"
  /\ HeadingOf("destroyor", w) = "destroy"
  /\ HeadingOf("destroyload", w) = "destroy"
BY DEF HeadingOf, Locking, Zeroing

\* One member of a set changes.
LEMMA OneMember ==
  ASSUME NEW t \in Threads, NEW S \in SUBSET Threads, NEW T \in SUBSET Threads,
         \A u \in Threads \ {t} : u \in S <=> u \in T
  PROVE  /\ Cardinality(S) \in Nat /\ Cardinality(T) \in Nat
         /\ Cardinality(T) = Cardinality(S) + (IF t \in T THEN 1 ELSE 0) - (IF t \in S THEN 1 ELSE 0)
<1>1. IsFiniteSet(S) /\ IsFiniteSet(T)
  BY ThreadsAssumption, FS_Subset DEF ThreadsAssumption
<1>2. Cardinality(S) \in Nat /\ Cardinality(T) \in Nat
  BY <1>1, FS_CardinalityType
<1>3. CASE t \in S <=> t \in T
  <2>1. S = T
    BY <1>3
  <2> QED BY <2>1, <1>2
<1>4. CASE t \in S /\ t \notin T
  <2>1. T = S \ {t}
    BY <1>4
  <2> QED BY <2>1, <1>1, <1>2, <1>4, FS_RemoveElement
<1>5. CASE t \notin S /\ t \in T
  <2>1. T = S \cup {t}
    BY <1>5
  <2> QED BY <2>1, <1>1, <1>2, <1>5, FS_AddElement
<1> QED BY <1>3, <1>4, <1>5

LEMMA TypedStep ==
  ASSUME BarrierTyped, NEW t \in Threads, pc[t] \in {"blast", "bothers", "bexit", "bfinish"} => bmine[t] \in Threads,
         BarrierStep(t) \/ BarrierCall(t) \/ DestroyCall(t)
  PROVE  BarrierTyped'
<1>0. bwait[t].on \in BWords
  BY WaitsAre DEF BarrierTyped
<1> USE <1>0, BarrierAssumption, Words, LabelsAre DEF BarrierAssumption, BarrierTyped
<1>1. ASSUME BWait(t) PROVE BarrierTyped'
  <2>1. bwait' \in [Threads -> WaitRecords]
    BY <1>1, ResumeTyped DEF BWait, Goto, bHistory
  <2>2. pc' \in [Threads -> Labels]
    BY <1>1, ResumeTyped DEF BWait, Goto, bHistory
  <2>3. op' = op /\ left' = left
    BY <1>1, ResumeTyped DEF BWait, Goto, bHistory
  <2> QED BY <1>1, <2>1, <2>2, <2>3 DEF BWait, Goto, bHistory
<1>2. ASSUME BSleep(t) PROVE BarrierTyped'
  <2>1. bwait' \in [Threads -> WaitRecords]
    BY <1>2, ResumeTyped DEF BSleep, Goto, FutexWait, bObject, bHistory
  <2>2. pc' \in [Threads -> Labels]
    BY <1>2, ResumeTyped DEF BSleep, Goto, FutexWait, bObject, bHistory
  <2>3. op' = op /\ left' = left
    BY <1>2, ResumeTyped DEF BSleep, Goto, FutexWait, bObject, bHistory
  <2> QED BY <1>2, <2>1, <2>2, <2>3 DEF BSleep, Goto, FutexWait, bObject, bHistory
<1>3. ASSUME BDec(t) PROVE BarrierTyped'
  <2>1. bwait' \in [Threads -> WaitRecords]
    BY <1>3, ResumeTyped DEF BDec, Goto, bHistory
  <2>2. pc' \in [Threads -> Labels]
    BY <1>3, ResumeTyped DEF BDec, Goto, bHistory
  <2>3. op' = op /\ left' = left
    BY <1>3, ResumeTyped DEF BDec, Goto, bHistory
  <2> QED BY <1>3, <2>1, <2>2, <2>3 DEF BDec, Goto, bHistory
<1>4. ASSUME BUnlock(t) PROVE BarrierTyped'
  BY <1>4 DEF BUnlock, Goto, Store, bLocals, bHistory
<1>5. ASSUME BSeeWaiters(t) PROVE BarrierTyped'
  <2>1. bwait' \in [Threads -> WaitRecords]
    BY <1>5, ResumeTyped DEF BSeeWaiters, Goto, bObject, bHistory
  <2>2. pc' \in [Threads -> Labels]
    BY <1>5, ResumeTyped DEF BSeeWaiters, Goto, bObject, bHistory
  <2>3. op' = op /\ left' = left
    BY <1>5, ResumeTyped DEF BSeeWaiters, Goto, bObject, bHistory
  <2> QED BY <1>5, <2>1, <2>2, <2>3 DEF BSeeWaiters, Goto, bObject, bHistory
<1>6. ASSUME BUnlockWake(t) PROVE BarrierTyped'
  <2>1. bwait' \in [Threads -> WaitRecords]
    BY <1>6, ResumeTyped DEF BUnlockWake, Goto, bObject, bHistory
  <2>2. pc' \in [Threads -> Labels]
    BY <1>6, ResumeTyped DEF BUnlockWake, Goto, bObject, bHistory
  <2>3. op' = op /\ left' = left
    BY <1>6, ResumeTyped DEF BUnlockWake, Goto, bObject, bHistory
  <2> QED BY <1>6, <2>1, <2>2, <2>3 DEF BUnlockWake, Goto, bObject, bHistory
<1>7. ASSUME BTakeLock(t) PROVE BarrierTyped'
  <2>1. bwait' \in [Threads -> WaitRecords]
    BY <1>7, WillWaitTyped DEF BTakeLock, Goto, Store, bHistory
  <2>2. pc' \in [Threads -> Labels]
    BY <1>7 DEF BTakeLock, Goto, Store, bHistory
  <2> QED BY <1>7, <2>1, <2>2 DEF BTakeLock, Goto, Store, bHistory
<1>8. ASSUME BFirst(t) PROVE BarrierTyped'
  <2>1. bwait' \in [Threads -> WaitRecords]
    BY <1>8, WillWaitTyped DEF BFirst, Goto, bHistory
  <2>2. pc' \in [Threads -> Labels]
    BY <1>8 DEF BFirst, Goto, bHistory
  <2> QED BY <1>8, <2>1, <2>2 DEF BFirst, Goto, bHistory
<1>9. ASSUME BArrive(t) PROVE BarrierTyped'
  <2>1. bwait' \in [Threads -> WaitRecords]
    BY <1>9, WillWaitTyped DEF BArrive, Goto, bHistory
  <2>2. pc' \in [Threads -> Labels]
    BY <1>9 DEF BArrive, Goto, bHistory
  <2> QED BY <1>9, <2>1, <2>2 DEF BArrive, Goto, bHistory
<1>10. ASSUME BOwnerInc(t) PROVE BarrierTyped'
  <2>1. bwait' \in [Threads -> WaitRecords]
    BY <1>10, WillWaitTyped DEF BOwnerInc, Goto, Add, bHistory
  <2>2. pc' \in [Threads -> Labels]
    BY <1>10 DEF BOwnerInc, Goto, Add, bHistory
  <2> QED BY <1>10, <2>1, <2>2 DEF BOwnerInc, Goto, Add, bHistory
<1>11. ASSUME BOwnerReturns(t) PROVE BarrierTyped'
  <2>1. bword' \in [BWords -> Int] /\ bcount' \in [Threads -> Int]
    BY <1>11 DEF BOwnerReturns
  <2> QED BY <1>11, <2>1, BReturnTyped DEF BOwnerReturns
<1>12. ASSUME BLast(t) PROVE BarrierTyped'
  BY <1>12 DEF BLast, Goto, Store, bLocals, bHistory
<1>13. ASSUME BLastWaiters(t) PROVE BarrierTyped'
  BY <1>13 DEF BLastWaiters, Goto, barrierVars, bObject, bLocals, bHistory
<1>14. ASSUME BLastWake(t) PROVE BarrierTyped'
  BY <1>14 DEF BLastWake, Goto, barrierVars, bObject, bLocals, bHistory
<1>15. ASSUME BOthers(t) PROVE BarrierTyped'
  <2>1. bwait' \in [Threads -> WaitRecords]
    BY <1>15, WillWaitTyped DEF BOthers, Goto, bHistory
  <2>2. pc' \in [Threads -> Labels]
    BY <1>15 DEF BOthers, Goto, bHistory
  <2> QED BY <1>15, <2>1, <2>2 DEF BOthers, Goto, bHistory
<1>16. ASSUME BExit(t) PROVE BarrierTyped'
  <2>1. bword' \in [BWords -> Int] /\ bcount' \in [Threads -> Int]
    BY <1>16 DEF BExit, Goto, bLocals, bHistory
  <2>2. CASE BReturn(t)
    BY <2>1, <2>2, BReturnTyped
  <2>3. CASE ~BReturn(t)
    BY <1>16, <2>1, <2>3 DEF BExit, Goto, bLocals, bHistory
  <2> QED BY <2>2, <2>3
<1>17. ASSUME BFinish(t) PROVE BarrierTyped'
  <2>1. bword' \in [BWords -> Int] /\ bcount' \in [Threads -> Int]
    BY <1>17 DEF BFinish, Goto, Add, bLocals, bHistory
  <2>2. CASE BReturn(t)
    BY <2>1, <2>2, BReturnTyped
  <2>3. CASE ~BReturn(t)
    BY <1>17, <2>1, <2>3 DEF BFinish, Goto, Add, bLocals, bHistory
  <2> QED BY <2>2, <2>3
<1>18. ASSUME BFinishWake(t) PROVE BarrierTyped'
  <2>1. bword' \in [BWords -> Int] /\ bcount' \in [Threads -> Int]
    BY <1>18 DEF BFinishWake
  <2> QED BY <1>18, <2>1, BReturnTyped DEF BFinishWake
<1>19. ASSUME PCas(t) PROVE BarrierTyped'
  <2>1. bwait' \in [Threads -> WaitRecords]
    BY <1>19, WillWaitTyped DEF PCas, Goto, Store, bHistory
  <2>2. pc' \in [Threads -> Labels]
    BY <1>19 DEF PCas, Goto, Store, bHistory
  <2> QED BY <1>19, <2>1, <2>2 DEF PCas, Goto, Store, bHistory
<1>20. ASSUME PCount(t) PROVE BarrierTyped'
  <2>1. bwait' \in [Threads -> WaitRecords]
    BY <1>20, WillWaitTyped DEF PCount, Goto, Add, bHistory
  <2>2. pc' \in [Threads -> Labels]
    BY <1>20 DEF PCount, Goto, Add, bHistory
  <2> QED BY <1>20, <2>1, <2>2 DEF PCount, Goto, Add, bHistory
<1>21. ASSUME PZero(t) PROVE BarrierTyped'
  BY <1>21 DEF PZero, Goto, Store, bLocals, bHistory
<1>22. ASSUME PWaiters2(t) PROVE BarrierTyped'
  <2>1. bwait' \in [Threads -> WaitRecords]
    BY <1>22, ResumeTyped DEF PWaiters2, Goto, bObject, bHistory
  <2>2. pc' \in [Threads -> Labels]
    BY <1>22, ResumeTyped DEF PWaiters2, Goto, bObject, bHistory
  <2>3. op' = op /\ left' = left
    BY <1>22, ResumeTyped DEF PWaiters2, Goto, bObject, bHistory
  <2> QED BY <1>22, <2>1, <2>2, <2>3 DEF PWaiters2, Goto, bObject, bHistory
<1>23. ASSUME PWake2(t) PROVE BarrierTyped'
  <2>1. bwait' \in [Threads -> WaitRecords]
    BY <1>23, ResumeTyped DEF PWake2, Goto, bObject, bHistory
  <2>2. pc' \in [Threads -> Labels]
    BY <1>23, ResumeTyped DEF PWake2, Goto, bObject, bHistory
  <2>3. op' = op /\ left' = left
    BY <1>23, ResumeTyped DEF PWake2, Goto, bObject, bHistory
  <2> QED BY <1>23, <2>1, <2>2, <2>3 DEF PWake2, Goto, bObject, bHistory
<1>24. ASSUME PAwait(t) PROVE BarrierTyped'
  <2>1. bwait' \in [Threads -> WaitRecords]
    BY <1>24, WillWaitTyped DEF PAwait, Goto, bHistory
  <2>2. pc' \in [Threads -> Labels]
    BY <1>24 DEF PAwait, Goto, bHistory
  <2> QED BY <1>24, <2>1, <2>2 DEF PAwait, Goto, bHistory
<1>25. ASSUME PLeave(t) PROVE BarrierTyped'
  <2>1. bwait' \in [Threads -> WaitRecords]
    BY <1>25, WillWaitTyped DEF PLeave, Goto, Add, bHistory
  <2>2. pc' \in [Threads -> Labels]
    BY <1>25 DEF PLeave, Goto, Add, bHistory
  <2> QED BY <1>25, <2>1, <2>2 DEF PLeave, Goto, Add, bHistory
<1>26. ASSUME PUnload(t) PROVE BarrierTyped'
  BY <1>26 DEF PUnload, Goto, bHistory
<1>27. ASSUME PUnwaiters(t) PROVE BarrierTyped'
  BY <1>27 DEF PUnwaiters, Goto, bHistory
<1>28. ASSUME PUncas(t) PROVE BarrierTyped'
  <2>1. bword' \in [BWords -> Int] /\ bcount' \in [Threads -> Int]
    BY <1>28 DEF PUncas, Goto, Store, bLocals, bHistory, barrierVars, bObject
  <2>2. CASE BReturn(t)
    BY <2>1, <2>2, BReturnTyped
  <2>3. CASE ~BReturn(t)
    BY <1>28, <2>1, <2>3 DEF PUncas, Goto, Store, bLocals, bHistory, barrierVars, bObject
  <2> QED BY <2>2, <2>3
<1>29. ASSUME PUnwake(t) PROVE BarrierTyped'
  <2>1. bword' \in [BWords -> Int] /\ bcount' \in [Threads -> Int]
    BY <1>29 DEF PUnwake
  <2> QED BY <1>29, <2>1, BReturnTyped DEF PUnwake
<1>30. ASSUME DestroyMark(t) PROVE BarrierTyped'
  BY <1>30 DEF DestroyMark, Goto, Return, barrierVars, bObject, bLocals, bHistory
<1>31. ASSUME DestroyOr(t) PROVE BarrierTyped'
  BY <1>31 DEF DestroyOr, Goto, bLocals, bHistory
<1>32. ASSUME DestroyLoad(t) PROVE BarrierTyped'
  <2>1. bwait' \in [Threads -> WaitRecords]
    BY <1>32, WillWaitTyped DEF DestroyLoad, Goto, Return, bHistory
  <2>2. pc' \in [Threads -> Labels]
    BY <1>32 DEF DestroyLoad, Goto, Return, bHistory
  <2> QED BY <1>32, <2>1, <2>2 DEF DestroyLoad, Goto, Return, bHistory
<1>33. ASSUME BarrierCall(t) PROVE BarrierTyped'
  BY <1>33 DEF BarrierCall, Call
<1>34. ASSUME DestroyCall(t) PROVE BarrierTyped'
  BY <1>34 DEF DestroyCall, bLocals, bHistory
<1> QED BY <1>1, <1>2, <1>3, <1>4, <1>5, <1>6, <1>7, <1>8, <1>9, <1>10, <1>11, <1>12, <1>13, <1>14, <1>15, <1>16, <1>17, <1>18, <1>19, <1>20, <1>21, <1>22, <1>23, <1>24, <1>25, <1>26, <1>27, <1>28, <1>29, <1>30, <1>31, <1>32, <1>33, <1>34 DEF BarrierStep

-----------------------------------------------------------------------------
\* A step of t leaves the other threads where they are.
Alone(t) ==
  /\ bshared' = bshared
  /\ \A u \in Threads \ {t} : /\ pc'[u] = pc[u] /\ op'[u] = op[u] /\ left'[u] = left[u]
                              /\ bwait'[u] = bwait[u] /\ bmine'[u] = bmine[u] /\ bserial'[u] = bserial[u]

LEMMA AloneStep ==
  ASSUME BarrierTyped, NEW t \in Threads, BarrierStep(t) \/ BarrierCall(t) \/ DestroyCall(t)
  PROVE  Alone(t)
<1> USE DEF Alone, BarrierTyped
<1>1. ASSUME BWait(t) PROVE Alone(t)
  BY <1>1 DEF BWait, Goto, Resume, bHistory
<1>2. ASSUME BSleep(t) PROVE Alone(t)
  BY <1>2 DEF BSleep, Goto, Resume, FutexWait, bObject, bHistory
<1>3. ASSUME BDec(t) PROVE Alone(t)
  BY <1>3 DEF BDec, Resume, Goto, bHistory
<1>4. ASSUME BUnlock(t) PROVE Alone(t)
  BY <1>4 DEF BUnlock, Goto, Store, bLocals, bHistory
<1>5. ASSUME BSeeWaiters(t) PROVE Alone(t)
  BY <1>5 DEF BSeeWaiters, Goto, Resume, bObject, bHistory
<1>6. ASSUME BUnlockWake(t) PROVE Alone(t)
  BY <1>6 DEF BUnlockWake, Resume, Goto, bObject, bHistory
<1>7. ASSUME BTakeLock(t) PROVE Alone(t)
  BY <1>7 DEF BTakeLock, Goto, WillWait, Store, bHistory
<1>8. ASSUME BFirst(t) PROVE Alone(t)
  BY <1>8 DEF BFirst, Goto, WillWait, bHistory
<1>9. ASSUME BArrive(t) PROVE Alone(t)
  BY <1>9 DEF BArrive, Goto, WillWait, bHistory
<1>10. ASSUME BOwnerInc(t) PROVE Alone(t)
  BY <1>10 DEF BOwnerInc, Goto, WillWait, Add, bHistory
<1>11. ASSUME BOwnerReturns(t) PROVE Alone(t)
  BY <1>11 DEF BOwnerReturns, BReturn, Return
<1>12. ASSUME BLast(t) PROVE Alone(t)
  BY <1>12 DEF BLast, Goto, Store, bLocals, bHistory
<1>13. ASSUME BLastWaiters(t) PROVE Alone(t)
  BY <1>13 DEF BLastWaiters, Goto, barrierVars, bObject, bLocals, bHistory
<1>14. ASSUME BLastWake(t) PROVE Alone(t)
  BY <1>14 DEF BLastWake, Goto, barrierVars, bObject, bLocals, bHistory
<1>15. ASSUME BOthers(t) PROVE Alone(t)
  BY <1>15 DEF BOthers, Goto, WillWait, bHistory
<1>16. ASSUME BExit(t) PROVE Alone(t)
  BY <1>16 DEF BExit, Goto, BReturn, Return, bLocals, bHistory
<1>17. ASSUME BFinish(t) PROVE Alone(t)
  BY <1>17 DEF BFinish, Goto, Add, BReturn, Return, bLocals, bHistory
<1>18. ASSUME BFinishWake(t) PROVE Alone(t)
  BY <1>18 DEF BFinishWake, BReturn, Return
<1>19. ASSUME PCas(t) PROVE Alone(t)
  BY <1>19 DEF PCas, Goto, WillWait, Store, bHistory
<1>20. ASSUME PCount(t) PROVE Alone(t)
  BY <1>20 DEF PCount, Goto, WillWait, Add, bHistory
<1>21. ASSUME PZero(t) PROVE Alone(t)
  BY <1>21 DEF PZero, Goto, Store, bLocals, bHistory
<1>22. ASSUME PWaiters2(t) PROVE Alone(t)
  BY <1>22 DEF PWaiters2, Goto, Resume, bObject, bHistory
<1>23. ASSUME PWake2(t) PROVE Alone(t)
  BY <1>23 DEF PWake2, Resume, Goto, bObject, bHistory
<1>24. ASSUME PAwait(t) PROVE Alone(t)
  BY <1>24 DEF PAwait, Goto, WillWait, bHistory
<1>25. ASSUME PLeave(t) PROVE Alone(t)
  BY <1>25 DEF PLeave, Goto, WillWait, Add, bHistory
<1>26. ASSUME PUnload(t) PROVE Alone(t)
  BY <1>26 DEF PUnload, Goto, bHistory
<1>27. ASSUME PUnwaiters(t) PROVE Alone(t)
  BY <1>27 DEF PUnwaiters, Goto, bHistory
<1>28. ASSUME PUncas(t) PROVE Alone(t)
  BY <1>28 DEF PUncas, Goto, Store, BReturn, Return, bLocals, bHistory, barrierVars, bObject
<1>29. ASSUME PUnwake(t) PROVE Alone(t)
  BY <1>29 DEF PUnwake, BReturn, Return
<1>30. ASSUME DestroyMark(t) PROVE Alone(t)
  BY <1>30 DEF DestroyMark, Goto, Return, barrierVars, bObject, bLocals, bHistory
<1>31. ASSUME DestroyOr(t) PROVE Alone(t)
  BY <1>31 DEF DestroyOr, Goto, bLocals, bHistory
<1>32. ASSUME DestroyLoad(t) PROVE Alone(t)
  BY <1>32 DEF DestroyLoad, Goto, WillWait, Return, bHistory
<1>33. ASSUME BarrierCall(t) PROVE Alone(t)
  BY <1>33 DEF BarrierCall, Call
<1>34. ASSUME DestroyCall(t) PROVE Alone(t)
  BY <1>34 DEF DestroyCall, bLocals, bHistory
<1> QED BY <1>1, <1>2, <1>3, <1>4, <1>5, <1>6, <1>7, <1>8, <1>9, <1>10, <1>11, <1>12, <1>13, <1>14, <1>15, <1>16, <1>17, <1>18, <1>19, <1>20, <1>21, <1>22, <1>23, <1>24, <1>25, <1>26, <1>27, <1>28, <1>29, <1>30, <1>31, <1>32, <1>33, <1>34 DEF BarrierStep

LEMMA BReturnShape ==
  ASSUME BarrierTyped, NEW t \in Threads, BReturn(t)
  PROVE  ShapeAt(t)'
<1>1. /\ pc'[t] = "idle" /\ op'[t] = "none" /\ Heading(t)' = "idle" /\ bshared' = bshared
  BY HeadingIs DEF BarrierTyped, BReturn, Return, Heading
<1> QED BY <1>1 DEF BarrierTyped, ShapeAt, Locking, Zeroing, Waits, PrivateSteps, SharedSteps

LEMMA ShapeStep ==
  ASSUME BarrierTyped, NEW t \in Threads, ShapeAt(t), BarrierStep(t) \/ BarrierCall(t) \/ DestroyCall(t)
  PROVE  ShapeAt(t)'
<1> USE HeadingIs DEF BarrierTyped, ShapeAt, Heading, Locking, Zeroing, Waits, Owners, Users, PrivateSteps, SharedSteps
<1>1. ASSUME BWait(t) PROVE ShapeAt(t)'
  BY <1>1 DEF BWait, Goto, Resume, bHistory, NoWait
<1>2. ASSUME BSleep(t) PROVE ShapeAt(t)'
  BY <1>2 DEF BSleep, Goto, Resume, FutexWait, bObject, bHistory, NoWait
<1>3. ASSUME BDec(t) PROVE ShapeAt(t)'
  BY <1>3 DEF BDec, Resume, Goto, bHistory, NoWait
<1>4. ASSUME BUnlock(t) PROVE ShapeAt(t)'
  BY <1>4 DEF BUnlock, Goto, Store, bLocals, bHistory
<1>5. ASSUME BSeeWaiters(t) PROVE ShapeAt(t)'
  BY <1>5 DEF BSeeWaiters, Goto, Resume, bObject, bHistory, NoWait
<1>6. ASSUME BUnlockWake(t) PROVE ShapeAt(t)'
  BY <1>6 DEF BUnlockWake, Resume, Goto, bObject, bHistory, NoWait
<1>7. ASSUME BTakeLock(t) PROVE ShapeAt(t)'
  BY <1>7 DEF BTakeLock, Goto, WillWait, Store, bHistory
<1>8. ASSUME BFirst(t) PROVE ShapeAt(t)'
  BY <1>8 DEF BFirst, Goto, WillWait, bHistory
<1>9. ASSUME BArrive(t) PROVE ShapeAt(t)'
  BY <1>9 DEF BArrive, Goto, WillWait, bHistory
<1>10. ASSUME BOwnerInc(t) PROVE ShapeAt(t)'
  BY <1>10 DEF BOwnerInc, Goto, WillWait, Add, bHistory
<1>11. ASSUME BOwnerReturns(t) PROVE ShapeAt(t)'
  BY <1>11 DEF BOwnerReturns, BReturn, Return, NoWait
<1>12. ASSUME BLast(t) PROVE ShapeAt(t)'
  BY <1>12 DEF BLast, Goto, Store, bLocals, bHistory
<1>13. ASSUME BLastWaiters(t) PROVE ShapeAt(t)'
  BY <1>13 DEF BLastWaiters, Goto, barrierVars, bObject, bLocals, bHistory
<1>14. ASSUME BLastWake(t) PROVE ShapeAt(t)'
  BY <1>14 DEF BLastWake, Goto, barrierVars, bObject, bLocals, bHistory
<1>15. ASSUME BOthers(t) PROVE ShapeAt(t)'
  BY <1>15 DEF BOthers, Goto, WillWait, bHistory
<1>16. ASSUME BExit(t) PROVE ShapeAt(t)'
  <2>1. CASE BReturn(t)
    BY <2>1, BReturnShape
  <2>2. CASE ~BReturn(t)
    BY <1>16, <2>2 DEF BExit, Goto, bLocals, bHistory
  <2> QED BY <2>1, <2>2
<1>17. ASSUME BFinish(t) PROVE ShapeAt(t)'
  <2>1. CASE BReturn(t)
    BY <2>1, BReturnShape
  <2>2. CASE ~BReturn(t)
    BY <1>17, <2>2 DEF BFinish, Goto, Add, bLocals, bHistory
  <2> QED BY <2>1, <2>2
<1>18. ASSUME BFinishWake(t) PROVE ShapeAt(t)'
  BY <1>18 DEF BFinishWake, BReturn, Return, NoWait
<1>19. ASSUME PCas(t) PROVE ShapeAt(t)'
  BY <1>19 DEF PCas, Goto, WillWait, Store, bHistory
<1>20. ASSUME PCount(t) PROVE ShapeAt(t)'
  BY <1>20 DEF PCount, Goto, WillWait, Add, bHistory
<1>21. ASSUME PZero(t) PROVE ShapeAt(t)'
  BY <1>21 DEF PZero, Goto, Store, bLocals, bHistory
<1>22. ASSUME PWaiters2(t) PROVE ShapeAt(t)'
  BY <1>22 DEF PWaiters2, Goto, Resume, bObject, bHistory, NoWait
<1>23. ASSUME PWake2(t) PROVE ShapeAt(t)'
  BY <1>23 DEF PWake2, Resume, Goto, bObject, bHistory, NoWait
<1>24. ASSUME PAwait(t) PROVE ShapeAt(t)'
  BY <1>24 DEF PAwait, Goto, WillWait, bHistory
<1>25. ASSUME PLeave(t) PROVE ShapeAt(t)'
  BY <1>25 DEF PLeave, Goto, WillWait, Add, bHistory
<1>26. ASSUME PUnload(t) PROVE ShapeAt(t)'
  BY <1>26 DEF PUnload, Goto, bHistory
<1>27. ASSUME PUnwaiters(t) PROVE ShapeAt(t)'
  BY <1>27 DEF PUnwaiters, Goto, bHistory
<1>28. ASSUME PUncas(t) PROVE ShapeAt(t)'
  <2>1. CASE BReturn(t)
    BY <2>1, BReturnShape
  <2>2. CASE ~BReturn(t)
    BY <1>28, <2>2 DEF PUncas, Goto, Store, bLocals, bHistory, barrierVars, bObject
  <2> QED BY <2>1, <2>2
<1>29. ASSUME PUnwake(t) PROVE ShapeAt(t)'
  BY <1>29 DEF PUnwake, BReturn, Return, NoWait
<1>30. ASSUME DestroyMark(t) PROVE ShapeAt(t)'
  BY <1>30 DEF DestroyMark, Goto, Return, barrierVars, bObject, bLocals, bHistory
<1>31. ASSUME DestroyOr(t) PROVE ShapeAt(t)'
  BY <1>31 DEF DestroyOr, Goto, bLocals, bHistory
<1>32. ASSUME DestroyLoad(t) PROVE ShapeAt(t)'
  <2>1. CASE bword[BLock] \in {0, INT_MIN}
    BY <1>32, <2>1 DEF DestroyLoad, Return, bHistory
  <2>2. CASE bword[BLock] \notin {0, INT_MIN}
    BY <1>32, <2>2 DEF DestroyLoad, Goto, WillWait, bHistory
  <2> QED BY <2>1, <2>2
<1>33. ASSUME BarrierCall(t) PROVE ShapeAt(t)'
  BY <1>33 DEF BarrierCall, Call
<1>34. ASSUME DestroyCall(t) PROVE ShapeAt(t)'
  BY <1>34 DEF DestroyCall, bLocals, bHistory
<1> QED BY <1>1, <1>2, <1>3, <1>4, <1>5, <1>6, <1>7, <1>8, <1>9, <1>10, <1>11, <1>12, <1>13, <1>14, <1>15, <1>16, <1>17, <1>18, <1>19, <1>20, <1>21, <1>22, <1>23, <1>24, <1>25, <1>26, <1>27, <1>28, <1>29, <1>30, <1>31, <1>32, <1>33, <1>34 DEF BarrierStep

-----------------------------------------------------------------------------
(***************************************************************************)
(* The steps of Barrier as changes of Heading, of who holds the lock of    *)
(* the barrier and of who is about to set the count to 0.                  *)
(***************************************************************************)
Zero(t) == pc[t] = "pzero"

Turn(t, a, b) == Heading(t) = a /\ Heading(t)' = b
NoLock(t) == ~Holding(t) /\ ~Holding(t)'
KeepsLock(t) == Holding(t) /\ Holding(t)'
Plain(t) == ~Zero(t) /\ ~Zero(t)'

bRound == <<binst, bcount>>
bOwn == <<bmine, bserial>>

Quiet(t) ==
  /\ Heading(t)' = Heading(t) /\ (Holding(t)' <=> Holding(t)) /\ (Zero(t)' <=> Zero(t))
  /\ bword' = bword \/ (~bshared /\ bword' = [bword EXCEPT ![BLock] = 1])
  /\ UNCHANGED <<bRound, bOwn, bHistory, bdestroy, left, op>>

\* The end of a call.
Leaves(t) ==
  /\ Plain(t) /\ NoLock(t)
  /\ bleft' = bleft + 1 /\ bserials' = bserials + (IF bserial[t] THEN 1 ELSE 0)
  /\ bmine' = [bmine EXCEPT ![t] = Null]
  /\ UNCHANGED <<binst, bserial, bentered, bdestroy, left>>

Enters(t) ==
  /\ Turn(t, "idle", IF bshared THEN "pcas" ELSE "block") /\ NoLock(t) /\ Plain(t)
  /\ left[t] > 0
  /\ bserial' = [bserial EXCEPT ![t] = FALSE]
  /\ bentered' = bentered + 1
  /\ UNCHANGED <<bword, bRound, bmine, bleft, bserials, bdestroy>>

TakesLock(t) ==
  /\ Turn(t, IF bshared THEN "pcas" ELSE "block", IF bshared THEN "pcas" ELSE "block") /\ Plain(t)
  /\ ~Holding(t) /\ Holding(t)' /\ bword[BLock] = 0
  /\ bword' = [bword EXCEPT ![BLock] = IF bshared THEN Count ELSE 1]
  /\ UNCHANGED <<bRound, bOwn, bHistory, bdestroy, left, op>>

GivesLock(t) ==
  /\ Heading(t)' = Heading(t) /\ Heading(t) \notin {"block", "pcas"} /\ Plain(t)
  /\ bshared => Heading(t) = "parrived"
  /\ Holding(t) /\ ~Holding(t)'
  /\ bword' = [bword EXCEPT ![BLock] = 0]
  /\ UNCHANGED <<bRound, bOwn, bHistory, bdestroy, left, op>>

\* Private barriers
IsFirst(t) ==
  /\ ~bshared /\ Turn(t, "block", "bownerinc") /\ KeepsLock(t) /\ binst = Null
  /\ binst' = t /\ bcount' = [bcount EXCEPT ![t] = 0]
  /\ bword' = [bword EXCEPT ![Last(t)] = 0, ![Finished(t)] = 0]
  /\ bmine' = [bmine EXCEPT ![t] = t] /\ bserial' = [bserial EXCEPT ![t] = TRUE]
  /\ UNCHANGED <<bHistory, bdestroy, left, op>>

Arrives(t) ==
  /\ ~bshared /\ KeepsLock(t) /\ binst # Null
  /\ bcount' = [bcount EXCEPT ![binst] = @ + 1] /\ bmine' = [bmine EXCEPT ![t] = binst]
  /\ IF bcount[binst] + 1 = Count - 1
     THEN Turn(t, "block", "blast") /\ binst' = Null
     ELSE Turn(t, "block", "bothers") /\ binst' = binst
  /\ UNCHANGED <<bword, bserial, bHistory, bdestroy, left, op>>

OwnerWaits(t) ==
  /\ ~bshared /\ Turn(t, "bownerinc", "bsleepuncounted") /\ NoLock(t)
  /\ bword' = [bword EXCEPT ![Finished(t)] = @ + 1]
  /\ UNCHANGED <<bRound, bOwn, bHistory, bdestroy, left, op>>

OwnerPasses(t) ==
  /\ ~bshared /\ Turn(t, "bsleepuncounted", "breturnowner") /\ NoLock(t) /\ bword[Finished(t)] # 1
  /\ UNCHANGED <<bword, bRound, bOwn, bHistory, bdestroy, left, op>>

OwnerLeaves(t) ==
  /\ ~bshared /\ Turn(t, "breturnowner", "idle") /\ Leaves(t)
  /\ bword' = [bword EXCEPT ![Last(t)] = 0, ![Finished(t)] = 0] /\ bcount' = bcount

Opens(t) ==
  /\ ~bshared /\ Turn(t, "blast", "bexit") /\ NoLock(t)
  /\ bword' = [bword EXCEPT ![Last(bmine[t])] = 1]
  /\ UNCHANGED <<bRound, bOwn, bHistory, bdestroy, left, op>>

Passes(t) ==
  /\ ~bshared /\ Turn(t, "bothers", "bexit") /\ NoLock(t) /\ bword[Last(bmine[t])] # 0
  /\ UNCHANGED <<bword, bRound, bOwn, bHistory, bdestroy, left, op>>

LeavesLast(t) ==
  /\ ~bshared /\ Turn(t, "bexit", "bfinish") /\ NoLock(t) /\ bcount[bmine[t]] = 1
  /\ bcount' = [bcount EXCEPT ![bmine[t]] = @ - 1]
  /\ UNCHANGED <<bword, binst, bOwn, bHistory, bdestroy, left, op>>

LeavesOthers(t) ==
  /\ ~bshared /\ Turn(t, "bexit", "idle") /\ Leaves(t) /\ bcount[bmine[t]] # 1
  /\ bcount' = [bcount EXCEPT ![bmine[t]] = @ - 1] /\ bword' = bword

Reports(t) ==
  /\ ~bshared
  /\ bword' = [bword EXCEPT ![Finished(bmine[t])] = @ + 1] /\ bcount' = bcount
  /\ \/ Turn(t, "bfinish", "idle") /\ Leaves(t)
     \/ /\ Turn(t, "bfinish", "bfinishwake") /\ NoLock(t)
        /\ UNCHANGED <<binst, bOwn, bHistory, bdestroy, left, op>>

HasWoken(t) ==
  /\ Turn(t, IF bshared THEN "punwake" ELSE "bfinishwake", "idle") /\ Leaves(t)
  /\ bword' = bword /\ bcount' = bcount

\* Shared barriers
CountsIn(t) ==
  /\ bshared /\ Turn(t, "pcas", "parrived") /\ KeepsLock(t) /\ Plain(t) /\ bword[BCount] + 1 # Count
  /\ bword' = [bword EXCEPT ![BCount] = @ + 1] /\ bserial' = [bserial EXCEPT ![t] = bword[BCount] + 1 = Count]
  /\ UNCHANGED <<bRound, bmine, bHistory, bdestroy, left, op>>

CountsInLast(t) ==
  /\ bshared /\ Turn(t, "pcas", "pleave") /\ Holding(t) /\ ~Holding(t)' /\ ~Zero(t) /\ Zero(t)'
  /\ bword[BCount] + 1 = Count
  /\ bword' = [bword EXCEPT ![BCount] = @ + 1] /\ bserial' = [bserial EXCEPT ![t] = bword[BCount] + 1 = Count]
  /\ UNCHANGED <<bRound, bmine, bHistory, bdestroy, left, op>>

Zeroes(t) ==
  /\ bshared /\ Heading(t) \in {"pleave", "punload"} /\ Heading(t)' = Heading(t) /\ NoLock(t)
  /\ Zero(t) /\ ~Zero(t)'
  /\ bword' = [bword EXCEPT ![BCount] = 0]
  /\ UNCHANGED <<bRound, bOwn, bHistory, bdestroy, left, op>>

SeesFull(t) ==
  /\ bshared /\ Turn(t, "parrived", "pleave") /\ NoLock(t) /\ Plain(t) /\ bword[BCount] <= 0
  /\ UNCHANGED <<bword, bRound, bOwn, bHistory, bdestroy, left, op>>

SeesEmpty(t) ==
  /\ bshared /\ Turn(t, "pleft", "punload") /\ NoLock(t) /\ Plain(t) /\ bword[BCount] = 0
  /\ UNCHANGED <<bword, bRound, bOwn, bHistory, bdestroy, left, op>>

CountsOut(t) ==
  /\ bshared /\ NoLock(t) /\ ~Zero(t)
  /\ IF bword[BCount] = 1 - Count
     THEN Turn(t, "pleave", "punload") /\ Zero(t)' ELSE Turn(t, "pleave", "pleft") /\ ~Zero(t)'
  /\ bword' = [bword EXCEPT ![BCount] = @ + (-1)]
  /\ UNCHANGED <<bRound, bOwn, bHistory, bdestroy, left, op>>

GivesBack(t) ==
  /\ bshared
  /\ bword' = [bword EXCEPT ![BLock] = IF @ = INT_MIN + 1 THEN 0 ELSE @ - 1] /\ bcount' = bcount
  /\ \/ Turn(t, "punload", "idle") /\ Leaves(t)
     \/ /\ Turn(t, "punload", "punwake") /\ NoLock(t) /\ Plain(t)
        /\ UNCHANGED <<binst, bOwn, bHistory, bdestroy, left, op>>

\* Destruction
Destroys(t) ==
  /\ Turn(t, "idle", "destroy") /\ NoLock(t) /\ Plain(t) /\ bdestroy = Null /\ bdestroy' = t
  /\ \A u \in Threads : left[u] = 0
  /\ IF bshared THEN bentered % Count = 0 /\ bentered - bleft < Count ELSE bserials * Count = bentered
  /\ UNCHANGED <<bword, bRound, bOwn, bHistory, left>>

Marks(t) ==
  /\ bshared /\ Turn(t, "destroy", "destroy") /\ NoLock(t) /\ Plain(t)
  /\ bword' = [bword EXCEPT ![BLock] = IF @ < 0 THEN @ ELSE @ + INT_MIN]
  /\ UNCHANGED <<bRound, bOwn, bHistory, bdestroy, left, op>>

Destroyed(t) ==
  /\ Turn(t, "destroy", "idle") /\ NoLock(t) /\ Plain(t)
  /\ bshared => bword[BLock] \in {0, INT_MIN}
  /\ UNCHANGED <<bword, bRound, bOwn, bHistory, bdestroy, left>>

PrivateTurn(t) ==
  \/ IsFirst(t) \/ Arrives(t) \/ OwnerWaits(t) \/ OwnerPasses(t) \/ OwnerLeaves(t) \/ Opens(t)
  \/ Passes(t) \/ LeavesLast(t) \/ LeavesOthers(t) \/ Reports(t)

SharedTurn(t) ==
  \/ CountsIn(t) \/ CountsInLast(t) \/ Zeroes(t) \/ SeesFull(t) \/ SeesEmpty(t)
  \/ CountsOut(t) \/ GivesBack(t)

Turns(t) ==
  \/ Quiet(t) \/ Enters(t) \/ TakesLock(t) \/ GivesLock(t) \/ HasWoken(t)
  \/ PrivateTurn(t) \/ SharedTurn(t) \/ Destroys(t) \/ Marks(t) \/ Destroyed(t)

LEMMA ReturnLeaves ==
  ASSUME BarrierTyped, NEW t \in Threads, BReturn(t), ~Holding(t), ~Zero(t)
  PROVE  Leaves(t) /\ Heading(t)' = "idle"
BY HeadingIs DEF BarrierTyped, BReturn, Return, Leaves, Plain, NoLock, Holding, Zero, Heading

\* Every step of a thread is one of these.
LEMMA TurnStep ==
  ASSUME BarrierTyped, NEW t \in Threads, ShapeAt(t), BarrierStep(t) \/ BarrierCall(t) \/ DestroyCall(t)
  PROVE  Turns(t)
<1> USE HeadingIs DEF BarrierTyped, ShapeAt, Heading, Locking, Zeroing, Waits, Owners, Users, PrivateSteps, SharedSteps
<1>1. ASSUME BWait(t) PROVE Quiet(t) \/ Passes(t)
  BY <1>1 DEF BWait, Goto, Resume, bHistory, NoWait, Quiet, Zero, Holding, bRound, bOwn, Passes, Turn, NoLock
<1>2. ASSUME BSleep(t) PROVE Quiet(t) \/ Passes(t) \/ OwnerPasses(t)
  BY <1>2 DEF BSleep, Goto, Resume, FutexWait, bObject, bHistory, NoWait, Quiet, Zero, Holding, bRound, bOwn,
         Passes, Turn, NoLock, OwnerPasses
<1>3. ASSUME BDec(t) PROVE Quiet(t)
  BY <1>3 DEF BDec, Resume, Goto, bHistory, NoWait, Quiet, Zero, Holding, bRound, bOwn
<1>4. ASSUME BUnlock(t) PROVE GivesLock(t)
  BY <1>4 DEF BUnlock, Goto, Store, bLocals, bHistory, GivesLock, Plain, Zero, Holding, bRound, bOwn
<1>5. ASSUME BSeeWaiters(t) PROVE Quiet(t)
  BY <1>5 DEF BSeeWaiters, Goto, Resume, bObject, bHistory, NoWait, Quiet, Zero, Holding, bRound, bOwn
<1>6. ASSUME BUnlockWake(t) PROVE Quiet(t)
  BY <1>6 DEF BUnlockWake, Resume, Goto, bObject, bHistory, NoWait, Quiet, Zero, Holding, bRound, bOwn
<1>7. ASSUME BTakeLock(t) PROVE Quiet(t) \/ TakesLock(t)
  <2>1. /\ ~bshared /\ bword' = [bword EXCEPT ![BLock] = 1]
        /\ UNCHANGED <<bRound, bOwn, bHistory, bdestroy, left, op>>
        /\ Heading(t) = "block" /\ ~Holding(t) /\ ~Zero(t)
    BY <1>7 DEF BTakeLock, Goto, Store, bHistory, bRound, bOwn, Holding, Zero
  <2>2. CASE bword[BLock] = 0
    <3>1. Heading(t)' = "block" /\ Holding(t)' /\ ~Zero(t)'
      BY <1>7, <2>2 DEF BTakeLock, Goto, Holding, Zero
    <3> QED BY <2>1, <2>2, <3>1 DEF TakesLock, Turn, Plain
  <2>3. CASE bword[BLock] # 0
    <3>1. Heading(t)' = "block" /\ ~Holding(t)' /\ ~Zero(t)'
      BY <1>7, <2>3 DEF BTakeLock, Goto, WillWait, Holding, Zero
    <3> QED BY <2>1, <3>1 DEF Quiet
  <2> QED BY <2>2, <2>3
<1>8. ASSUME BFirst(t) PROVE IsFirst(t)
  BY <1>8 DEF BFirst, Goto, WillWait, bHistory, IsFirst, Turn, KeepsLock, Holding
<1>9. ASSUME BArrive(t) PROVE Arrives(t)
  BY <1>9 DEF BArrive, Goto, WillWait, bHistory, Arrives, Turn, KeepsLock, Holding
<1>10. ASSUME BOwnerInc(t) PROVE OwnerWaits(t)
  BY <1>10 DEF BOwnerInc, Goto, WillWait, Add, bHistory, OwnerWaits, Turn, NoLock, Holding, bRound, bOwn
<1>11. ASSUME BOwnerReturns(t) PROVE OwnerLeaves(t)
  BY <1>11 DEF BOwnerReturns, BReturn, Return, NoWait, OwnerLeaves, Turn, Leaves, Plain, Zero, NoLock, Holding
<1>12. ASSUME BLast(t) PROVE Opens(t)
  BY <1>12 DEF BLast, Goto, Store, bLocals, bHistory, Opens, Turn, NoLock, Holding, bRound, bOwn
<1>13. ASSUME BLastWaiters(t) PROVE Quiet(t)
  BY <1>13 DEF BLastWaiters, Goto, barrierVars, bObject, bLocals, bHistory, Quiet, Zero, Holding, bRound, bOwn
<1>14. ASSUME BLastWake(t) PROVE Quiet(t)
  BY <1>14 DEF BLastWake, Goto, barrierVars, bObject, bLocals, bHistory, Quiet, Zero, Holding, bRound, bOwn
<1>15. ASSUME BOthers(t) PROVE Quiet(t)
  BY <1>15 DEF BOthers, Goto, WillWait, bHistory, Quiet, Zero, Holding, bRound, bOwn
<1>16. ASSUME BExit(t) PROVE LeavesLast(t) \/ LeavesOthers(t)
  <2>1. /\ ~bshared /\ Heading(t) = "bexit" /\ ~Holding(t) /\ ~Zero(t)
        /\ bcount' = [bcount EXCEPT ![bmine[t]] = @ - 1] /\ bword' = bword
    BY <1>16 DEF BExit, Holding, Zero
  <2>2. CASE bcount[bmine[t]] = 1
    <3>1. Heading(t)' = "bfinish" /\ ~Holding(t)' /\ UNCHANGED <<binst, bOwn, bHistory, bdestroy, left, op>>
      BY <1>16, <2>2 DEF BExit, Goto, Holding, bOwn, bHistory, bLocals
    <3> QED BY <2>1, <2>2, <3>1 DEF LeavesLast, Turn, NoLock
  <2>3. CASE bcount[bmine[t]] # 1
    <3>1. BReturn(t)
      BY <1>16, <2>3 DEF BExit
    <3> QED BY <2>1, <2>3, <3>1, ReturnLeaves DEF LeavesOthers, Turn
  <2> QED BY <2>2, <2>3
<1>17. ASSUME BFinish(t) PROVE Reports(t)
  <2>1. /\ ~bshared /\ Heading(t) = "bfinish" /\ ~Holding(t) /\ ~Zero(t)
        /\ bword' = [bword EXCEPT ![Finished(bmine[t])] = @ + 1] /\ bcount' = bcount
    BY <1>17 DEF BFinish, Add, Holding, Zero
  <2>2. CASE BReturn(t)
    BY <2>1, <2>2, ReturnLeaves DEF Reports, Turn
  <2>3. CASE ~BReturn(t)
    <3>1. Heading(t)' = "bfinishwake" /\ ~Holding(t)' /\ UNCHANGED <<binst, bOwn, bHistory, bdestroy, left, op>>
      BY <1>17, <2>3 DEF BFinish, Goto, Holding, bOwn, bHistory, bLocals
    <3> QED BY <2>1, <3>1 DEF Reports, Turn, NoLock
  <2> QED BY <2>2, <2>3
<1>18. ASSUME BFinishWake(t) PROVE HasWoken(t)
  BY <1>18 DEF BFinishWake, BReturn, Return, NoWait, HasWoken, Turn, Leaves, Plain, Zero, NoLock, Holding
<1>19. ASSUME PCas(t) PROVE Quiet(t) \/ TakesLock(t)
  BY <1>19 DEF PCas, Goto, WillWait, Store, bHistory, Quiet, Zero, Holding, bRound, bOwn, TakesLock, Turn, Plain
<1>20. ASSUME PCount(t) PROVE CountsIn(t) \/ CountsInLast(t)
  <2>1. /\ bshared /\ Heading(t) = "pcas" /\ Holding(t) /\ ~Zero(t)
        /\ bword' = [bword EXCEPT ![BCount] = @ + 1]
        /\ bserial' = [bserial EXCEPT ![t] = bword[BCount] + 1 = Count]
        /\ UNCHANGED <<bRound, bmine, bHistory, bdestroy, left, op>>
    BY <1>20 DEF PCount, Goto, Add, Holding, Zero, bRound, bHistory
  <2>2. CASE bword[BCount] + 1 = Count
    <3>1. Heading(t)' = "pleave" /\ ~Holding(t)' /\ Zero(t)'
      BY <1>20, <2>2 DEF PCount, Goto, WillWait, Holding, Zero
    <3> QED BY <2>1, <2>2, <3>1 DEF CountsInLast, Turn
  <2>3. CASE bword[BCount] + 1 # Count
    <3>1. Heading(t)' = "parrived" /\ Holding(t)' /\ ~Zero(t)'
      BY <1>20, <2>3 DEF PCount, Goto, WillWait, Holding, Zero
    <3> QED BY <2>1, <2>3, <3>1 DEF CountsIn, Turn, KeepsLock, Plain
  <2> QED BY <2>2, <2>3
<1>21. ASSUME PZero(t) PROVE Zeroes(t)
  BY <1>21 DEF PZero, Goto, Store, bLocals, bHistory, Zeroes, NoLock, Holding, Zero, bRound, bOwn
<1>22. ASSUME PWaiters2(t) PROVE Quiet(t)
  BY <1>22 DEF PWaiters2, Goto, Resume, bObject, bHistory, NoWait, Quiet, Zero, Holding, bRound, bOwn
<1>23. ASSUME PWake2(t) PROVE Quiet(t)
  BY <1>23 DEF PWake2, Resume, Goto, bObject, bHistory, NoWait, Quiet, Zero, Holding, bRound, bOwn
<1>24. ASSUME PAwait(t) PROVE Quiet(t) \/ SeesFull(t) \/ SeesEmpty(t)
  <2>1. /\ bshared /\ Heading(t) = pc[t] /\ ~Holding(t) /\ ~Zero(t)
        /\ UNCHANGED <<bword, bRound, bOwn, bHistory, bdestroy, left, op>>
    BY <1>24 DEF PAwait, Goto, Holding, Zero, bRound, bOwn, bHistory
  <2>2. CASE bword[BCount] > 0 \/ (pc[t] = "pleft" /\ bword[BCount] # 0)
    <3>1. Heading(t)' = Heading(t) /\ ~Holding(t)' /\ ~Zero(t)'
      BY <1>24, <2>2 DEF PAwait, Goto, WillWait, Holding, Zero
    <3> QED BY <2>1, <3>1 DEF Quiet
  <2>3. CASE ~(bword[BCount] > 0 \/ (pc[t] = "pleft" /\ bword[BCount] # 0))
    <3>0. bword[BCount] \in Int
      BY Words
    <3>1. ~Holding(t)' /\ ~Zero(t)' /\ Heading(t)' = IF pc[t] = "parrived" THEN "pleave" ELSE "punload"
      BY <1>24, <2>3 DEF PAwait, Goto, Holding, Zero
    <3>2. CASE pc[t] = "parrived"
      BY <2>1, <2>3, <3>0, <3>1, <3>2 DEF SeesFull, Turn, NoLock, Plain
    <3>3. CASE pc[t] = "pleft"
      BY <2>1, <2>3, <3>0, <3>1, <3>3 DEF SeesEmpty, Turn, NoLock, Plain
    <3> QED BY <1>24, <3>2, <3>3 DEF PAwait
  <2> QED BY <2>2, <2>3
<1>25. ASSUME PLeave(t) PROVE CountsOut(t)
  <2>1. /\ bshared /\ Heading(t) = "pleave" /\ ~Holding(t) /\ ~Zero(t)
        /\ bword' = [bword EXCEPT ![BCount] = @ + (-1)]
        /\ UNCHANGED <<bRound, bOwn, bHistory, bdestroy, left, op>>
    <3>1. bword[BCount] \in Int
      BY Words
    <3> QED BY <1>25, <3>1 DEF PLeave, Goto, Add, Holding, Zero, bRound, bOwn, bHistory
  <2>2. CASE bword[BCount] = 1 - Count
    <3>1. Heading(t)' = "punload" /\ ~Holding(t)' /\ Zero(t)'
      BY <1>25, <2>2 DEF PLeave, Goto, WillWait, Holding, Zero
    <3> QED BY <2>1, <2>2, <3>1 DEF CountsOut, Turn, NoLock
  <2>3. CASE bword[BCount] # 1 - Count
    <3>1. Heading(t)' = "pleft" /\ ~Holding(t)' /\ ~Zero(t)'
      BY <1>25, <2>3 DEF PLeave, Goto, Holding, Zero
    <3> QED BY <2>1, <2>3, <3>1 DEF CountsOut, Turn, NoLock
  <2> QED BY <2>2, <2>3
<1>26. ASSUME PUnload(t) PROVE Quiet(t)
  BY <1>26 DEF PUnload, Goto, bHistory, Quiet, Zero, Holding, bRound, bOwn
<1>27. ASSUME PUnwaiters(t) PROVE Quiet(t)
  BY <1>27 DEF PUnwaiters, Goto, bHistory, Quiet, Zero, Holding, bRound, bOwn
<1>28. ASSUME PUncas(t) PROVE Quiet(t) \/ GivesBack(t)
  <2>1. bshared /\ Heading(t) = "punload" /\ ~Holding(t) /\ ~Zero(t)
    BY <1>28 DEF PUncas, Holding, Zero
  <2>2. CASE bword[BLock] # bval[t][1]
    <3>1. Heading(t)' = "punload" /\ ~Holding(t)' /\ ~Zero(t)'
      BY <1>28, <2>2 DEF PUncas, Goto, barrierVars, bLocals, Holding, Zero
    <3>2. UNCHANGED <<bword, bRound, bOwn, bHistory, bdestroy, left, op>>
      BY <1>28, <2>2 DEF PUncas, Goto, barrierVars, bObject, bLocals, bHistory, bRound, bOwn
    <3> QED BY <2>1, <3>1, <3>2 DEF Quiet
  <2>3. CASE bword[BLock] = bval[t][1]
    <3>1. bword' = [bword EXCEPT ![BLock] = IF @ = INT_MIN + 1 THEN 0 ELSE @ - 1] /\ bcount' = bcount
      BY <1>28, <2>3 DEF PUncas, Store
    <3>2. CASE BReturn(t)
      BY <2>1, <3>1, <3>2, ReturnLeaves DEF GivesBack, Turn
    <3>3. CASE ~BReturn(t)
      <4>1. Heading(t)' = "punwake" /\ ~Holding(t)' /\ ~Zero(t)' /\ UNCHANGED <<binst, bOwn, bHistory, bdestroy, left, op>>
        BY <1>28, <2>3, <3>3 DEF PUncas, Goto, Holding, Zero, bOwn, bHistory, bLocals
      <4> QED BY <2>1, <3>1, <4>1 DEF GivesBack, Turn, NoLock, Plain
    <3> QED BY <3>2, <3>3
  <2> QED BY <2>2, <2>3
<1>29. ASSUME PUnwake(t) PROVE HasWoken(t)
  BY <1>29 DEF PUnwake, BReturn, Return, NoWait, HasWoken, Turn, Leaves, Plain, Zero, NoLock, Holding
<1>30. ASSUME DestroyMark(t) PROVE Quiet(t) \/ Destroyed(t)
  BY <1>30 DEF DestroyMark, Goto, Return, barrierVars, bObject, bLocals, bHistory, Quiet, Zero, Holding, bRound,
         bOwn, Destroyed, Turn, NoLock, Plain
<1>31. ASSUME DestroyOr(t) PROVE Marks(t)
  BY <1>31 DEF DestroyOr, Goto, bLocals, bHistory, Marks, Turn, NoLock, Holding, Plain, Zero, bRound, bOwn
<1>32. ASSUME DestroyLoad(t) PROVE Quiet(t) \/ Destroyed(t)
  BY <1>32 DEF DestroyLoad, Goto, WillWait, Return, bHistory, Quiet, Zero, Holding, bRound, bOwn, Destroyed, Turn,
         NoLock, Plain
<1>33. ASSUME BarrierCall(t) PROVE Enters(t)
  BY <1>33 DEF BarrierCall, Call, Enters, Turn, NoLock, Holding, Plain, Zero, bRound
<1>34. ASSUME DestroyCall(t) PROVE Destroys(t)
  BY <1>34 DEF DestroyCall, bLocals, bHistory, Destroys, Turn, NoLock, Holding, Plain, Zero, bRound, bOwn
<1> QED BY <1>1, <1>2, <1>3, <1>4, <1>5, <1>6, <1>7, <1>8, <1>9, <1>10, <1>11, <1>12, <1>13, <1>14, <1>15, <1>16, <1>17, <1>18, <1>19, <1>20, <1>21, <1>22, <1>23, <1>24, <1>25, <1>26, <1>27, <1>28, <1>29, <1>30, <1>31, <1>32, <1>33, <1>34 DEF BarrierStep, Turns, PrivateTurn, SharedTurn

-----------------------------------------------------------------------------
LEMMA OthersKept ==
  ASSUME NEW t \in Threads, Alone(t), NEW u \in Threads \ {t}
  PROVE  /\ Heading(u)' = Heading(u) /\ (Holding(u)' <=> Holding(u)) /\ (Zero(u)' <=> Zero(u))
         /\ bmine'[u] = bmine[u] /\ bserial'[u] = bserial[u] /\ op'[u] = op[u] /\ left'[u] = left[u]
BY DEF Alone, Heading, Holding, Zero

\* What becomes of the one who destroys the barrier.
LEMMA DestroyerKept ==
  ASSUME NEW t \in Threads, Turns(t)
  PROVE  bdestroy' = bdestroy \/ (bdestroy = Null /\ bdestroy' = t)
BY DEF Turns, Quiet, Enters, TakesLock, GivesLock, HasWoken, Leaves, Destroys, Marks, Destroyed,
       PrivateTurn, IsFirst, Arrives, OwnerWaits, OwnerPasses, OwnerLeaves, Opens, Passes, LeavesLast,
       LeavesOthers, Reports, SharedTurn, CountsIn, CountsInLast, Zeroes, SeesFull, SeesEmpty,
       CountsOut, GivesBack

LEMMA ShapeKept ==
  ASSUME Shape, NEW t \in Threads, Alone(t), ShapeAt(t)', Turns(t)
  PROVE  Shape'
<1> SUFFICES ASSUME NEW u \in Threads \ {t} PROVE ShapeAt(u)'
  BY DEF Shape
<1>1. ShapeAt(u) /\ Heading(u)' = Heading(u) /\ op'[u] = op[u]
  BY OthersKept DEF Shape
<1>2. pc'[u] = pc[u] /\ bwait'[u] = bwait[u] /\ bmine'[u] = bmine[u] /\ bshared' = bshared
  BY DEF Alone
<1>3. op[u] = "destroy" => bdestroy' = u
  BY <1>1, DestroyerKept, BarrierAssumption DEF ShapeAt, BarrierAssumption
<1> QED BY <1>1, <1>2, <1>3 DEF ShapeAt

-----------------------------------------------------------------------------
(* The rounds *)
IsIn(t, S) == IF t \in S THEN 1 ELSE 0

\* What a step of t adds on both sides of CountsOK is the same; d is 1 if a
\* round has become full.
EnteredMatches(t) ==
  bentered' - bentered = IsIn(t, Coming)' - IsIn(t, Coming)
                         + IsIn(t, Within)' - IsIn(t, Within) + bleft' - bleft
LeftMatches(t, d) ==
  bleft' - bleft + IsIn(t, Within)' - IsIn(t, Within) = (IF d = 1 THEN Count ELSE 0) + Present' - Present
SerialsMatch(t, d) ==
  bserials' - bserials + IsIn(t, Serial)' - IsIn(t, Serial) = d + PresentSerial' - PresentSerial

LEMMA PresentInt ==
  /\ BarrierTyped => Present \in Int /\ PresentSerial \in Int
  /\ BarrierTyped' => Present' \in Int /\ PresentSerial' \in Int
BY Words, BarrierAssumption DEF BarrierTyped, Present, PresentSerial, BarrierAssumption

LEMMA CountsKeep ==
  ASSUME BarrierTyped, BarrierTyped', NEW t \in Threads, Alone(t), CountsOK, NEW d \in {0, 1},
         EnteredMatches(t), LeftMatches(t, d), SerialsMatch(t, d)
  PROVE  CountsOK'
<1>1. /\ Cardinality(Coming) \in Nat /\ Cardinality(Coming)' \in Nat
      /\ Cardinality(Coming)' = Cardinality(Coming) + IsIn(t, Coming)' - IsIn(t, Coming)
  <2>1. \A u \in Threads \ {t} : u \in Coming <=> u \in Coming'
    BY OthersKept DEF Coming
  <2> QED BY <2>1, OneMember DEF Coming, IsIn
<1>2. /\ Cardinality(Within) \in Nat /\ Cardinality(Within)' \in Nat
      /\ Cardinality(Within)' = Cardinality(Within) + IsIn(t, Within)' - IsIn(t, Within)
  <2>1. \A u \in Threads \ {t} : u \in Within <=> u \in Within'
    BY OthersKept DEF Within
  <2> QED BY <2>1, OneMember DEF Within, IsIn
<1>3. /\ Cardinality(Serial) \in Nat /\ Cardinality(Serial)' \in Nat
      /\ Cardinality(Serial)' = Cardinality(Serial) + IsIn(t, Serial)' - IsIn(t, Serial)
  <2>1. \A u \in Threads \ {t} : u \in Serial <=> u \in Serial'
    BY OthersKept DEF Serial, Within
  <2>2. Serial \in SUBSET Threads /\ Serial' \in SUBSET Threads
    BY DEF Serial, Within
  <2> QED BY <2>1, <2>2, OneMember DEF IsIn
<1>4. PICK r \in Nat : RoundsAre(r)
  BY DEF CountsOK
<1>5. Count * (r + 1) = Count * r + Count /\ Count * r \in Nat /\ Count \in Nat
  BY BarrierAssumption DEF BarrierAssumption
<1>6. /\ IsIn(t, Coming) \in Int /\ IsIn(t, Coming)' \in Int
      /\ IsIn(t, Within) \in Int /\ IsIn(t, Within)' \in Int
      /\ IsIn(t, Serial) \in Int /\ IsIn(t, Serial)' \in Int
  BY DEF IsIn
<1>7. /\ bentered \in Nat /\ bentered' \in Nat /\ bleft \in Nat /\ bleft' \in Nat
      /\ bserials \in Nat /\ bserials' \in Nat
  BY DEF BarrierTyped
<1>8. bentered' = Cardinality(Coming)' + Cardinality(Within)' + bleft'
  BY <1>1, <1>2, <1>6, <1>7 DEF CountsOK, EnteredMatches
<1>9. bleft' + Cardinality(Within)' = Count * r + (IF d = 1 THEN Count ELSE 0) + Present'
  <2>1. PICK k \in Nat : k = Count * r
    BY <1>5
  <2>2. bleft + Cardinality(Within) = k + Present
    BY <1>4, <2>1 DEF RoundsAre
  <2>3. PICK e \in Nat : e = IF d = 1 THEN Count ELSE 0
    BY <1>5
  <2>4. bleft' - bleft + IsIn(t, Within)' - IsIn(t, Within) = e + Present' - Present
    BY <2>3 DEF LeftMatches
  <2>5. Present \in Int /\ Present' \in Int
    BY PresentInt
  <2>6. bleft' + Cardinality(Within)' = k + e + Present'
    BY <1>2, <1>6, <1>7, <2>2, <2>4, <2>5
  <2> QED BY <2>1, <2>3, <2>6
<1>10. bserials' + Cardinality(Serial)' = r + d + PresentSerial'
  <2>1. bserials + Cardinality(Serial) = r + PresentSerial
    BY <1>4 DEF RoundsAre
  <2>2. bserials' - bserials + IsIn(t, Serial)' - IsIn(t, Serial) = d + PresentSerial' - PresentSerial
    BY DEF SerialsMatch
  <2>3. PresentSerial \in Int /\ PresentSerial' \in Int
    BY PresentInt
  <2> QED BY <1>3, <1>6, <1>7, <2>1, <2>2, <2>3
<1>11. CASE d = 1
  <2>1. RoundsAre(r + 1)'
    BY <1>5, <1>9, <1>10, <1>11 DEF RoundsAre, IsIn
  <2> QED BY <1>8, <2>1 DEF CountsOK
<1>12. CASE d = 0
  <2>1. RoundsAre(r)'
    BY <1>5, <1>9, <1>10, <1>12 DEF RoundsAre, IsIn
  <2> QED BY <1>8, <2>1 DEF CountsOK
<1> QED BY <1>11, <1>12

LEMMA PresentSame ==
  ASSUME bshared' = bshared, bshared => bword'[BCount] = bword[BCount],
         ~bshared => binst' = binst /\ (binst # Null => bcount'[binst] = bcount[binst])
  PROVE  Present' = Present /\ PresentSerial' = PresentSerial
BY DEF Present, PresentSerial

LEMMA CountsStill ==
  ASSUME BarrierTyped, BarrierTyped', NEW t \in Threads, Alone(t), CountsOK,
         t \in Coming <=> t \in Coming', t \in Within <=> t \in Within', bserial'[t] = bserial[t],
         bentered' = bentered, bleft' = bleft, bserials' = bserials,
         Present' = Present, PresentSerial' = PresentSerial
  PROVE  CountsOK'
<1>1. /\ IsIn(t, Coming)' = IsIn(t, Coming) /\ IsIn(t, Coming) \in Int
      /\ IsIn(t, Within)' = IsIn(t, Within) /\ IsIn(t, Within) \in Int
      /\ IsIn(t, Serial)' = IsIn(t, Serial) /\ IsIn(t, Serial) \in Int
  BY DEF IsIn, Serial
<1>2. /\ bentered \in Int /\ bleft \in Int /\ bserials \in Int /\ Present \in Int /\ PresentSerial \in Int
  BY PresentInt DEF BarrierTyped
<1>3. EnteredMatches(t)
  BY <1>1, <1>2 DEF EnteredMatches
<1>4. LeftMatches(t, 0)
  BY <1>1, <1>2 DEF LeftMatches
<1>5. SerialsMatch(t, 0)
  BY <1>1, <1>2 DEF SerialsMatch
<1> QED BY <1>3, <1>4, <1>5, CountsKeep

LEMMA CountsLeave ==
  ASSUME BarrierTyped, BarrierTyped', NEW t \in Threads, Alone(t), CountsOK, Leaves(t),
         t \in Within, Heading(t)' = "idle", Present' = Present, PresentSerial' = PresentSerial
  PROVE  CountsOK'
<1>1. /\ IsIn(t, Coming)' = 0 /\ IsIn(t, Coming) = 0
      /\ IsIn(t, Within)' = 0 /\ IsIn(t, Within) = 1
      /\ IsIn(t, Serial)' = 0 /\ IsIn(t, Serial) = (IF bserial[t] THEN 1 ELSE 0)
  BY DEF IsIn, Serial, Coming, Within
<1>2. /\ bentered \in Int /\ bleft \in Int /\ bserials \in Int /\ Present \in Int /\ PresentSerial \in Int
  BY PresentInt DEF BarrierTyped
<1>3. bleft' = bleft + 1 /\ bentered' = bentered /\ bserials' = bserials + IsIn(t, Serial)
  BY <1>1 DEF Leaves
<1>4. EnteredMatches(t)
  BY <1>1, <1>2, <1>3 DEF EnteredMatches
<1>5. LeftMatches(t, 0)
  BY <1>1, <1>2, <1>3 DEF LeftMatches
<1>6. IsIn(t, Serial) \in Int
  BY DEF IsIn
<1>7. SerialsMatch(t, 0)
  BY <1>1, <1>2, <1>3, <1>6 DEF SerialsMatch
<1> QED BY <1>4, <1>5, <1>7, CountsKeep

\* A thread of a private barrier that has not come to a round.
LEMMA PrivateComing ==
  ASSUME NEW t \in Threads, PrivateOK, Heading(t) = "block"
  PROVE  bmine[t] = Null /\ ~bserial[t]
BY DEF PrivateOK, MineOK, Owners

\* Whoever leaves the instance of a round has the round full.
LEMMA LeavingFull ==
  ASSUME BarrierTyped, NEW t \in Threads, PrivateOK, Heading(t) \in {"blast", "bexit", "bfinish"}
  PROVE  bmine[t] \in Threads /\ bmine[bmine[t]] = bmine[t] /\ bmine[t] # binst
<1>1. bmine[t] \in Threads /\ bmine[bmine[t]] = bmine[t] /\ InstanceOK(bmine[t])
  BY DEF PrivateOK, MineOK, Users
<1>2. Heading(t) \in Users => t \in Inside(bmine[t])
  BY DEF Inside
<1>3. Heading(t) = "bfinish" => t \in Finishing(bmine[t])
  BY DEF Finishing
<1> QED BY <1>1, <1>2, <1>3 DEF InstanceOK, Users

-----------------------------------------------------------------------------
(* The phase a shared barrier is in, from what one of its threads does *)
LEMMA GroupsFinite ==
  /\ IsFiniteSet(Arrived) /\ Cardinality(Arrived) \in Nat /\ (Arrived = {} <=> Cardinality(Arrived) = 0)
  /\ IsFiniteSet(Gone) /\ Cardinality(Gone) \in Nat /\ (Gone = {} <=> Cardinality(Gone) = 0)
<1>1. IsFiniteSet(Arrived) /\ IsFiniteSet(Gone)
  BY ThreadsAssumption, FS_Subset DEF ThreadsAssumption, Arrived, Gone
<1> QED BY <1>1, FS_CardinalityType, FS_EmptySet

LEMMA HolderPhase ==
  ASSUME SharedOK, NEW t \in Threads, Holding(t)
  PROVE  Filling /\ bword[BLock] = Count
BY DEF SharedOK, Filling, Full, Emptying, Empty, Ending, NoHolder

LEMMA ZeroPhase ==
  ASSUME SharedOK, NEW t \in Threads, Zero(t)
  PROVE  \/ /\ Full /\ t \in Arrived /\ Heading(t) = "pleave" /\ OnlyZero(t)
            /\ \A u \in Arrived \ {t} : Heading(u) = "parrived"
         \/ /\ Empty /\ t \in Gone /\ Heading(t) = "punload" /\ OnlyZero(t)
            /\ \A u \in Gone \ {t} : Heading(u) = "pleft"
<1>1. ~Filling /\ ~Emptying /\ ~Ending
  BY DEF Filling, Emptying, Ending, NoZero, Zero
<1>2. CASE Full
  <2>1. PICK x \in Arrived : /\ OnlyZero(x) /\ Heading(x) = "pleave"
                             /\ \A u \in Arrived \ {x} : Heading(u) = "parrived"
    BY <1>2 DEF Full
  <2>2. t = x
    BY <2>1 DEF OnlyZero, Zero
  <2> QED BY <1>2, <2>1, <2>2
<1>3. CASE Empty
  <2>1. PICK x \in Gone : /\ OnlyZero(x) /\ Heading(x) = "punload"
                          /\ \A u \in Gone \ {x} : Heading(u) = "pleft"
    BY <1>3 DEF Empty
  <2>2. t = x
    BY <2>1 DEF OnlyZero, Zero
  <2> QED BY <1>3, <2>1, <2>2
<1> QED BY <1>1, <1>2, <1>3 DEF SharedOK

LEMMA LeavePhase ==
  ASSUME SharedOK, NEW t \in Threads, Heading(t) = "pleave", ~Zero(t)
  PROVE  Emptying /\ t \in Arrived
<1>1. t \in Arrived
  BY DEF Arrived
<1>2. ~Filling /\ ~Empty /\ ~Ending
  BY <1>1 DEF Filling, Empty, Ending
<1>3. ~Full
  BY <1>1 DEF Full, OnlyZero, Zero
<1> QED BY <1>1, <1>2, <1>3 DEF SharedOK

LEMMA BackPhase ==
  ASSUME SharedOK, NEW t \in Threads, Heading(t) = "punload", ~Zero(t)
  PROVE  Ending /\ t \in Gone
<1>1. t \in Gone
  BY DEF Gone
<1>2. ~Filling /\ ~Full /\ ~Emptying
  BY <1>1 DEF Filling, Full, Emptying
<1>3. ~Empty
  BY <1>1 DEF Empty, OnlyZero, Zero
<1> QED BY <1>1, <1>2, <1>3 DEF SharedOK

LEMMA SeesFullPhase ==
  ASSUME SharedOK, NEW t \in Threads, Heading(t) = "parrived", bword[BCount] <= 0
  PROVE  Emptying /\ t \in Arrived
<1>1. t \in Arrived
  BY DEF Arrived
<1>2. ~Filling /\ ~Full
  BY <1>1, GroupsFinite, BarrierAssumption DEF Filling, Full, BarrierAssumption
<1> QED BY <1>1, <1>2 DEF SharedOK, Empty, Ending

LEMMA SeesEmptyPhase ==
  ASSUME SharedOK, NEW t \in Threads, Heading(t) = "pleft", bword[BCount] = 0
  PROVE  Ending /\ t \in Gone
<1>1. t \in Gone
  BY DEF Gone
<1>2. ~Emptying /\ ~Empty
  BY <1>1, GroupsFinite, BarrierAssumption DEF Emptying, Empty, BarrierAssumption
<1> QED BY <1>1, <1>2 DEF SharedOK, Filling, Full

-----------------------------------------------------------------------------
LEMMA CountsStep ==
  ASSUME BarrierTyped, BarrierTyped', NEW t \in Threads, Alone(t), CountsOK, Turns(t),
         ~bshared => PrivateOK, bshared => SharedOK
  PROVE  CountsOK'
<1>1. /\ t \in Coming <=> Heading(t) \in {"block", "pcas"}
      /\ t \in Coming' <=> Heading(t)' \in {"block", "pcas"}
      /\ t \in Within <=> Heading(t) \notin {"idle", "destroy", "block", "pcas"}
      /\ t \in Within' <=> Heading(t)' \notin {"idle", "destroy", "block", "pcas"}
  BY DEF Coming, Within
<1>2. bshared' = bshared
  BY DEF Alone
<1>3. bcount \in [Threads -> Int] /\ bword \in [BWords -> Int]
  BY DEF BarrierTyped
<1>4. ASSUME Quiet(t) \/ TakesLock(t) \/ GivesLock(t) \/ OwnerWaits(t) \/ OwnerPasses(t) \/ Opens(t)
             \/ Passes(t) \/ SeesFull(t) \/ SeesEmpty(t) \/ Destroys(t) \/ Marks(t) \/ Destroyed(t)
      PROVE  CountsOK'
  <2>1. /\ UNCHANGED <<bRound, bOwn, bHistory>>
        /\ (t \in Coming <=> t \in Coming') /\ (t \in Within <=> t \in Within')
    BY <1>1, <1>4 DEF Quiet, TakesLock, GivesLock, OwnerWaits, OwnerPasses, Opens, Passes, SeesFull,
         SeesEmpty, Destroys, Marks, Destroyed, Turn
  <2>2. bshared => bword'[BCount] = bword[BCount]
    BY <1>3, <1>4, Words DEF Quiet, TakesLock, GivesLock, OwnerWaits, OwnerPasses, Opens, Passes, SeesFull,
         SeesEmpty, Destroys, Marks, Destroyed
  <2>3. Present' = Present /\ PresentSerial' = PresentSerial
    BY <1>2, <2>1, <2>2, PresentSame DEF bRound
  <2> QED BY <2>1, <2>3, CountsStill DEF bOwn, bHistory
<1>5. ASSUME Zeroes(t) PROVE CountsOK'
  <2>1. /\ UNCHANGED <<bRound, bOwn, bHistory>> /\ bshared
        /\ (t \in Coming <=> t \in Coming') /\ (t \in Within <=> t \in Within')
    BY <1>1, <1>5 DEF Zeroes
  <2>2. bword'[BCount] = 0
    BY <1>3, <1>5, Words DEF Zeroes
  <2>3. bword[BCount] \in {Count, - Count}
    BY <1>5, ZeroPhase DEF Zeroes, Full, Empty
  <2>4. Present' = Present /\ PresentSerial' = PresentSerial
    BY <1>2, <2>1, <2>2, <2>3, BarrierAssumption DEF Present, PresentSerial, BarrierAssumption
  <2> QED BY <2>1, <2>4, CountsStill DEF bOwn, bHistory
<1>6. ASSUME CountsOut(t) PROVE CountsOK'
  <2>1. /\ UNCHANGED <<bRound, bOwn, bHistory>> /\ bshared
        /\ (t \in Coming <=> t \in Coming') /\ (t \in Within <=> t \in Within')
    BY <1>1, <1>6 DEF CountsOut, Turn
  <2>2. Heading(t) = "pleave" /\ ~Zero(t)
    BY <1>6 DEF CountsOut, Turn
  <2>3. bword[BCount] <= 0 /\ bword[BCount] \in Int
    BY <1>3, <2>1, <2>2, LeavePhase, GroupsFinite, Words DEF Emptying
  <2>4. bword'[BCount] = bword[BCount] - 1
    BY <1>3, <1>6, <2>3, Words DEF CountsOut
  <2>5. Present' = Present /\ PresentSerial' = PresentSerial
    BY <1>2, <2>1, <2>3, <2>4, BarrierAssumption DEF Present, PresentSerial, BarrierAssumption
  <2> QED BY <2>1, <2>5, CountsStill DEF bOwn, bHistory
<1>7. ASSUME HasWoken(t) \/ OwnerLeaves(t) PROVE CountsOK'
  <2>1. Leaves(t) /\ t \in Within /\ Heading(t)' = "idle" /\ binst' = binst /\ bcount' = bcount
    BY <1>1, <1>7 DEF HasWoken, OwnerLeaves, Turn, Leaves
  <2>2. bshared => bword'[BCount] = bword[BCount]
    BY <1>7 DEF HasWoken, OwnerLeaves
  <2>3. Present' = Present /\ PresentSerial' = PresentSerial
    BY <1>2, <2>1, <2>2, PresentSame
  <2> QED BY <2>1, <2>3, CountsLeave
<1>8. ASSUME LeavesLast(t) \/ LeavesOthers(t) PROVE CountsOK'
  <2>1. ~bshared /\ binst' = binst /\ Heading(t) = "bexit" /\ bcount' = [bcount EXCEPT ![bmine[t]] = @ - 1]
    BY <1>8 DEF LeavesLast, LeavesOthers, Leaves, Turn
  <2>2. bmine[t] \in Threads /\ bmine[t] # binst
    BY <2>1, LeavingFull
  <2>3. binst # Null => bcount'[binst] = bcount[binst]
    BY <1>3, <2>1, <2>2 DEF BarrierTyped
  <2>4. Present' = Present /\ PresentSerial' = PresentSerial
    BY <1>2, <2>1, <2>3, PresentSame
  <2>5. CASE LeavesLast(t)
    BY <1>1, <2>4, <2>5, CountsStill DEF LeavesLast, Turn, bOwn, bHistory
  <2>6. CASE LeavesOthers(t)
    BY <1>1, <2>4, <2>6, CountsLeave DEF LeavesOthers, Turn
  <2> QED BY <1>8, <2>5, <2>6
<1>9. ASSUME Reports(t) \/ GivesBack(t) PROVE CountsOK'
  <2>1. binst' = binst /\ bcount' = bcount /\ (bshared => bword'[BCount] = bword[BCount])
    BY <1>3, <1>9, Words DEF Reports, GivesBack, Leaves
  <2>2. Present' = Present /\ PresentSerial' = PresentSerial
    BY <1>2, <2>1, PresentSame
  <2>3. CASE Leaves(t) /\ Heading(t)' = "idle"
    BY <1>1, <1>9, <2>2, <2>3, CountsLeave DEF Reports, GivesBack, Turn
  <2>4. CASE ~(Leaves(t) /\ Heading(t)' = "idle")
    <3>1. /\ UNCHANGED <<bOwn, bHistory>>
          /\ (t \in Coming <=> t \in Coming') /\ (t \in Within <=> t \in Within')
      BY <1>1, <1>9, <2>4 DEF Reports, GivesBack, Turn
    <3> QED BY <2>2, <3>1, CountsStill DEF bOwn, bHistory
  <2> QED BY <2>3, <2>4
<1>10. /\ bentered \in Int /\ bleft \in Int /\ bserials \in Int /\ Present \in Int /\ PresentSerial \in Int
  BY PresentInt DEF BarrierTyped
<1>11. ASSUME Enters(t) PROVE CountsOK'
  <2>1. /\ IsIn(t, Coming)' = 1 /\ IsIn(t, Coming) = 0 /\ IsIn(t, Within)' = 0 /\ IsIn(t, Within) = 0
        /\ IsIn(t, Serial)' = 0 /\ IsIn(t, Serial) = 0
    BY <1>1, <1>11 DEF Enters, Turn, IsIn, Serial
  <2>2. bentered' = bentered + 1 /\ bleft' = bleft /\ bserials' = bserials
    BY <1>11 DEF Enters
  <2>3. Present' = Present /\ PresentSerial' = PresentSerial
    BY <1>2, <1>11, PresentSame DEF Enters, bRound
  <2>4. EnteredMatches(t)
    BY <1>10, <2>1, <2>2 DEF EnteredMatches
  <2>5. LeftMatches(t, 0)
    BY <1>10, <2>1, <2>2, <2>3 DEF LeftMatches
  <2>6. SerialsMatch(t, 0)
    BY <1>10, <2>1, <2>2, <2>3 DEF SerialsMatch
  <2> QED BY <2>4, <2>5, <2>6, CountsKeep
<1>12. ASSUME IsFirst(t) PROVE CountsOK'
  <2>1. /\ Heading(t) = "block" /\ Heading(t)' = "bownerinc" /\ bserial'[t] = TRUE
        /\ UNCHANGED bHistory
    BY <1>12 DEF IsFirst, Turn, BarrierTyped
  <2>2. /\ IsIn(t, Coming)' = 0 /\ IsIn(t, Coming) = 1 /\ IsIn(t, Within)' = 1 /\ IsIn(t, Within) = 0
        /\ IsIn(t, Serial)' = 1 /\ IsIn(t, Serial) = 0
    BY <1>1, <2>1 DEF IsIn, Serial
  <2>3. Present = 0 /\ PresentSerial = 0
    BY <1>12 DEF IsFirst, Present, PresentSerial
  <2>4. bshared' = bshared /\ ~bshared /\ binst' = t /\ bcount'[t] = 0 /\ t # Null
    BY <1>2, <1>3, <1>12, BarrierAssumption DEF IsFirst, BarrierAssumption
  <2>5. Present' = 1 /\ PresentSerial' = 1
    BY <2>4 DEF Present, PresentSerial
  <2>6. EnteredMatches(t)
    BY <1>10, <2>1, <2>2 DEF EnteredMatches, bHistory
  <2>7. LeftMatches(t, 0)
    BY <1>10, <2>1, <2>2, <2>3, <2>5 DEF LeftMatches, bHistory
  <2>8. SerialsMatch(t, 0)
    BY <1>10, <2>1, <2>2, <2>3, <2>5 DEF SerialsMatch, bHistory
  <2> QED BY <2>6, <2>7, <2>8, CountsKeep
<1>13. ASSUME Arrives(t) PROVE CountsOK'
  <2>1. /\ Heading(t) = "block" /\ Heading(t)' \in {"blast", "bothers"} /\ UNCHANGED bHistory
        /\ bserial' = bserial /\ ~bshared /\ binst # Null /\ binst \in Threads
    BY <1>13 DEF Arrives, Turn, BarrierTyped
  <2>2. ~bserial[t]
    BY <2>1, PrivateComing
  <2>3. /\ IsIn(t, Coming)' = 0 /\ IsIn(t, Coming) = 1 /\ IsIn(t, Within)' = 1 /\ IsIn(t, Within) = 0
        /\ IsIn(t, Serial)' = 0 /\ IsIn(t, Serial) = 0
    BY <1>1, <2>1, <2>2 DEF IsIn, Serial
  <2>4. Present = bcount[binst] + 1 /\ PresentSerial = 1 /\ bcount[binst] \in Int
    BY <1>3, <2>1 DEF Present, PresentSerial
  <2>5. EnteredMatches(t)
    BY <1>10, <2>1, <2>3 DEF EnteredMatches, bHistory
  <2>6. CASE bcount[binst] + 1 = Count - 1
    <3>1. Present' = 0 /\ PresentSerial' = 0
      BY <1>2, <1>13, <2>1, <2>6 DEF Arrives, Present, PresentSerial
    <3>2. Count \in Int
      BY BarrierAssumption DEF BarrierAssumption
    <3>3. LeftMatches(t, 1)
      BY <1>10, <2>1, <2>3, <2>4, <2>6, <3>1, <3>2 DEF LeftMatches, bHistory
    <3>4. SerialsMatch(t, 1)
      BY <1>10, <2>1, <2>3, <2>4, <3>1 DEF SerialsMatch, bHistory
    <3> QED BY <2>5, <3>3, <3>4, CountsKeep
  <2>7. CASE bcount[binst] + 1 # Count - 1
    <3>1. binst' = binst /\ bcount'[binst] = bcount[binst] + 1
      BY <1>3, <1>13, <2>1, <2>7 DEF Arrives
    <3>2. Present' = bcount[binst] + 2 /\ PresentSerial' = 1
      BY <1>2, <2>1, <2>4, <3>1 DEF Present, PresentSerial
    <3>3. LeftMatches(t, 0)
      BY <1>10, <2>1, <2>3, <2>4, <3>2 DEF LeftMatches, bHistory
    <3>4. SerialsMatch(t, 0)
      BY <1>10, <2>1, <2>3, <2>4, <3>2 DEF SerialsMatch, bHistory
    <3> QED BY <2>5, <3>3, <3>4, CountsKeep
  <2> QED BY <2>6, <2>7
<1>14. ASSUME CountsIn(t) \/ CountsInLast(t) PROVE CountsOK'
  <2>1. /\ Heading(t) = "pcas" /\ Heading(t)' \in {"parrived", "pleave"} /\ UNCHANGED bHistory
        /\ bshared /\ Holding(t) /\ bword' = [bword EXCEPT ![BCount] = @ + 1]
        /\ bserial' = [bserial EXCEPT ![t] = bword[BCount] + 1 = Count]
    BY <1>14 DEF CountsIn, CountsInLast, Turn, KeepsLock
  <2>2. bword[BCount] \in 0 .. Count - 1 /\ Count \in Int
    BY <2>1, HolderPhase, BarrierAssumption DEF Filling, BarrierAssumption
  <2>3. bword'[BCount] = bword[BCount] + 1 /\ (bserial'[t] <=> bword[BCount] + 1 = Count)
    BY <1>3, <2>1, Words DEF BarrierTyped
  <2>4. /\ IsIn(t, Coming)' = 0 /\ IsIn(t, Coming) = 1 /\ IsIn(t, Within)' = 1 /\ IsIn(t, Within) = 0
        /\ IsIn(t, Serial) = 0 /\ IsIn(t, Serial)' = IF bword[BCount] + 1 = Count THEN 1 ELSE 0
    BY <1>1, <2>1, <2>3 DEF IsIn, Serial
  <2>5. Present = bword[BCount] /\ PresentSerial = 0 /\ PresentSerial' = 0
    BY <1>2, <2>1, <2>2 DEF Present, PresentSerial
  <2>6. EnteredMatches(t)
    BY <1>10, <2>1, <2>4 DEF EnteredMatches, bHistory
  <2>7. CASE bword[BCount] + 1 = Count
    <3>1. Present' = 0
      BY <1>2, <2>1, <2>2, <2>3, <2>7 DEF Present
    <3>2. LeftMatches(t, 1)
      BY <1>10, <2>1, <2>2, <2>4, <2>5, <2>7, <3>1 DEF LeftMatches, bHistory
    <3>3. SerialsMatch(t, 1)
      BY <1>10, <2>1, <2>4, <2>5, <2>7 DEF SerialsMatch, bHistory
    <3> QED BY <2>6, <3>2, <3>3, CountsKeep
  <2>8. CASE bword[BCount] + 1 # Count
    <3>1. Present' = bword[BCount] + 1
      BY <1>2, <2>1, <2>2, <2>3, <2>8 DEF Present
    <3>2. LeftMatches(t, 0)
      BY <1>10, <2>1, <2>2, <2>4, <2>5, <3>1 DEF LeftMatches, bHistory
    <3>3. SerialsMatch(t, 0)
      BY <1>10, <2>1, <2>4, <2>5, <2>8 DEF SerialsMatch, bHistory
    <3> QED BY <2>6, <3>2, <3>3, CountsKeep
  <2> QED BY <2>7, <2>8
<1> QED BY <1>4, <1>5, <1>6, <1>7, <1>8, <1>9, <1>11, <1>12, <1>13, <1>14 DEF Turns, PrivateTurn, SharedTurn

-----------------------------------------------------------------------------
(* The lock *)
LEMMA HoldsStep ==
  ASSUME NEW t \in Threads, Alone(t), Turns(t), OneHolds, ~bshared => PrivateOK, bshared => SharedOK
  PROVE  OneHolds'
<1>1. \A u \in Threads \ {t} : Holding(u)' <=> Holding(u)
  BY OthersKept
<1>2. CASE TakesLock(t)
  <2>1. \A u \in Threads : Holding(u) => bword[BLock] # 0
    BY HolderPhase, BarrierAssumption DEF PrivateOK, BarrierAssumption
  <2>2. \A u \in Threads : ~Holding(u)
    BY <1>2, <2>1 DEF TakesLock
  <2> QED BY <1>1, <2>2 DEF OneHolds
<1>3. CASE ~TakesLock(t)
  <2>1. Holding(t)' => Holding(t)
    BY <1>3 DEF Turns, Quiet, Enters, GivesLock, HasWoken, Leaves, Destroys, Marks, Destroyed, NoLock, KeepsLock,
       PrivateTurn, IsFirst, Arrives, OwnerWaits, OwnerPasses, OwnerLeaves, Opens, Passes, LeavesLast,
       LeavesOthers, Reports, SharedTurn, CountsIn, CountsInLast, Zeroes, SeesFull, SeesEmpty,
       CountsOut, GivesBack
  <2> QED BY <1>1, <2>1 DEF OneHolds
<1> QED BY <1>2, <1>3

-----------------------------------------------------------------------------
(* Private barriers *)

\* The instance of o if the step is not about it.
LEMMA InstanceKept ==
  ASSUME NEW o \in Threads, InstanceOK(o), Inside(o)' = Inside(o), Finishing(o)' = Finishing(o),
         \A u \in Inside(o) : Heading(u)' = Heading(u),
         Heading(o)' = Heading(o), bword'[Last(o)] = bword[Last(o)],
         bword'[Finished(o)] = bword[Finished(o)], bcount'[o] = bcount[o], binst' = o <=> binst = o
  PROVE  InstanceOK(o)'
BY DEF InstanceOK

\* Nor if t is not among those who use it, before the step or after.
LEMMA InstanceApart ==
  ASSUME NEW t \in Threads, Alone(t), NEW o \in Threads, InstanceOK(o),
         o # t \/ Heading(t)' = Heading(t),
         t \in Inside(o) <=> t \in Inside(o)', t \in Inside(o) => Heading(t)' = Heading(t),
         t \in Finishing(o) <=> t \in Finishing(o)',
         bword'[Last(o)] = bword[Last(o)], bword'[Finished(o)] = bword[Finished(o)],
         bcount'[o] = bcount[o], binst' = o <=> binst = o
  PROVE  InstanceOK(o)'
<1>1. \A u \in Threads \ {t} : Heading(u)' = Heading(u) /\ bmine'[u] = bmine[u]
  BY OthersKept
<1>2. Inside(o)' = Inside(o)
  BY <1>1 DEF Inside
<1>3. Finishing(o)' = Finishing(o)
  BY <1>1 DEF Finishing
<1>4. Heading(o)' = Heading(o) /\ \A u \in Inside(o) : Heading(u)' = Heading(u)
  BY <1>1 DEF Inside
<1> QED BY <1>2, <1>3, <1>4, InstanceKept

\* MineOK of the others, if t remains what they take it for.
LEMMA MineKept ==
  ASSUME NEW t \in Threads, Alone(t), NEW u \in Threads \ {t}, MineOK(u),
         bmine[t] = t => bmine'[t] = t \/ (Inside(t) = {} /\ Finishing(t) = {})
  PROVE  MineOK(u)'
<1>1. Heading(u)' = Heading(u) /\ bmine'[u] = bmine[u] /\ bserial'[u] = bserial[u]
  BY OthersKept
<1>2. ASSUME Heading(u) \in Users \cup {"bfinish"}
      PROVE  bmine[u] \in Threads /\ bmine'[bmine[u]] = bmine[u]
  <2>1. bmine[u] \in Threads /\ bmine[bmine[u]] = bmine[u]
    BY <1>2 DEF MineOK
  <2>2. u \in Inside(bmine[u]) \cup Finishing(bmine[u])
    BY <1>2 DEF Inside, Finishing
  <2>3. CASE bmine[u] = t
    BY <2>1, <2>2, <2>3
  <2>4. CASE bmine[u] # t
    BY <2>1, <2>4, OthersKept
  <2> QED BY <2>3, <2>4
<1> QED BY <1>1, <1>2 DEF MineOK

LEMMA LockWord ==
  ASSUME BarrierTyped, NEW t \in Threads, Alone(t), Turns(t), ~bshared, PrivateOK, OneHolds
  PROVE  \A u \in Threads : Holding(u)' => bword'[BLock] = 1
<1>1. \A u \in Threads \ {t} : Holding(u)' <=> Holding(u)
  BY OthersKept
<1>2. bword \in [BWords -> Int]
  BY DEF BarrierTyped
<1>3. CASE TakesLock(t)
  BY <1>2, <1>3, Words DEF TakesLock
<1>4. CASE GivesLock(t)
  BY <1>1, <1>4 DEF GivesLock, OneHolds
<1>5. CASE ~TakesLock(t) /\ ~GivesLock(t)
  <2>1. Holding(t)' => Holding(t)
    BY <1>5 DEF Turns, Quiet, Enters, HasWoken, Leaves, Destroys, Marks, Destroyed, NoLock, KeepsLock,
       PrivateTurn, IsFirst, Arrives, OwnerWaits, OwnerPasses, OwnerLeaves, Opens, Passes, LeavesLast,
       LeavesOthers, Reports, SharedTurn, CountsIn, CountsInLast, Zeroes, SeesFull, SeesEmpty,
       CountsOut, GivesBack
  <2>2. Heading(t) \in {"blast", "bfinish"} => bmine[t] \in Threads
    BY LeavingFull
  <2>3. bword'[BLock] = bword[BLock] \/ bword'[BLock] = 1
    BY <1>2, <1>5, <2>2, Words DEF Turns, Quiet, Enters, HasWoken, Destroys, Marks, Destroyed, Turn,
       PrivateTurn, IsFirst, Arrives, OwnerWaits, OwnerPasses, OwnerLeaves, Opens, Passes, LeavesLast,
       LeavesOthers, Reports, SharedTurn, CountsIn, CountsInLast, Zeroes, SeesFull, SeesEmpty,
       CountsOut, GivesBack
  <2> QED BY <1>1, <2>1, <2>3 DEF PrivateOK
<1> QED BY <1>3, <1>4, <1>5

LEMMA MineStep ==
  ASSUME BarrierTyped, NEW t \in Threads, ShapeAt(t), Alone(t), Turns(t), ~bshared, PrivateOK
  PROVE  /\ \A u \in Threads : MineOK(u)'
         /\ binst' # Null => binst' \in Threads /\ bmine'[binst'] = binst'
<1>1. MineOK(t) /\ Heading(t) \in PrivateSteps /\ Null # t
  BY BarrierAssumption DEF PrivateOK, ShapeAt, BarrierAssumption
<1>2. /\ bmine \in [Threads -> Threads \cup {Null}] /\ bserial \in [Threads -> BOOLEAN]
      /\ binst \in Threads \cup {Null} /\ (binst # Null => bmine[binst] = binst)
  BY DEF BarrierTyped, PrivateOK
<1>3. ASSUME Quiet(t) \/ TakesLock(t) \/ GivesLock(t) \/ OwnerWaits(t) \/ OwnerPasses(t)
             \/ Opens(t) \/ Passes(t) \/ LeavesLast(t) \/ (Reports(t) /\ ~Leaves(t))
      PROVE  MineOK(t)' /\ UNCHANGED <<binst, bmine>>
  <2>1. UNCHANGED <<binst, bmine, bserial>>
    BY <1>3 DEF Quiet, TakesLock, GivesLock, OwnerWaits, OwnerPasses, Opens, Passes, LeavesLast,
         Reports, bOwn, bRound
  <2>2. \/ Heading(t)' = Heading(t)
        \/ Heading(t) \in Owners /\ Heading(t)' \in Owners
        \/ Heading(t) \in Users /\ Heading(t)' \in Users \cup {"bfinish"}
        \/ Heading(t) = "bfinish" /\ Heading(t)' = "bfinishwake"
    BY <1>3 DEF Quiet, TakesLock, GivesLock, OwnerWaits, OwnerPasses, Opens, Passes, LeavesLast,
         Reports, Turn, Owners, Users
  <2> QED BY <1>1, <2>1, <2>2 DEF MineOK, Owners, Users
<1>4. ASSUME Leaves(t), Heading(t)' = "idle", Heading(t) = "breturnowner" \/ Heading(t) \notin Owners
      PROVE  /\ MineOK(t)' /\ binst' = binst /\ bmine'[t] = Null
             /\ bmine[t] = t => binst # t /\ Inside(t) = {} /\ Finishing(t) = {}
  <2>1. binst' = binst /\ bmine'[t] = Null
    BY <1>2, <1>4 DEF Leaves
  <2>2. MineOK(t)'
    BY <1>1, <1>4, <2>1 DEF MineOK, Owners, Users
  <2>3. bmine[t] = t => Heading(t) = "breturnowner" /\ InstanceOK(t)
    BY <1>1, <1>4 DEF MineOK, PrivateOK
  <2> QED BY <2>1, <2>2, <2>3 DEF InstanceOK
<1>5. ASSUME Enters(t) \/ Destroys(t) \/ Destroyed(t)
      PROVE  MineOK(t)' /\ UNCHANGED <<binst, bmine>>
  <2>1. /\ Heading(t) \in {"idle", "destroy"} /\ Heading(t)' \in {"idle", "destroy", "block"}
        /\ UNCHANGED <<binst, bmine>> /\ (Heading(t)' = "block" => bserial'[t] = FALSE)
    BY <1>2, <1>5 DEF Enters, Destroys, Destroyed, Turn, bRound, bOwn
  <2> QED BY <1>1, <2>1 DEF MineOK, Owners, Users
<1>6. ASSUME IsFirst(t)
      PROVE  MineOK(t)' /\ binst' = t /\ bmine'[t] = t /\ bmine[t] # t
  <2>1. /\ Heading(t) = "block" /\ Heading(t)' = "bownerinc" /\ bmine'[t] = t /\ bserial'[t] = TRUE
        /\ binst' = t
    BY <1>2, <1>6 DEF IsFirst, Turn
  <2> QED BY <1>1, <2>1 DEF MineOK, Owners, Users
<1>7. ASSUME Arrives(t)
      PROVE  MineOK(t)' /\ (binst' = binst \/ binst' = Null) /\ bmine[t] # t
  <2>1. /\ Heading(t) = "block" /\ Heading(t)' \in {"blast", "bothers"} /\ bmine'[t] = binst
        /\ bserial' = bserial /\ binst \in Threads
    BY <1>2, <1>7 DEF Arrives, Turn
  <2>2. bmine[t] = Null /\ ~bserial[t]
    BY <2>1, PrivateComing
  <2>3. binst # t /\ bmine'[binst] = binst
    BY <1>1, <1>2, <1>7, <2>1, <2>2 DEF Arrives
  <2> QED BY <1>7, <2>1, <2>2, <2>3, <1>1 DEF MineOK, Owners, Users, Arrives
<1>8. ASSUME OwnerLeaves(t) \/ LeavesOthers(t) \/ HasWoken(t) \/ (Reports(t) /\ Leaves(t))
      PROVE  /\ Leaves(t) /\ Heading(t)' = "idle"
             /\ Heading(t) = "breturnowner" \/ Heading(t) \notin Owners
  <2>1. bleft \in Nat
    BY DEF BarrierTyped
  <2> QED BY <1>8, <2>1 DEF OwnerLeaves, LeavesOthers, HasWoken, Reports, Turn, Leaves, Owners, bHistory
<1>9. /\ MineOK(t)' /\ (bmine[t] = t => bmine'[t] = t \/ (Inside(t) = {} /\ Finishing(t) = {}))
      /\ binst' # Null => binst' \in Threads /\ bmine'[binst'] = binst'
  <2>1. CASE UNCHANGED <<binst, bmine>> /\ MineOK(t)'
    BY <1>2, <2>1
  <2>2. CASE Leaves(t) /\ Heading(t)' = "idle" /\ (Heading(t) = "breturnowner" \/ Heading(t) \notin Owners)
    <3>1. /\ MineOK(t)' /\ binst' = binst /\ (bmine[t] = t => Inside(t) = {} /\ Finishing(t) = {} /\ binst # t)
      BY <1>4, <2>2
    <3>2. binst # Null => binst # t
      BY <1>2, <3>1
    <3> QED BY <1>2, <3>1, <3>2, OthersKept
  <2>3. CASE IsFirst(t)
    BY <1>6, <2>3
  <2>4. CASE Arrives(t)
    <3>1. binst' # Null => binst' = binst /\ binst \in Threads
      BY <1>2, <1>7, <2>4
    <3>2. binst # t
      BY <1>1, <1>2, <1>7, <2>4
    <3> QED BY <1>2, <1>7, <2>4, <3>1, <3>2, OthersKept
  <2> QED BY <1>3, <1>5, <1>8, <2>1, <2>2, <2>3, <2>4
        DEF Turns, PrivateTurn, SharedTurn, Marks, CountsIn, CountsInLast, Zeroes, SeesFull, SeesEmpty, CountsOut, GivesBack
<1>10. \A u \in Threads \ {t} : MineOK(u)'
  BY <1>9, MineKept DEF PrivateOK
<1> QED BY <1>9, <1>10

LEMMA InstanceStill ==
  ASSUME BarrierTyped, NEW t \in Threads, Alone(t), ~bshared, PrivateOK, ShapeAt(t),
         Quiet(t) \/ TakesLock(t) \/ GivesLock(t) \/ Enters(t) \/ Destroys(t) \/ Destroyed(t) \/ HasWoken(t),
         NEW o \in Threads, bmine'[o] = o
  PROVE  InstanceOK(o)'
<1>1. MineOK(t) /\ Null # t /\ bmine \in [Threads -> Threads \cup {Null}] /\ bword \in [BWords -> Int]
  BY BarrierAssumption DEF PrivateOK, BarrierAssumption, BarrierTyped
<1>2. /\ bword'[Last(o)] = bword[Last(o)] /\ bword'[Finished(o)] = bword[Finished(o)]
      /\ bcount' = bcount /\ binst' = binst
  BY <1>1, Words DEF Quiet, TakesLock, GivesLock, Enters, Destroys, Destroyed, HasWoken, Leaves, bRound
<1>3. CASE Quiet(t) \/ TakesLock(t) \/ GivesLock(t)
  <2>1. Heading(t)' = Heading(t) /\ bmine' = bmine
    BY <1>3 DEF Quiet, TakesLock, GivesLock, Turn, bOwn
  <2>2. InstanceOK(o)
    BY <2>1 DEF PrivateOK
  <2>3. (t \in Inside(o) <=> t \in Inside(o)') /\ (t \in Finishing(o) <=> t \in Finishing(o)')
    BY <2>1 DEF Inside, Finishing
  <2> QED BY <1>2, <2>1, <2>2, <2>3, InstanceApart
<1>4. CASE Enters(t) \/ Destroys(t) \/ Destroyed(t) \/ HasWoken(t)
  <2>1. /\ Heading(t) \notin Users \cup Owners \cup {"bfinish"}
        /\ Heading(t)' \notin Users \cup Owners \cup {"bfinish"}
        /\ bmine' = bmine \/ bmine'[t] = Null
    BY <1>1, <1>4 DEF Enters, Destroys, Destroyed, HasWoken, Leaves, Turn, bOwn, Users, Owners
  <2>2. o # t
    BY <1>1, <2>1 DEF MineOK
  <2>3. InstanceOK(o)
    BY <2>2, OthersKept DEF PrivateOK
  <2>4. t \notin Inside(o) /\ t \notin Inside(o)' /\ t \notin Finishing(o) /\ t \notin Finishing(o)'
    BY <2>1 DEF Inside, Finishing
  <2> QED BY <1>2, <2>2, <2>3, <2>4, InstanceApart
<1> QED BY <1>3, <1>4

\* The other instances, when t does something about the instance i.
LEMMA InstanceOther ==
  ASSUME BarrierTyped, NEW t \in Threads, Alone(t), PrivateOK, NEW o \in Threads, bmine[o] = o, o # t,
         bmine[t] # o \/ Heading(t) \notin Users \cup {"bfinish"},
         bmine'[t] # o \/ Heading(t)' \notin Users \cup {"bfinish"},
         bword'[Last(o)] = bword[Last(o)], bword'[Finished(o)] = bword[Finished(o)],
         bcount'[o] = bcount[o], binst' = o <=> binst = o
  PROVE  InstanceOK(o)'
<1>1. InstanceOK(o)
  BY DEF PrivateOK
<1>2. t \notin Inside(o) /\ t \notin Inside(o)' /\ t \notin Finishing(o) /\ t \notin Finishing(o)'
  BY DEF Inside, Finishing
<1> QED BY <1>1, <1>2, InstanceApart

LEMMA InsideFinite ==
  ASSUME NEW o \in Threads
  PROVE  /\ IsFiniteSet(Inside(o)) /\ Cardinality(Inside(o)) \in Nat /\ (Inside(o) = {} <=> Cardinality(Inside(o)) = 0)
         /\ IsFiniteSet(Inside(o)') /\ Cardinality(Inside(o)') \in Nat /\ (Inside(o)' = {} <=> Cardinality(Inside(o)') = 0)
<1>1. IsFiniteSet(Inside(o)) /\ IsFiniteSet(Inside(o)')
  BY ThreadsAssumption, FS_Subset DEF ThreadsAssumption, Inside
<1> QED BY <1>1, FS_CardinalityType, FS_EmptySet

LEMMA OwnerStep ==
  ASSUME BarrierTyped, NEW t \in Threads, Alone(t), ~bshared, PrivateOK,
         OwnerWaits(t) \/ OwnerPasses(t) \/ OwnerLeaves(t), NEW o \in Threads, bmine'[o] = o
  PROVE  InstanceOK(o)'
<1>1. /\ MineOK(t) /\ Null # t /\ bmine \in [Threads -> Threads \cup {Null}] /\ bword \in [BWords -> Int]
      /\ bcount \in [Threads -> Int]
  BY BarrierAssumption DEF PrivateOK, BarrierAssumption, BarrierTyped
<1>2. Heading(t) \in Owners /\ bmine[t] = t /\ InstanceOK(t)
  <2>1. Heading(t) \in Owners
    BY DEF OwnerWaits, OwnerPasses, OwnerLeaves, Turn, Owners
  <2> QED BY <1>1, <2>1 DEF MineOK, PrivateOK
<1>3. CASE o # t
  <2>1. bmine[o] = o
    BY <1>3, OthersKept
  <2>2. /\ bword'[Last(o)] = bword[Last(o)] /\ bword'[Finished(o)] = bword[Finished(o)]
        /\ bcount' = bcount /\ binst' = binst
    <3>1. /\ Last(o) # Last(t) /\ Finished(o) # Finished(t) /\ Last(o) # Finished(t) /\ Last(t) # Finished(o)
          /\ Last(o) \in BWords /\ Finished(o) \in BWords
      BY <1>3, WordsOf, WordsApart
    <3> QED BY <1>1, <3>1 DEF OwnerWaits, OwnerPasses, OwnerLeaves, Leaves, bRound
  <2>3. Heading(t) \notin Users \cup {"bfinish"} /\ Heading(t)' \notin Users \cup {"bfinish"}
    BY DEF OwnerWaits, OwnerPasses, OwnerLeaves, Turn, Users
  <2> QED BY <1>3, <2>1, <2>2, <2>3, InstanceOther
<1>4. CASE o = t
  <2>1. OwnerWaits(t) \/ OwnerPasses(t)
    BY <1>1, <1>4 DEF OwnerLeaves, Leaves
  <2>2. /\ bmine' = bmine /\ binst' = binst /\ bcount' = bcount
        /\ bword'[Last(t)] = bword[Last(t)]
    <3>1. Last(t) # Finished(t) /\ Last(t) \in BWords
      BY WordsOf
    <3> QED BY <1>1, <2>1, <3>1 DEF OwnerWaits, OwnerPasses, bRound, bOwn
  <2>3. Heading(t) \notin Users \cup {"bfinish"} /\ Heading(t)' \notin Users \cup {"bfinish"}
    BY <2>1 DEF OwnerWaits, OwnerPasses, Turn, Users
  <2>4. Inside(t)' = Inside(t) /\ Finishing(t)' = Finishing(t)
    BY <2>2, <2>3, OthersKept DEF Inside, Finishing
  <2>5. \A u \in Inside(t) : Heading(u)' = Heading(u)
    BY <2>3, OthersKept DEF Inside
  <2>6. bword[Finished(t)] \in Int
    BY <1>1, Words
  <2>7. CASE OwnerWaits(t)
    <3>1. /\ Heading(t) = "bownerinc" /\ Heading(t)' = "bsleepuncounted"
          /\ bword'[Finished(t)] = bword[Finished(t)] + 1
      BY <1>1, <2>7, Words DEF OwnerWaits, Turn
    <3> QED BY <1>2, <1>4, <2>2, <2>4, <2>5, <2>6, <3>1 DEF InstanceOK
  <2>8. CASE OwnerPasses(t)
    <3>1. /\ Heading(t) = "bsleepuncounted" /\ Heading(t)' = "breturnowner"
          /\ bword'[Finished(t)] = bword[Finished(t)] /\ bword[Finished(t)] # 1
      BY <2>8 DEF OwnerPasses, Turn
    <3>2. binst # t /\ Inside(t) = {} /\ Finishing(t) = {}
      BY <1>2, <3>1 DEF InstanceOK
    <3> QED BY <1>2, <1>4, <2>2, <2>4, <2>5, <2>6, <3>1, <3>2 DEF InstanceOK
  <2> QED BY <2>1, <2>7, <2>8
<1> QED BY <1>3, <1>4

LEMMA FirstStep ==
  ASSUME BarrierTyped, NEW t \in Threads, Alone(t), PrivateOK, IsFirst(t), NEW o \in Threads, bmine'[o] = o
  PROVE  InstanceOK(o)'
<1>1. /\ MineOK(t) /\ Null # t /\ bmine \in [Threads -> Threads \cup {Null}] /\ bword \in [BWords -> Int]
      /\ bcount \in [Threads -> Int]
  BY BarrierAssumption DEF PrivateOK, BarrierAssumption, BarrierTyped
<1>2. Heading(t) = "block" /\ Heading(t)' = "bownerinc" /\ binst = Null /\ binst' = t
  BY DEF IsFirst, Turn
<1>3. bmine[t] = Null
  BY <1>2, PrivateComing
<1>4. CASE o # t
  <2>1. bmine[o] = o
    BY <1>4, OthersKept
  <2>2. /\ bword'[Last(o)] = bword[Last(o)] /\ bword'[Finished(o)] = bword[Finished(o)]
        /\ bcount'[o] = bcount[o]
    <3>1. /\ Last(o) # Last(t) /\ Finished(o) # Finished(t) /\ Last(o) # Finished(t) /\ Last(t) # Finished(o)
          /\ Last(o) \in BWords /\ Finished(o) \in BWords
      BY <1>4, WordsOf, WordsApart
    <3> QED BY <1>1, <1>4, <3>1 DEF IsFirst
  <2>3. Heading(t) \notin Users \cup {"bfinish"} /\ Heading(t)' \notin Users \cup {"bfinish"}
    BY <1>2 DEF Users
  <2>4. binst' = o <=> binst = o
    BY <1>2, <1>4, BarrierAssumption DEF BarrierAssumption
  <2> QED BY <1>4, <2>1, <2>2, <2>3, <2>4, InstanceOther
<1>5. CASE o = t
  <2>1. bword'[Last(t)] = 0 /\ bword'[Finished(t)] = 0 /\ bcount'[t] = 0
    <3>1. Last(t) # Finished(t) /\ Last(t) \in BWords /\ Finished(t) \in BWords
      BY WordsOf
    <3> QED BY <1>1, <3>1 DEF IsFirst
  <2>2. \A u \in Threads \ {t} : bmine'[u] = t => Heading(u)' \notin Users \cup {"bfinish"}
    <3>1. SUFFICES ASSUME NEW u \in Threads \ {t}, bmine'[u] = t PROVE Heading(u)' \notin Users \cup {"bfinish"}
      OBVIOUS
    <3>2. bmine[u] = t /\ Heading(u)' = Heading(u)
      BY <3>1, OthersKept
    <3> QED BY <1>1, <1>3, <3>2 DEF PrivateOK, MineOK
  <2>3. Inside(t)' = {} /\ Finishing(t)' = {}
    BY <1>2, <2>2 DEF Inside, Finishing, Users
  <2>4. Cardinality(Inside(t)') = 0
    BY <2>3, FS_EmptySet
  <2>5. Count \in Int /\ Count > 1
    BY BarrierAssumption DEF BarrierAssumption
  <2> QED BY <1>2, <1>5, <2>1, <2>3, <2>4, <2>5 DEF InstanceOK
<1> QED BY <1>4, <1>5

LEMMA ArriveStep ==
  ASSUME BarrierTyped, NEW t \in Threads, Alone(t), PrivateOK, Arrives(t), NEW o \in Threads, bmine'[o] = o
  PROVE  InstanceOK(o)'
<1>1. /\ MineOK(t) /\ Null # t /\ bmine \in [Threads -> Threads \cup {Null}] /\ bword \in [BWords -> Int]
      /\ bcount \in [Threads -> Int] /\ binst \in Threads
  BY BarrierAssumption DEF PrivateOK, BarrierAssumption, BarrierTyped, Arrives
<1>2. /\ Heading(t) = "block" /\ Heading(t)' \in {"blast", "bothers"} /\ bmine'[t] = binst
      /\ bword' = bword /\ bcount' = [bcount EXCEPT ![binst] = @ + 1]
  BY <1>1 DEF Arrives, Turn
<1>3. bmine[t] = Null /\ bmine[binst] = binst /\ InstanceOK(binst) /\ binst # Null
  BY <1>1, <1>2, PrivateComing DEF PrivateOK, Arrives
<1>4. o # t /\ bmine[o] = o /\ binst # t
  BY <1>1, <1>2, <1>3, OthersKept
<1>5. CASE o # binst
  <2>1. bcount'[o] = bcount[o] /\ (binst' = o <=> binst = o)
    BY <1>1, <1>2, <1>5, BarrierAssumption DEF Arrives, BarrierAssumption
  <2>2. bmine[t] # o /\ bmine'[t] # o
    BY <1>2, <1>3, <1>5, BarrierAssumption DEF BarrierAssumption
  <2> QED BY <1>2, <1>4, <2>1, <2>2, InstanceOther
<1>6. CASE o = binst
  <2>1. Inside(o)' = Inside(o) \cup {t} /\ t \notin Inside(o)
    BY <1>2, <1>4, <1>6, OthersKept DEF Inside, Users
  <2>2. Finishing(o)' = {}
    <3>1. Finishing(o) = {}
      BY <1>3, <1>6 DEF InstanceOK
    <3> QED BY <1>2, <3>1, OthersKept DEF Finishing
  <2>3. Cardinality(Inside(o)') = Cardinality(Inside(o)) + 1 /\ Cardinality(Inside(o)) \in Nat
    BY <2>1, InsideFinite, FS_AddElement
  <2>4. \A u \in Inside(o) : Heading(u)' = "bothers"
    <3>1. \A u \in Inside(o) : Heading(u) = "bothers" /\ u # t
      BY <1>3, <1>6, <2>1 DEF InstanceOK
    <3> QED BY <3>1, OthersKept DEF Inside
  <2>5. /\ Heading(o)' = Heading(o) /\ Heading(o) # "breturnowner" /\ bcount[o] = Cardinality(Inside(o))
        /\ bcount[o] < Count - 1 /\ bword[Last(o)] = 0
        /\ bword[Finished(o)] = IF Heading(o) = "bownerinc" THEN 0 ELSE 1
    <3>1. bword[Finished(o)] \in Int
      BY <1>1, WordsOf
    <3> QED BY <1>3, <1>4, <1>6, <3>1, OthersKept DEF InstanceOK
  <2>6. bcount'[o] = bcount[o] + 1
    BY <1>1, <1>2, <1>6
  <2>7. Count \in Int /\ o # Null
    BY BarrierAssumption DEF BarrierAssumption
  <2>8. CASE bcount[binst] + 1 = Count - 1
    <3>1. binst' = Null /\ Heading(t)' = "blast"
      BY <2>8 DEF Arrives, Turn
    <3> QED BY <1>2, <1>6, <2>1, <2>2, <2>3, <2>4, <2>5, <2>6, <2>7, <2>8, <3>1 DEF InstanceOK
  <2>9. CASE bcount[binst] + 1 # Count - 1
    <3>1. binst' = binst /\ Heading(t)' = "bothers"
      BY <2>9 DEF Arrives, Turn
    <3> QED BY <1>2, <1>6, <2>1, <2>2, <2>3, <2>4, <2>5, <2>6, <2>7, <2>9, <3>1 DEF InstanceOK
  <2> QED BY <2>8, <2>9
<1> QED BY <1>5, <1>6

\* The instance of whoever leaves one.
LEMMA UsedInstance ==
  ASSUME BarrierTyped, NEW t \in Threads, ~bshared, PrivateOK, Heading(t) \in Users \cup {"bfinish"}
  PROVE  /\ bmine[t] \in Threads /\ bmine[t] # t /\ bmine[bmine[t]] = bmine[t] /\ InstanceOK(bmine[t])
         /\ Heading(t) \in Users => t \in Inside(bmine[t])
         /\ Heading(t) = "bfinish" => t \in Finishing(bmine[t])
BY DEF PrivateOK, MineOK, Users, Owners, Inside, Finishing

LEMMA PassStep ==
  ASSUME BarrierTyped, NEW t \in Threads, Alone(t), ~bshared, PrivateOK, Opens(t) \/ Passes(t),
         NEW o \in Threads, bmine'[o] = o
  PROVE  InstanceOK(o)'
<1> DEFINE m == bmine[t]
<1>1. bword \in [BWords -> Int]
  BY DEF BarrierTyped
<1>2. /\ Heading(t) \in {"blast", "bothers"} /\ Heading(t)' = "bexit"
      /\ bmine' = bmine /\ binst' = binst /\ bcount' = bcount
  BY DEF Opens, Passes, Turn, bRound, bOwn
<1>3. m \in Threads /\ m # t /\ bmine[m] = m /\ InstanceOK(m) /\ t \in Inside(m)
  BY <1>2, UsedInstance DEF Users
<1>4. o # t /\ bmine[o] = o
  BY <1>2, <1>3
<1>5. CASE o # m
  <2>1. bword'[Last(o)] = bword[Last(o)] /\ bword'[Finished(o)] = bword[Finished(o)]
    <3>1. Last(o) # Last(m) /\ Last(m) # Finished(o) /\ Last(o) \in BWords /\ Finished(o) \in BWords
      BY <1>3, <1>5, WordsOf, WordsApart
    <3> QED BY <1>1, <3>1 DEF Opens, Passes
  <2> QED BY <1>2, <1>4, <1>5, <2>1, InstanceOther
<1>6. CASE o = m
  <2>1. Inside(o)' = Inside(o) /\ Finishing(o)' = Finishing(o)
    BY <1>2, <1>6, OthersKept DEF Inside, Finishing, Users
  <2>2. Heading(o)' = Heading(o) /\ \A u \in Inside(o) \ {t} : Heading(u)' = Heading(u)
    BY <1>4, OthersKept DEF Inside
  <2>3. bword'[Finished(o)] = bword[Finished(o)]
    <3>1. Last(o) # Finished(o) /\ Finished(o) \in BWords
      BY WordsOf
    <3> QED BY <1>1, <1>6, <3>1 DEF Opens, Passes
  <2>4. binst # o /\ bword'[Last(o)] # 0 /\ (\A u \in Inside(o) : Heading(u)' # "blast")
    <3>1. CASE Opens(t)
      <4>1. Heading(t) = "blast"
        BY <3>1 DEF Opens, Turn
      <4>2. bword'[Last(o)] = 1
        <5>1. Last(o) \in BWords
          BY WordsOf
        <5> QED BY <1>1, <1>6, <3>1, <5>1 DEF Opens
      <4> QED BY <1>2, <1>3, <1>6, <2>2, <4>1, <4>2 DEF InstanceOK
    <3>2. CASE Passes(t)
      <4>1. bword'[Last(o)] = bword[Last(o)] /\ bword[Last(o)] # 0
        BY <1>6, <3>2 DEF Passes
      <4> QED BY <1>2, <1>3, <1>6, <2>2, <4>1 DEF InstanceOK
    <3> QED BY <3>1, <3>2
  <2> QED BY <1>2, <1>3, <1>6, <2>1, <2>2, <2>3, <2>4 DEF InstanceOK
<1> QED BY <1>5, <1>6

LEMMA LeaveStep ==
  ASSUME BarrierTyped, NEW t \in Threads, Alone(t), ~bshared, PrivateOK, LeavesLast(t) \/ LeavesOthers(t),
         NEW o \in Threads, bmine'[o] = o
  PROVE  InstanceOK(o)'
<1> DEFINE m == bmine[t]
<1>1. bcount \in [Threads -> Int] /\ bmine \in [Threads -> Threads \cup {Null}] /\ t # Null
  BY BarrierAssumption DEF BarrierTyped, BarrierAssumption
<1>2. /\ Heading(t) = "bexit" /\ Heading(t)' \in {"bfinish", "idle"} /\ bword' = bword /\ binst' = binst
      /\ bcount' = [bcount EXCEPT ![m] = @ - 1] /\ (bmine' = bmine \/ bmine'[t] = Null)
      /\ Heading(t)' = "bfinish" => bcount[m] = 1 /\ bmine' = bmine
      /\ Heading(t)' = "idle" => bcount[m] # 1
  BY <1>1 DEF LeavesLast, LeavesOthers, Leaves, Turn, bOwn
<1>3. m \in Threads /\ m # t /\ bmine[m] = m /\ InstanceOK(m) /\ t \in Inside(m)
  BY <1>2, UsedInstance DEF Users
<1>4. o # t /\ bmine[o] = o
  <2>1. o # t
    BY <1>1, <1>2, <1>3
  <2> QED BY <2>1, OthersKept
<1>5. CASE o # m
  <2>1. bcount'[o] = bcount[o]
    BY <1>1, <1>2, <1>5
  <2>2. bmine'[t] # o
    BY <1>1, <1>2, <1>5, BarrierAssumption DEF BarrierAssumption
  <2> QED BY <1>2, <1>4, <1>5, <2>1, <2>2, InstanceOther
<1>6. CASE o = m
  <2>1. binst # o /\ bword[Last(o)] # 0 /\ Finishing(o) = {} /\ bcount[o] = Cardinality(Inside(o))
    BY <1>2, <1>3, <1>6 DEF InstanceOK
  <2>2. Inside(o)' = Inside(o) \ {t}
    BY <1>2, <1>6, OthersKept DEF Inside, Users
  <2>3. /\ Cardinality(Inside(o)') = Cardinality(Inside(o)) - 1 /\ Cardinality(Inside(o)) \in Nat
        /\ Cardinality(Inside(o)') \in Nat /\ (Inside(o)' = {} <=> Cardinality(Inside(o)') = 0)
    BY <1>3, <1>6, <2>2, InsideFinite, FS_RemoveElement, ZenonT(60)
  <2>4. bcount'[o] = bcount[o] - 1
    BY <1>1, <1>2, <1>6
  <2>5. Heading(o)' = Heading(o) /\ \A u \in Inside(o) \ {t} : Heading(u)' = Heading(u)
    BY <1>4, OthersKept DEF Inside
  <2>6. /\ Heading(o) # "breturnowner" /\ \A u \in Inside(o) : Heading(u) # "blast"
        /\ bword[Finished(o)] = IF Heading(o) = "bownerinc" THEN 0 ELSE 1
    <3>1. bword[Finished(o)] \in Int
      BY WordsOf DEF BarrierTyped
    <3> QED BY <1>3, <1>6, <2>1, <3>1 DEF InstanceOK
  <2>7. CASE Heading(t)' = "bfinish"
    <3>1. Inside(o)' = {}
      BY <1>2, <1>6, <2>1, <2>3, <2>7
    <3>2. Finishing(o)' = {t}
      BY <1>2, <1>6, <2>1, <2>7, OthersKept DEF Finishing
    <3> QED BY <1>2, <1>6, <2>1, <2>3, <2>4, <2>5, <2>6, <3>1, <3>2 DEF InstanceOK
  <2>8. CASE Heading(t)' = "idle"
    <3>1. Inside(o)' # {}
      BY <1>2, <1>6, <2>1, <2>3, <2>8
    <3>2. Finishing(o)' = {}
      BY <1>2, <1>6, <2>1, <2>8, OthersKept DEF Finishing
    <3> QED BY <1>2, <1>6, <2>1, <2>2, <2>3, <2>4, <2>5, <2>6, <3>1, <3>2 DEF InstanceOK
  <2> QED BY <1>2, <2>7, <2>8
<1> QED BY <1>5, <1>6

LEMMA ReportStep ==
  ASSUME BarrierTyped, NEW t \in Threads, Alone(t), ~bshared, PrivateOK, Reports(t),
         NEW o \in Threads, bmine'[o] = o
  PROVE  InstanceOK(o)'
<1> DEFINE m == bmine[t]
<1>1. /\ bcount \in [Threads -> Int] /\ bmine \in [Threads -> Threads \cup {Null}] /\ t # Null
      /\ bword \in [BWords -> Int]
  BY BarrierAssumption DEF BarrierTyped, BarrierAssumption
<1>2. /\ Heading(t) = "bfinish" /\ Heading(t)' \in {"bfinishwake", "idle"} /\ bcount' = bcount /\ binst' = binst
      /\ bword' = [bword EXCEPT ![Finished(m)] = @ + 1] /\ (bmine' = bmine \/ bmine'[t] = Null)
  BY <1>1 DEF Reports, Leaves, Turn, bOwn
<1>3. m \in Threads /\ m # t /\ bmine[m] = m /\ InstanceOK(m) /\ t \in Finishing(m)
  BY <1>2, UsedInstance DEF Users
<1>4. o # t /\ bmine[o] = o
  <2>1. o # t
    BY <1>1, <1>2, <1>3
  <2> QED BY <2>1, OthersKept
<1>5. CASE o # m
  <2>1. bword'[Last(o)] = bword[Last(o)] /\ bword'[Finished(o)] = bword[Finished(o)]
    <3>1. Finished(o) # Finished(m) /\ Last(o) # Finished(m) /\ Last(o) \in BWords /\ Finished(o) \in BWords
      BY <1>3, <1>5, WordsOf, WordsApart
    <3> QED BY <1>1, <1>2, <3>1
  <2>2. Heading(t)' \notin Users \cup {"bfinish"}
    BY <1>2 DEF Users
  <2> QED BY <1>2, <1>4, <1>5, <2>1, <2>2, InstanceOther
<1>6. CASE o = m
  <2>1. /\ Inside(o) = {} /\ binst # o /\ bword[Last(o)] # 0 /\ \A u \in Finishing(o) : u = t
        /\ bcount[o] = Cardinality(Inside(o)) /\ Heading(o) # "breturnowner"
    BY <1>3, <1>6 DEF InstanceOK
  <2>2. Inside(o)' = {} /\ Finishing(o)' = {}
    <3>1. Heading(t)' \notin Users \cup {"bfinish"}
      BY <1>2 DEF Users
    <3>2. \A u \in Threads \ {t} : u \notin Inside(o) /\ u \notin Finishing(o)
      BY <2>1
    <3> QED BY <3>1, <3>2, OthersKept DEF Inside, Finishing
  <2>3. Heading(o)' = Heading(o)
    BY <1>4, OthersKept
  <2>4. bword'[Finished(o)] = bword[Finished(o)] + 1 /\ bword'[Last(o)] = bword[Last(o)] /\ bword[Finished(o)] \in Int
    <3>1. Last(o) # Finished(o) /\ Finished(o) \in BWords /\ Last(o) \in BWords
      BY WordsOf
    <3> QED BY <1>1, <1>2, <1>6, <3>1
  <2>5. bword[Finished(o)] = IF Heading(o) = "bownerinc" THEN 0 ELSE 1
    BY <1>3, <1>6, <2>4 DEF InstanceOK
  <2> QED BY <1>2, <2>1, <2>2, <2>3, <2>4, <2>5 DEF InstanceOK
<1> QED BY <1>5, <1>6

LEMMA PrivateStep ==
  ASSUME BarrierTyped, NEW t \in Threads, ShapeAt(t), Alone(t), Turns(t), ~bshared, PrivateOK, OneHolds
  PROVE  PrivateOK'
<1>1. \A o \in Threads : bmine'[o] = o => InstanceOK(o)'
  BY InstanceStill, OwnerStep, FirstStep, ArriveStep, PassStep, LeaveStep, ReportStep
     DEF Turns, PrivateTurn, SharedTurn, Marks, CountsIn, CountsInLast, Zeroes, SeesFull, SeesEmpty, CountsOut, GivesBack
<1> QED BY <1>1, LockWord, MineStep DEF PrivateOK

-----------------------------------------------------------------------------
(* Shared barriers *)
LEMMA PhaseKept ==
  ASSUME Arrived' = Arrived, Gone' = Gone, \A u \in Arrived \cup Gone : Heading(u)' = Heading(u),
         \A u \in Threads : (Holding(u)' <=> Holding(u)) /\ (Zero(u)' <=> Zero(u)),
         bword'[BLock] = bword[BLock], bword'[BCount] = bword[BCount], bdestroy' = bdestroy
  PROVE  /\ (Filling => Filling') /\ (Full => Full') /\ (Emptying => Emptying') /\ (Empty => Empty')
         /\ (Ending => Ending')
<1>1. (NoHolder' <=> NoHolder) /\ (NoZero' <=> NoZero) /\ \A x \in Threads : OnlyZero(x)' <=> OnlyZero(x)
  BY DEF NoHolder, NoZero, OnlyZero, Zero
<1>2. Filling => Filling'
  BY <1>1 DEF Filling
<1>3. Full => Full'
  <2>1. Arrived \subseteq Threads
    BY DEF Arrived
  <2> QED BY <1>1, <2>1 DEF Full
<1>4. Emptying => Emptying'
  BY <1>1 DEF Emptying
<1>5. Empty => Empty'
  <2>1. Gone \subseteq Threads
    BY DEF Gone
  <2> QED BY <1>1, <2>1 DEF Empty
<1>6. Ending => Ending'
  BY <1>1 DEF Ending
<1> QED BY <1>2, <1>3, <1>4, <1>5, <1>6

LEMMA PhaseStill ==
  ASSUME NEW t \in Threads, Alone(t), bshared, Quiet(t) \/ HasWoken(t) \/ Enters(t) \/ Destroyed(t)
  PROVE  (SharedOK => SharedOK') /\ (Ending => Ending')
<1>1. \A u \in Threads \ {t} : Heading(u)' = Heading(u) /\ (Holding(u)' <=> Holding(u)) /\ (Zero(u)' <=> Zero(u))
  BY OthersKept
<1>2. /\ Holding(t)' <=> Holding(t)
      /\ Zero(t)' <=> Zero(t)
      /\ bword' = bword /\ bdestroy' = bdestroy
  BY DEF Quiet, HasWoken, Enters, Destroyed, Leaves, NoLock, Plain
<1>3. \/ Heading(t)' = Heading(t)
      \/ t \notin Arrived \cup Gone /\ t \notin Arrived' \cup Gone'
  BY DEF Quiet, HasWoken, Enters, Destroyed, Turn, Arrived, Gone
<1>4. Arrived' = Arrived /\ Gone' = Gone
  BY <1>1, <1>3 DEF Arrived, Gone
<1>5. \A u \in Arrived \cup Gone : Heading(u)' = Heading(u)
  BY <1>1, <1>3 DEF Arrived, Gone
<1> QED BY <1>1, <1>2, <1>4, <1>5, PhaseKept DEF SharedOK

\* A shared barrier that is not destroyed has its lock free only while a round fills.
LEMMA FreePhase ==
  ASSUME SharedOK, bdestroy = Null, bword[BLock] = 0
  PROVE  Filling /\ NoHolder
<1>1. ~Full /\ ~Emptying /\ ~Empty
  BY BarrierAssumption DEF Full, Emptying, Empty, BarrierAssumption
<1>2. ~Ending
  BY GroupsFinite DEF Ending
<1> QED BY <1>1, <1>2, BarrierAssumption DEF SharedOK, Filling, BarrierAssumption

LEMMA LockPhase ==
  ASSUME BarrierTyped, NEW t \in Threads, Alone(t), bshared, SharedOK, OneHolds, DestroyOK,
         TakesLock(t) \/ GivesLock(t)
  PROVE  SharedOK' /\ bdestroy = Null
<1>1. /\ \A u \in Threads \ {t} : Heading(u)' = Heading(u) /\ (Holding(u)' <=> Holding(u)) /\ (Zero(u)' <=> Zero(u))
      /\ Heading(t)' = Heading(t) /\ (Zero(t)' <=> Zero(t))
  BY OthersKept DEF TakesLock, GivesLock, Turn, Plain
<1>2. Arrived' = Arrived /\ Gone' = Gone /\ \A u \in Threads : Heading(u)' = Heading(u)
  BY <1>1 DEF Arrived, Gone
<1>3. NoZero' <=> NoZero
  BY <1>1 DEF NoZero, Zero
<1>4. bdestroy' = bdestroy /\ bword \in [BWords -> Int] /\ BLock \in BWords /\ BLock # BCount
  BY Words DEF TakesLock, GivesLock, BarrierTyped
<1>5. CASE TakesLock(t)
  <2>1. bdestroy = Null /\ bword[BLock] = 0
    BY <1>5 DEF TakesLock, Turn, DestroyOK
  <2>2. Filling /\ NoHolder
    BY <2>1, FreePhase
  <2>3. bword'[BLock] = Count /\ bword'[BCount] = bword[BCount] /\ ~NoHolder'
    BY <1>4, <1>5, Words DEF TakesLock, NoHolder
  <2>4. Filling'
    BY <1>2, <1>3, <1>4, <2>2, <2>3 DEF Filling, Arrived
  <2> QED BY <2>1, <2>4 DEF SharedOK
<1>6. CASE GivesLock(t)
  <2>1. Filling
    BY <1>6, HolderPhase DEF GivesLock
  <2>2. NoHolder'
    BY <1>1, <1>6 DEF GivesLock, OneHolds, NoHolder
  <2>3. bword'[BLock] = 0 /\ bword'[BCount] = bword[BCount]
    BY <1>4, <1>6, Words DEF GivesLock
  <2>4. Filling'
    BY <1>2, <1>3, <1>4, <2>1, <2>2, <2>3 DEF Filling, Arrived
  <2> QED BY <2>1, <2>4 DEF SharedOK, Filling
<1> QED BY <1>5, <1>6

LEMMA GroupsStep ==
  ASSUME NEW t \in Threads, Alone(t)
  PROVE  /\ Cardinality(Arrived') \in Nat /\ (Arrived' = {} <=> Cardinality(Arrived') = 0)
         /\ Cardinality(Gone') \in Nat /\ (Gone' = {} <=> Cardinality(Gone') = 0)
         /\ Cardinality(Arrived') = Cardinality(Arrived) + IsIn(t, Arrived)' - IsIn(t, Arrived)
         /\ Cardinality(Gone') = Cardinality(Gone) + IsIn(t, Gone)' - IsIn(t, Gone)
         /\ \A u \in Threads \ {t} : (u \in Arrived' <=> u \in Arrived) /\ (u \in Gone' <=> u \in Gone)
<1>1. \A u \in Threads \ {t} : (u \in Arrived' <=> u \in Arrived) /\ (u \in Gone' <=> u \in Gone)
  BY OthersKept DEF Arrived, Gone
<1>2. IsFiniteSet(Arrived') /\ IsFiniteSet(Gone')
  BY ThreadsAssumption, FS_Subset DEF ThreadsAssumption, Arrived, Gone
<1>3. /\ Cardinality(Arrived') \in Nat /\ (Arrived' = {} <=> Cardinality(Arrived') = 0)
      /\ Cardinality(Gone') \in Nat /\ (Gone' = {} <=> Cardinality(Gone') = 0)
  BY <1>2, FS_CardinalityType, FS_EmptySet
<1>4. /\ Arrived \in SUBSET Threads /\ Arrived' \in SUBSET Threads
      /\ Gone \in SUBSET Threads /\ Gone' \in SUBSET Threads
  BY DEF Arrived, Gone
<1>5. Cardinality(Arrived') = Cardinality(Arrived) + IsIn(t, Arrived)' - IsIn(t, Arrived)
  BY <1>1, <1>4, OneMember DEF IsIn
<1>6. Cardinality(Gone') = Cardinality(Gone) + IsIn(t, Gone)' - IsIn(t, Gone)
  BY <1>1, <1>4, OneMember DEF IsIn
<1> QED BY <1>1, <1>3, <1>5, <1>6

LEMMA CountWords ==
  ASSUME BarrierTyped
  PROVE  /\ bword \in [BWords -> Int] /\ bword[BLock] \in Int /\ bword[BCount] \in Int
         /\ BLock \in BWords /\ BCount \in BWords /\ BLock # BCount
         /\ Count \in Nat /\ Count > 1 /\ INT_MIN \in Int /\ INT_MIN < - Count
BY Words, BarrierAssumption DEF BarrierTyped, BarrierAssumption

LEMMA InPhase ==
  ASSUME BarrierTyped, NEW t \in Threads, Alone(t), bshared, SharedOK, OneHolds,
         CountsIn(t) \/ CountsInLast(t)
  PROVE  SharedOK' /\ bdestroy = Null
<1>1. /\ Heading(t) = "pcas" /\ Heading(t)' \in {"parrived", "pleave"} /\ Holding(t) /\ ~Zero(t)
      /\ bdestroy' = bdestroy /\ bword' = [bword EXCEPT ![BCount] = @ + 1]
  BY DEF CountsIn, CountsInLast, Turn, KeepsLock, Plain
<1>2. Filling /\ bword[BLock] = Count
  BY <1>1, HolderPhase
<1>3. bword'[BLock] = Count /\ bword'[BCount] = bword[BCount] + 1
  BY <1>1, <1>2, CountWords
<1>4. /\ t \notin Arrived /\ t \in Arrived' /\ t \notin Gone /\ t \notin Gone'
      /\ IsIn(t, Arrived) = 0 /\ IsIn(t, Arrived)' = 1
  BY <1>1 DEF Arrived, Gone, IsIn
<1>5. /\ Cardinality(Arrived') = Cardinality(Arrived) + 1 /\ Cardinality(Arrived) \in Nat
      /\ \A u \in Threads \ {t} : u \in Arrived' <=> u \in Arrived
  BY <1>4, GroupsStep, GroupsFinite
<1>6. Gone' = {}
  <2>1. \A u \in Threads \ {t} : u \notin Gone'
    BY <1>2, GroupsStep DEF Filling
  <2> QED BY <1>4, <2>1 DEF Gone
<1>7. Arrived' \subseteq Threads
  BY DEF Arrived
<1>8. \A u \in Arrived' \ {t} : Heading(u)' = "parrived"
  BY <1>2, <1>5, <1>7, OthersKept DEF Filling
<1>9. CASE CountsIn(t)
  <2>1. Heading(t)' = "parrived" /\ Holding(t)' /\ ~Zero(t)' /\ bword[BCount] + 1 # Count
    BY <1>9 DEF CountsIn, Turn, KeepsLock, Plain
  <2>2. NoZero'
    BY <1>2, <2>1, OthersKept DEF Filling, NoZero, Zero
  <2>3. ~NoHolder'
    BY <2>1 DEF NoHolder
  <2>4. \A u \in Arrived' : Heading(u)' = "parrived"
    BY <1>8, <2>1
  <2>5. bword'[BCount] \in 0 .. Count - 1
    BY <1>2, <1>3, <2>1, CountWords DEF Filling
  <2>6. Cardinality(Arrived') = bword'[BCount]
    BY <1>2, <1>3, <1>5 DEF Filling
  <2>7. Filling'
    BY <1>1, <1>2, <1>3, <1>6, <2>2, <2>3, <2>4, <2>5, <2>6 DEF Filling
  <2> QED BY <1>2, <2>7 DEF SharedOK, Filling
<1>10. CASE CountsInLast(t)
  <2>1. Heading(t)' = "pleave" /\ ~Holding(t)' /\ Zero(t)' /\ bword[BCount] + 1 = Count
    BY <1>10 DEF CountsInLast, Turn
  <2>2. OnlyZero(t)'
    BY <1>2, <2>1, OthersKept DEF Filling, NoZero, OnlyZero, Zero
  <2>3. NoHolder'
    BY <1>1, <2>1, OthersKept DEF NoHolder, OneHolds
  <2>4. Cardinality(Arrived') = Count /\ bword'[BCount] = Count
    BY <1>2, <1>3, <1>5, <2>1 DEF Filling
  <2>5. Full'
    BY <1>1, <1>2, <1>3, <1>4, <1>6, <1>8, <2>1, <2>2, <2>3, <2>4 DEF Full, Filling
  <2> QED BY <1>2, <2>5 DEF SharedOK, Filling
<1> QED BY <1>9, <1>10

LEMMA ZeroesPhase ==
  ASSUME BarrierTyped, NEW t \in Threads, Alone(t), bshared, SharedOK, Zeroes(t)
  PROVE  SharedOK' /\ bdestroy = Null
<1>1. /\ Heading(t)' = Heading(t) /\ ~Holding(t)' /\ Zero(t) /\ ~Zero(t)'
      /\ bdestroy' = bdestroy /\ bword' = [bword EXCEPT ![BCount] = 0]
  BY DEF Zeroes, NoLock
<1>2. \A u \in Threads : Heading(u)' = Heading(u) /\ (u # t => (Holding(u)' <=> Holding(u)) /\ (Zero(u)' <=> Zero(u)))
  BY <1>1, OthersKept
<1>3. bword'[BLock] = bword[BLock] /\ bword'[BCount] = 0
  BY <1>1, CountWords
<1>4. Arrived' = Arrived /\ Gone' = Gone /\ Arrived \subseteq Threads /\ Gone \subseteq Threads
  BY <1>2 DEF Arrived, Gone
<1>5. CASE Full /\ Heading(t) = "pleave" /\ OnlyZero(t) /\ t \in Arrived
  <2>1. NoHolder' /\ NoZero'
    BY <1>1, <1>2, <1>5 DEF Full, NoHolder, NoZero, OnlyZero, Zero
  <2>2. Cardinality({}) = 0 /\ Gone = {}
    BY <1>5, FS_EmptySet DEF Full
  <2>3. Emptying'
    BY <1>1, <1>3, <1>4, <1>5, <2>1, <2>2, CountWords DEF Full, Emptying
  <2> QED BY <1>5, <2>3 DEF SharedOK, Full
<1>6. CASE Empty /\ Heading(t) = "punload" /\ OnlyZero(t) /\ t \in Gone
  <2>1. NoHolder' /\ NoZero'
    BY <1>1, <1>2, <1>6 DEF Empty, NoHolder, NoZero, OnlyZero, Zero
  <2>2. Ending'
    BY <1>1, <1>3, <1>4, <1>6, <2>1, CountWords DEF Empty, Ending
  <2> QED BY <1>6, <2>2 DEF SharedOK, Empty
<1> QED BY <1>1, <1>5, <1>6, ZeroPhase

LEMMA SeesPhase ==
  ASSUME BarrierTyped, NEW t \in Threads, Alone(t), bshared, SharedOK, SeesFull(t) \/ SeesEmpty(t)
  PROVE  SharedOK' /\ (bdestroy # Null => Ending')
<1>1. /\ ~Holding(t) /\ ~Holding(t)' /\ ~Zero(t) /\ ~Zero(t)'
      /\ bdestroy' = bdestroy /\ bword' = bword
  BY DEF SeesFull, SeesEmpty, NoLock, Plain
<1>2. \A u \in Threads : (Holding(u)' <=> Holding(u)) /\ (Zero(u)' <=> Zero(u))
  BY <1>1, OthersKept
<1>3. (NoHolder' <=> NoHolder) /\ (NoZero' <=> NoZero)
  BY <1>2 DEF NoHolder, NoZero, Zero
<1>4. Arrived' = Arrived /\ Gone' = Gone
  BY OthersKept DEF SeesFull, SeesEmpty, Turn, Arrived, Gone
<1>5. CASE SeesFull(t)
  <2>1. Emptying /\ t \in Arrived
    BY <1>5, SeesFullPhase DEF SeesFull, Turn
  <2>2. \A u \in Gone : Heading(u)' = "pleft"
    BY <1>5, <2>1, OthersKept DEF Emptying, SeesFull, Turn, Gone
  <2>3. Emptying'
    BY <1>1, <1>3, <1>4, <2>1, <2>2 DEF Emptying
  <2> QED BY <2>1, <2>3 DEF SharedOK, Emptying
<1>6. CASE SeesEmpty(t)
  <2>1. Ending
    BY <1>6, SeesEmptyPhase DEF SeesEmpty, Turn
  <2>2. Ending'
    BY <1>1, <1>3, <1>4, <2>1 DEF Ending
  <2> QED BY <2>2 DEF SharedOK
<1> QED BY <1>5, <1>6

LEMMA OutPhase ==
  ASSUME BarrierTyped, NEW t \in Threads, Alone(t), bshared, SharedOK, CountsOut(t)
  PROVE  SharedOK' /\ bdestroy = Null
<1>1. /\ Heading(t) = "pleave" /\ Heading(t)' \in {"punload", "pleft"} /\ ~Holding(t)' /\ ~Zero(t)
      /\ bdestroy' = bdestroy /\ bword' = [bword EXCEPT ![BCount] = @ + (-1)]
  BY DEF CountsOut, Turn, NoLock
<1>2. Emptying /\ t \in Arrived
  BY <1>1, LeavePhase
<1>3. bword'[BLock] = bword[BLock] /\ bword'[BCount] = bword[BCount] - 1 /\ bword[BCount] \in Int
  BY <1>1, CountWords
<1>4. /\ t \notin Arrived' /\ t \notin Gone /\ t \in Gone' /\ IsIn(t, Arrived) = 1 /\ IsIn(t, Arrived)' = 0
      /\ IsIn(t, Gone) = 0 /\ IsIn(t, Gone)' = 1
  BY <1>1, <1>2 DEF Arrived, Gone, IsIn
<1>5. /\ Cardinality(Arrived') = Cardinality(Arrived) - 1 /\ Cardinality(Gone') = Cardinality(Gone) + 1
      /\ Cardinality(Arrived) \in Nat /\ Cardinality(Gone) \in Nat /\ (Arrived' = {} <=> Cardinality(Arrived') = 0)
      /\ Arrived \subseteq Threads /\ Gone' \subseteq Threads
  <2>1. Arrived \subseteq Threads /\ Gone' \subseteq Threads
    BY DEF Arrived, Gone
  <2> QED BY <1>4, <2>1, GroupsStep, GroupsFinite
<1>6. \A u \in Gone' \ {t} : Heading(u)' = "pleft"
  BY <1>2, <1>5, GroupsStep, OthersKept DEF Emptying
<1>7. NoHolder'
  BY <1>1, <1>2, OthersKept DEF Emptying, NoHolder
<1>8. CASE bword[BCount] = 1 - Count
  <2>1. Heading(t)' = "punload" /\ Zero(t)'
    BY <1>8 DEF CountsOut, Turn
  <2>2. OnlyZero(t)'
    BY <1>2, <2>1, OthersKept DEF Emptying, NoZero, OnlyZero, Zero
  <2>3. Cardinality(Gone) = Count - 1
    BY <1>2, <1>5, <1>8, CountWords DEF Emptying
  <2>4. Cardinality(Arrived') = 0 /\ Cardinality(Gone') = Count /\ bword'[BCount] = - Count
    BY <1>2, <1>3, <1>5, <1>8, <2>3, CountWords DEF Emptying
  <2>5. Empty'
    BY <1>1, <1>2, <1>3, <1>4, <1>5, <1>6, <1>7, <2>1, <2>2, <2>4 DEF Empty, Emptying
  <2> QED BY <1>2, <2>5 DEF SharedOK, Emptying
<1>9. CASE bword[BCount] # 1 - Count
  <2>1. Heading(t)' = "pleft" /\ ~Zero(t)'
    BY <1>9 DEF CountsOut, Turn
  <2>2. NoZero'
    BY <1>2, <2>1, OthersKept DEF Emptying, NoZero, Zero
  <2>3. Cardinality(Gone) # Count - 1
    BY <1>2, <1>5, <1>9, CountWords DEF Emptying
  <2>4. /\ Cardinality(Arrived') # 0 /\ Cardinality(Arrived') + Cardinality(Gone') = Count
        /\ bword'[BCount] = - Cardinality(Gone')
    BY <1>2, <1>3, <1>5, <2>3, CountWords DEF Emptying
  <2>5. Emptying'
    BY <1>1, <1>2, <1>3, <1>5, <1>6, <1>7, <2>1, <2>2, <2>4 DEF Emptying
  <2> QED BY <1>2, <2>5 DEF SharedOK, Emptying
<1> QED BY <1>8, <1>9

LEMMA BackStep ==
  ASSUME BarrierTyped, NEW t \in Threads, Alone(t), bshared, SharedOK, GivesBack(t)
  PROVE  SharedOK' /\ (bdestroy # Null => Ending') /\ t \in Gone
<1>1. /\ Heading(t) = "punload" /\ Heading(t)' \in {"idle", "punwake"} /\ ~Holding(t)' /\ ~Zero(t) /\ ~Zero(t)'
      /\ bdestroy' = bdestroy /\ bword' = [bword EXCEPT ![BLock] = IF @ = INT_MIN + 1 THEN 0 ELSE @ - 1]
  BY DEF GivesBack, Leaves, Turn, NoLock, Plain
<1>2. Ending /\ t \in Gone
  BY <1>1, BackPhase
<1>3. /\ bword'[BLock] = (IF bword[BLock] = INT_MIN + 1 THEN 0 ELSE bword[BLock] - 1)
      /\ bword'[BCount] = 0
  BY <1>1, <1>2, CountWords DEF Ending
<1>4. /\ t \notin Arrived' /\ t \notin Gone' /\ IsIn(t, Gone) = 1 /\ IsIn(t, Gone)' = 0
  BY <1>1, <1>2 DEF Arrived, Gone, IsIn
<1>5. /\ Cardinality(Gone') = Cardinality(Gone) - 1 /\ Cardinality(Gone) \in Nat /\ Cardinality(Gone) # 0
      /\ (Gone' = {} <=> Cardinality(Gone') = 0) /\ Cardinality(Gone') \in Nat
  BY <1>2, <1>4, GroupsStep, GroupsFinite
<1>6. Arrived' = {}
  <2>1. \A u \in Threads \ {t} : u \notin Arrived'
    BY <1>2, GroupsStep DEF Ending
  <2> QED BY <1>4, <2>1 DEF Arrived
<1>7. NoHolder' /\ NoZero'
  BY <1>1, <1>2, OthersKept DEF Ending, NoHolder, NoZero, Zero
<1>8. \/ bword'[BLock] = Cardinality(Gone')
      \/ bdestroy # Null /\ bword'[BLock] = Cardinality(Gone') + INT_MIN
  BY <1>2, <1>3, <1>5, CountWords DEF Ending
<1>9. CASE bdestroy # Null \/ Gone' # {}
  <2>1. Ending'
    BY <1>1, <1>2, <1>3, <1>5, <1>6, <1>7, <1>8, <1>9, CountWords DEF Ending
  <2> QED BY <1>2, <2>1 DEF SharedOK
<1>10. CASE bdestroy = Null /\ Gone' = {}
  <2>1. bword'[BLock] = 0 /\ bword'[BCount] \in 0 .. Count - 1 /\ Cardinality(Arrived') = 0
    BY <1>3, <1>5, <1>6, <1>8, <1>10, CountWords, FS_EmptySet
  <2>2. Filling'
    BY <1>1, <1>3, <1>6, <1>7, <1>10, <2>1 DEF Filling
  <2> QED BY <1>2, <1>10, <2>2 DEF SharedOK
<1> QED BY <1>9, <1>10

LEMMA MarkPhase ==
  ASSUME BarrierTyped, NEW t \in Threads, Alone(t), bshared, Ending, bdestroy # Null, Marks(t)
  PROVE  Ending'
<1>1. /\ Heading(t) = "destroy" /\ Heading(t)' = "destroy" /\ ~Holding(t)' /\ ~Zero(t)'
      /\ bdestroy' = bdestroy /\ bword' = [bword EXCEPT ![BLock] = IF @ < 0 THEN @ ELSE @ + INT_MIN]
  BY DEF Marks, Turn, NoLock, Plain
<1>2. Arrived' = Arrived /\ Gone' = Gone
  BY <1>1, OthersKept DEF Arrived, Gone
<1>3. NoHolder' /\ NoZero'
  BY <1>1, OthersKept DEF Ending, NoHolder, NoZero, Zero
<1>4. bword'[BCount] = bword[BCount] /\ bword'[BLock] = IF bword[BLock] < 0 THEN bword[BLock] ELSE bword[BLock] + INT_MIN
  BY <1>1, CountWords
<1>5. Cardinality(Gone) \in Nat
  BY GroupsFinite
<1> QED BY <1>1, <1>2, <1>3, <1>4, <1>5, CountWords DEF Ending

-----------------------------------------------------------------------------
(* The rounds that are over, and the destruction of the barrier *)
LEMMA Product ==
  ASSUME NEW d \in Nat, NEW a \in Int, NEW b \in Int
  PROVE  /\ d * a \in Int /\ a * d = d * a /\ d * (a - b) = d * a - d * b
         /\ (a <= b => d * a <= d * b)
BY SMT

LEMMA WholeRounds ==
  ASSUME NEW d \in Nat, d > 0, NEW n \in Nat, NEW r \in Nat, d * r <= n
  PROVE  r <= n \div d /\ d * r <= d * (n \div d) /\ n \div d \in Nat
<1>1. PICK q \in Int : q = n \div d
  BY SMT
<1>2. PICK m \in Int : m = n % d
  BY SMT
<1>3. n = d * q + m /\ 0 <= m /\ m < d
  BY <1>1, <1>2, SMT
<1>4. q >= r
  <2>1. SUFFICES ASSUME q + 1 <= r PROVE FALSE
    BY SMT
  <2>2. d * (q + 1) <= d * r /\ d * (q + 1) = d * q + d
    BY <2>1, SMT
  <2> QED BY <1>3, <2>2, SMT
<1> QED BY <1>1, <1>4, Product, SMT

LEMMA NoPartRound ==
  ASSUME NEW d \in Nat, d > 0, NEW r \in Nat, NEW k \in Nat, k < d, (d * r + k) % d = 0
  PROVE  k = 0
<1>1. PICK n \in Nat : n = d * r + k
  BY SMT
<1>2. PICK q \in Int : q = n \div d
  BY <1>1, SMT
<1>3. n = d * q
  BY <1>1, <1>2, SMT
<1>4. CASE q >= r + 1
  <2>1. d * q >= d * (r + 1) /\ d * (r + 1) = d * r + d
    BY <1>4, SMT
  <2> QED BY <1>1, <1>3, <2>1, SMT
<1>5. CASE q <= r
  <2>1. d * q <= d * r
    BY <1>5, SMT
  <2> QED BY <1>1, <1>3, <2>1, SMT
<1> QED BY <1>4, <1>5, SMT

LEMMA CallGroups ==
  /\ IsFiniteSet(Coming) /\ Cardinality(Coming) \in Nat /\ (Cardinality(Coming) = 0 => Coming = {})
  /\ IsFiniteSet(Within) /\ Cardinality(Within) \in Nat /\ (Within = {} => Cardinality(Within) = 0)
  /\ IsFiniteSet(Serial) /\ Cardinality(Serial) \in Nat /\ (Serial = {} <=> Cardinality(Serial) = 0)
<1>1. Coming \subseteq Threads /\ Within \subseteq Threads /\ Serial \subseteq Threads
  BY DEF Coming, Within, Serial
<1>2. IsFiniteSet(Coming) /\ IsFiniteSet(Within) /\ IsFiniteSet(Serial)
  BY <1>1, ThreadsAssumption, FS_Subset DEF ThreadsAssumption
<1> QED BY <1>2, FS_CardinalityType, FS_EmptySet

\* The threads of a shared round have come to it.
LEMMA GroupsWithin == Cardinality(Arrived) + Cardinality(Gone) <= Cardinality(Within)
<1>1. Arrived \cup Gone \subseteq Within
  BY DEF Arrived, Gone, Within
<1>2. Arrived \cap Gone = {}
  BY DEF Arrived, Gone
<1>3. Cardinality(Arrived \cup Gone) = Cardinality(Arrived) + Cardinality(Gone)
  <2>1. Cardinality(Arrived \cap Gone) = 0
    BY <1>2, FS_EmptySet
  <2>2. Cardinality(Arrived \cup Gone) = Cardinality(Arrived) + Cardinality(Gone) - Cardinality(Arrived \cap Gone)
    BY GroupsFinite, FS_Union
  <2> QED BY <2>1, <2>2, GroupsFinite
<1>4. Cardinality(Arrived \cup Gone) <= Cardinality(Within)
  BY <1>1, CallGroups, FS_Subset
<1> QED BY <1>3, <1>4

\* The thread that made the instance of the round that is not full.
LEMMA FirstIsSerial ==
  ASSUME BarrierTyped, ~bshared, PrivateOK, binst # Null
  PROVE  /\ binst \in Serial /\ binst \notin Inside(binst)
         /\ Present = Cardinality(Inside(binst)) + 1 /\ bcount[binst] < Count - 1
<1>1. binst \in Threads /\ bmine[binst] = binst
  BY DEF BarrierTyped, PrivateOK
<1>2. MineOK(binst) /\ InstanceOK(binst)
  BY <1>1 DEF PrivateOK
<1>3. Heading(binst) \in Owners /\ bserial[binst]
  BY <1>1, <1>2 DEF MineOK, Owners
<1>4. binst \in Serial /\ binst \notin Inside(binst)
  BY <1>1, <1>3 DEF Serial, Within, Inside, Owners, Users
<1> QED BY <1>2, <1>4 DEF InstanceOK, Present

LEMMA PresentBounds ==
  ASSUME BarrierTyped, ~bshared => PrivateOK, bshared => SharedOK
  PROVE  /\ Present \in Nat /\ Present < Count /\ Present <= Cardinality(Within)
         /\ PresentSerial \in {0, 1} /\ PresentSerial <= Cardinality(Serial)
         /\ (~bshared /\ Present = 0 => binst = Null)
<1>1. CASE bshared
  <2>1. Present \in Nat /\ Present < Count /\ PresentSerial = 0
    BY <1>1, CountWords DEF Present, PresentSerial
  <2>2. Present # 0 => Filling
    BY <1>1, CountWords, GroupsFinite DEF Present, SharedOK, Full, Emptying, Empty, Ending
  <2>3. Present <= Cardinality(Within)
    <3>1. CASE Present = 0
      BY <3>1, CallGroups
    <3>2. CASE Present # 0
      <4>1. Present = Cardinality(Arrived)
        BY <1>1, <2>2, <3>2 DEF Filling, Present
      <4> QED BY <4>1, GroupsWithin, GroupsFinite, CallGroups
    <3> QED BY <3>1, <3>2
  <2> QED BY <1>1, <2>1, <2>3, CallGroups
<1>2. CASE ~bshared /\ binst = Null
  <2>1. Present = 0 /\ PresentSerial = 0
    BY <1>2 DEF Present, PresentSerial
  <2> QED BY <1>2, <2>1, CallGroups, CountWords
<1>3. CASE ~bshared /\ binst # Null
  <2>1. /\ binst \in Serial /\ binst \notin Inside(binst) /\ binst \in Threads
        /\ Present = Cardinality(Inside(binst)) + 1 /\ bcount[binst] < Count - 1
    BY <1>3, FirstIsSerial DEF BarrierTyped
  <2>2. bcount[binst] = Cardinality(Inside(binst)) /\ Cardinality(Inside(binst)) \in Nat /\ IsFiniteSet(Inside(binst))
    BY <1>3, <2>1, InsideFinite DEF PrivateOK, InstanceOK
  <2>3. Present \in Nat /\ Present < Count /\ Present # 0
    BY <2>1, <2>2, CountWords
  <2>4. Inside(binst) \cup {binst} \subseteq Within
    BY <2>1 DEF Inside, Users, Serial, Within
  <2>5. Cardinality(Inside(binst) \cup {binst}) = Cardinality(Inside(binst)) + 1
    BY <2>1, <2>2, FS_AddElement
  <2>6. Present <= Cardinality(Within)
    BY <2>1, <2>4, <2>5, CallGroups, FS_Subset
  <2>7. PresentSerial = 1
    BY <1>3 DEF PresentSerial
  <2>8. Cardinality(Serial) # 0
    BY <2>1, CallGroups
  <2> QED BY <1>3, <2>3, <2>6, <2>7, <2>8, CallGroups
<1> QED BY <1>1, <1>2, <1>3

\* When a shared barrier is destroyed, no round is under way: the threads of
\* the last one are leaving, if there are any.
LEMMA DestroysShared ==
  ASSUME BarrierTyped, Shape, NEW t \in Threads, Alone(t), bshared, SharedOK, CountsOK, Destroys(t)
  PROVE  Ending' /\ Coming = {}
<1>1. PICK r \in Nat : RoundsAre(r)
  BY DEF CountsOK
<1>2. PICK k \in Nat : k = Cardinality(Coming) + Present
  BY CallGroups, PresentBounds
<1>3. /\ Cardinality(Coming) \in Nat /\ Cardinality(Within) \in Nat /\ bleft \in Nat /\ bentered \in Nat
      /\ Present \in Nat /\ Present <= Cardinality(Within)
  BY CallGroups, PresentBounds DEF BarrierTyped
<1>4. /\ bentered = Cardinality(Coming) + Cardinality(Within) + bleft
      /\ bentered % Count = 0 /\ bentered - bleft < Count
  BY DEF CountsOK, Destroys
<1>5. Cardinality(Coming) + Cardinality(Within) < Count /\ k < Count
  BY <1>2, <1>3, <1>4, CountWords
<1>6. bentered = Count * r + k
  <2>1. PICK c \in Nat : c = Count * r
    BY CountWords
  <2>2. bleft + Cardinality(Within) = c + Present
    BY <1>1, <2>1 DEF RoundsAre
  <2>3. bentered = c + k
    BY <1>2, <1>3, <1>4, <2>2
  <2> QED BY <2>1, <2>3
<1>7. k = 0
  <2>1. (Count * r + k) % Count = 0
    BY <1>4, <1>6, Zenon
  <2>2. Count \in Nat /\ Count > 0
    BY CountWords
  <2> HIDE <1>6
  <2> QED BY <1>5, <2>1, <2>2, NoPartRound
<1>8. Coming = {} /\ Present = 0
  BY <1>2, <1>3, <1>7, CallGroups
<1>9. ~Full /\ ~Emptying /\ ~Empty
  <2>1. Cardinality(Arrived) + Cardinality(Gone) < Count
    BY <1>3, <1>5, GroupsWithin, GroupsFinite, CountWords
  <2> QED BY <2>1, GroupsFinite, CountWords DEF Full, Emptying, Empty
<1>10. bword[BCount] = 0 /\ Arrived = {} /\ NoZero /\ Cardinality(Gone) <= Count
  <2>1. CASE Filling
    <3>1. bword[BCount] = 0
      BY <1>8, <2>1, CountWords DEF Filling, Present
    <3> QED BY <2>1, <3>1, GroupsFinite, CountWords DEF Filling
  <2>2. CASE Ending
    BY <2>2 DEF Ending
  <2> QED BY <1>9, <2>1, <2>2 DEF SharedOK
<1>11. NoHolder
  <2> SUFFICES ASSUME NEW u \in Threads, Holding(u) PROVE FALSE
    BY DEF NoHolder
  <2>1. ShapeAt(u) /\ u \notin Coming /\ u \notin Arrived
    BY <1>8, <1>10 DEF Shape
  <2>2. Heading(u) \notin {"block", "pcas", "parrived", "pleave"}
    BY <2>1 DEF Coming, Arrived
  <2>3. CASE pc[u] = "bunlock"
    <3>1. Heading(u) = "parrived"
      BY <2>1, <2>3, HeadingIs DEF ShapeAt, Heading, Locking
    <3> QED BY <2>2, <3>1
  <2>4. CASE pc[u] \in {"binst", "pcount"}
    BY <2>2, <2>4, HeadingIs DEF Heading
  <2> QED BY <2>3, <2>4 DEF Holding
<1>12. bword[BLock] = Cardinality(Gone)
  <2>1. CASE Filling
    BY <1>11, <2>1, GroupsFinite DEF Filling
  <2>2. CASE Ending
    BY <2>2 DEF Ending, Destroys
  <2> QED BY <1>9, <2>1, <2>2 DEF SharedOK
<1>13. /\ Heading(t) = "idle" /\ Heading(t)' = "destroy" /\ ~Holding(t)' /\ ~Zero(t)' /\ bword' = bword
       /\ bdestroy' = t /\ t # Null
  BY BarrierAssumption DEF Destroys, Turn, NoLock, Plain, BarrierAssumption
<1>14. Arrived' = Arrived /\ Gone' = Gone
  BY <1>13, OthersKept DEF Arrived, Gone
<1>15. NoHolder' /\ NoZero'
  BY <1>10, <1>11, <1>13, OthersKept DEF NoHolder, NoZero, Zero
<1>16. Ending'
  BY <1>10, <1>12, <1>13, <1>14, <1>15 DEF Ending
<1> QED BY <1>8, <1>16

\* When a private barrier is destroyed, nobody uses it or one of its instances.
LEMMA DestroysPrivate ==
  ASSUME BarrierTyped, Shape, NEW t \in Threads, ~bshared, PrivateOK, CountsOK, Destroys(t)
  PROVE  \A u \in Threads : Heading(u) \in {"idle", "destroy", "bfinishwake"}
<1>1. PICK r \in Nat : RoundsAre(r)
  BY DEF CountsOK
<1>2. /\ Cardinality(Coming) \in Nat /\ Cardinality(Within) \in Nat /\ Cardinality(Serial) \in Nat
      /\ bleft \in Nat /\ bentered \in Nat /\ bserials \in Nat
      /\ Present \in Nat /\ PresentSerial \in {0, 1} /\ PresentSerial <= Cardinality(Serial)
  BY CallGroups, PresentBounds DEF BarrierTyped
<1>3. /\ bentered = Cardinality(Coming) + Cardinality(Within) + bleft
      /\ bentered = bserials * Count
  BY DEF CountsOK, Destroys
<1>4. Cardinality(Coming) = 0 /\ Present = 0
  <2>1. PICK c \in Nat : c = Count * r
    BY CountWords
  <2>2. bleft + Cardinality(Within) = c + Present
    BY <1>1, <2>1 DEF RoundsAre
  <2>3. bserials <= r
    BY <1>1, <1>2 DEF RoundsAre
  <2>4. PICK e \in Nat : e = bserials * Count
    BY <1>2, CountWords
  <2>5. e <= c
    BY <1>2, <2>1, <2>3, <2>4, Product, CountWords
  <2> QED BY <1>2, <1>3, <2>2, <2>4, <2>5
<1>5. Coming = {} /\ binst = Null
  BY <1>4, CallGroups, PresentBounds
<1>6. bserials = r
  <2>1. PICK c \in Nat : c = Count * r
    BY CountWords
  <2>2. bleft + Cardinality(Within) = c
    BY <1>1, <1>2, <1>4, <2>1 DEF RoundsAre
  <2>3. bserials * Count = Count * r
    BY <1>2, <1>3, <1>4, <2>1, <2>2
  <2>4. bserials <= r
    BY <1>1, <1>2 DEF RoundsAre
  <2>5. ~(bserials + 1 <= r)
    <3>1. bserials + 1 <= r => Count * (bserials + 1) <= Count * r
      BY <1>2, Product, CountWords
    <3>2. Count * (bserials + 1) = Count * bserials + Count /\ bserials * Count = Count * bserials
          /\ Count * bserials \in Int
      BY <1>2, CountWords, SMT
    <3> QED BY <2>3, <3>1, <3>2, CountWords
  <2> QED BY <1>2, <2>4, <2>5
<1>7. Serial = {}
  <2>1. PresentSerial = 0
    BY <1>5 DEF PresentSerial
  <2> QED BY <1>1, <1>2, <1>6, <2>1, CallGroups DEF RoundsAre
<1>8. \A u \in Threads : Heading(u) \notin Owners /\ bmine[u] # u
  <2> SUFFICES ASSUME NEW u \in Threads PROVE Heading(u) \notin Owners /\ bmine[u] # u
    OBVIOUS
  <2>1. MineOK(u)
    BY DEF PrivateOK
  <2> QED BY <1>7, <2>1 DEF MineOK, Owners, Serial, Within
<1>9. \A u \in Threads : Heading(u) \notin Users \cup {"bfinish"}
  BY <1>8, UsedInstance
<1>10. \A u \in Threads : Heading(u) \in PrivateSteps /\ Heading(u) # "block"
  BY <1>5 DEF Shape, ShapeAt, Coming
<1> QED BY <1>8, <1>9, <1>10 DEF PrivateSteps

-----------------------------------------------------------------------------
\* What a step of a thread that does not begin a call may change.
LEMMA TurnsOf ==
  ASSUME NEW t \in Threads, Turns(t), ~Enters(t)
  PROVE  /\ left' = left
         /\ Heading(t)' \in {"block", "pcas"} => Heading(t)' = Heading(t)
         /\ Heading(t)' \in {"pleft", "punload"} => Heading(t) \in {"pleave", "pleft", "punload"}
         /\ Heading(t) \in {"idle", "destroy"} => Heading(t)' \in {"idle", "destroy"}
         /\ Heading(t) = "bfinishwake" => Heading(t)' \in {"idle", "bfinishwake"}
         /\ Heading(t) = "destroy" /\ Heading(t)' = "idle" => Destroyed(t)
         /\ bdestroy' # bdestroy => Destroys(t)
<1> USE DEF Turn
<1>1. CASE Quiet(t) \/ TakesLock(t) \/ GivesLock(t) \/ HasWoken(t)
  BY <1>1 DEF Quiet, TakesLock, GivesLock, HasWoken, Leaves
<1>2. CASE Destroys(t) \/ Marks(t) \/ Destroyed(t)
  BY <1>2 DEF Destroys, Marks, Destroyed
<1>3. CASE PrivateTurn(t)
  BY <1>3 DEF PrivateTurn, IsFirst, Arrives, OwnerWaits, OwnerPasses, OwnerLeaves, Opens, Passes,
              LeavesLast, LeavesOthers, Reports, Leaves
<1>4. CASE SharedTurn(t)
  BY <1>4 DEF SharedTurn, CountsIn, CountsInLast, Zeroes, SeesFull, SeesEmpty, CountsOut, GivesBack, Leaves
<1> QED BY <1>1, <1>2, <1>3, <1>4 DEF Turns

LEMMA DestroyerAlive ==
  ASSUME NEW t \in Threads, ShapeAt(t), Heading(t) = "destroy"
  PROVE  bdestroy = t /\ bdestroy # Null
BY BarrierAssumption DEF ShapeAt, BarrierAssumption

LEMMA SharedStep ==
  ASSUME BarrierTyped, Shape, NEW t \in Threads, Alone(t), Turns(t), CountsOK, DestroyOK, OneHolds,
         bshared, SharedOK
  PROVE  SharedOK' /\ (bdestroy' # Null => Ending')
<1>1. bdestroy # Null => Ending
  BY DEF DestroyOK
<1>2. CASE Quiet(t) \/ HasWoken(t) \/ Enters(t) \/ Destroyed(t)
  <2>1. bdestroy' = bdestroy
    BY <1>2 DEF Quiet, HasWoken, Enters, Destroyed, Leaves
  <2> QED BY <1>1, <1>2, <2>1, PhaseStill
<1>3. CASE TakesLock(t) \/ GivesLock(t)
  <2>1. bdestroy' = bdestroy
    BY <1>3 DEF TakesLock, GivesLock
  <2> QED BY <1>3, <2>1, LockPhase
<1>4. CASE CountsIn(t) \/ CountsInLast(t)
  <2>1. bdestroy' = bdestroy
    BY <1>4 DEF CountsIn, CountsInLast
  <2> QED BY <1>4, <2>1, InPhase
<1>5. CASE Zeroes(t)
  BY <1>5, ZeroesPhase DEF Zeroes
<1>6. CASE SeesFull(t) \/ SeesEmpty(t)
  <2>1. bdestroy' = bdestroy
    BY <1>6 DEF SeesFull, SeesEmpty
  <2> QED BY <1>6, <2>1, SeesPhase
<1>7. CASE CountsOut(t)
  BY <1>7, OutPhase DEF CountsOut
<1>8. CASE GivesBack(t)
  <2>1. bdestroy' = bdestroy
    BY <1>8 DEF GivesBack, Leaves
  <2> QED BY <1>8, <2>1, BackStep
<1>9. CASE Destroys(t)
  BY <1>9, DestroysShared DEF SharedOK
<1>10. CASE Marks(t)
  <2>1. bdestroy # Null /\ Ending
    BY <1>1, <1>10, DestroyerAlive DEF Marks, Turn, Shape
  <2> QED BY <1>10, <2>1, MarkPhase DEF SharedOK
<1>11. ~PrivateTurn(t)
  BY DEF PrivateTurn, IsFirst, Arrives, OwnerWaits, OwnerPasses, OwnerLeaves, Opens, Passes, LeavesLast,
         LeavesOthers, Reports
<1> QED BY <1>2, <1>3, <1>4, <1>5, <1>6, <1>7, <1>8, <1>9, <1>10, <1>11 DEF Turns, SharedTurn

LEMMA DestroyStep ==
  ASSUME BarrierTyped, BarrierTyped', Shape, NEW t \in Threads, Alone(t), ShapeAt(t)', Turns(t), CountsOK,
         DestroyOK, OneHolds, ~bshared => PrivateOK, bshared => SharedOK
  PROVE  DestroyOK'
<1> SUFFICES ASSUME bdestroy' # Null PROVE DestroyOK'
  BY DEF DestroyOK
<1>1. /\ \A u \in Threads \ {t} : Heading(u)' = Heading(u) /\ op'[u] = op[u] /\ left'[u] = left[u]
      /\ bshared' = bshared
  BY OthersKept DEF Alone
<1>2. bshared => Ending'
  BY SharedStep
<1>3. CASE bdestroy = Null
  <2>1. Destroys(t) /\ bdestroy' = t /\ ~Enters(t) /\ left' = left /\ \A u \in Threads : left[u] = 0
    BY <1>3, TurnsOf DEF Enters, Destroys
  <2>2. Heading(t)' = "destroy" /\ op'[t] = "destroy"
    BY <2>1 DEF Destroys, Turn, ShapeAt
  <2>3. CASE bshared
    <3>1. \A u \in Threads : Heading(u) \notin {"block", "pcas"}
      BY <2>1, <2>3, DestroysShared DEF Coming
    <3> QED BY <1>1, <1>2, <2>1, <2>2, <2>3, <3>1 DEF DestroyOK
  <2>4. CASE ~bshared
    <3>1. \A u \in Threads : Heading(u) \in {"idle", "destroy", "bfinishwake"}
      BY <2>1, <2>4, DestroysPrivate
    <3> QED BY <1>1, <2>1, <2>2, <2>4, <3>1 DEF DestroyOK
  <2> QED BY <2>3, <2>4
<1>4. CASE bdestroy # Null
  <2>1. /\ op[bdestroy] \in {"none", "destroy"}
        /\ \A u \in Threads : left[u] = 0 /\ Heading(u) \notin {"block", "pcas"}
        /\ ~bshared => \A u \in Threads : Heading(u) \in {"idle", "destroy", "bfinishwake"}
        /\ bshared => Ending /\ (op[bdestroy] = "none" => Gone = {})
    BY <1>4 DEF DestroyOK
  <2>2. ~Enters(t) /\ ~Destroys(t) /\ bdestroy' = bdestroy /\ bdestroy \in Threads
    BY <1>4, <2>1, TurnsOf DEF Enters, Destroys, BarrierTyped
  <2>3. left' = left /\ (Heading(t)' \in {"block", "pcas"} => Heading(t)' = Heading(t))
    BY <2>2, TurnsOf
  <2>4. \A u \in Threads : left'[u] = 0 /\ Heading(u)' \notin {"block", "pcas"}
    BY <1>1, <2>1, <2>3
  <2>5. ~bshared => \A u \in Threads : Heading(u)' \in {"idle", "destroy", "bfinishwake"}
    BY <1>1, <2>1, <2>2, TurnsOf
  <2>6. op'[bdestroy] \in {"none", "destroy"}
    <3>1. CASE bdestroy # t
      BY <1>1, <2>1, <2>2, <3>1
    <3>2. CASE bdestroy = t
      <4>1. Heading(t) \in {"idle", "destroy"}
        BY <2>1, <3>2 DEF Shape, ShapeAt
      <4>2. Heading(t)' \in {"idle", "destroy"}
        BY <2>2, <4>1, TurnsOf
      <4> QED BY <3>2, <4>2 DEF ShapeAt
    <3> QED BY <3>1, <3>2
  <2>7. ASSUME bshared, op'[bdestroy] = "none" PROVE Gone' = {}
    <3>1. Gone = {}
      <4>1. CASE op[bdestroy] = "none"
        BY <2>1, <2>7, <4>1
      <4>2. CASE op[bdestroy] = "destroy"
        <5>1. bdestroy = t
          BY <1>1, <2>2, <2>7, <4>2
        <5>2. Heading(t) = "destroy" /\ Heading(t)' = "idle"
          BY <2>7, <4>2, <5>1 DEF Shape, ShapeAt
        <5>3. bword[BLock] \in {0, INT_MIN}
          BY <2>2, <2>7, <5>2, TurnsOf DEF Destroyed
        <5>4. Cardinality(Gone) = 0
          BY <2>1, <2>7, <5>3, GroupsFinite, CountWords DEF Ending
        <5> QED BY <5>4, GroupsFinite
      <4> QED BY <2>1, <4>1, <4>2
    <3>2. Arrived = {}
      BY <2>1, <2>7 DEF Ending
    <3>3. Heading(t)' \notin {"pleft", "punload"}
      BY <2>2, <3>1, <3>2, TurnsOf DEF Arrived, Gone
    <3> QED BY <1>1, <3>1, <3>3 DEF Gone
  <2> QED BY <1>1, <1>2, <2>2, <2>4, <2>5, <2>6, <2>7 DEF DestroyOK
<1> QED BY <1>3, <1>4

-----------------------------------------------------------------------------
(* The invariant *)
LEMMA InvInit ==
  ASSUME ThreadsInit(BarrierCalls), BarrierInit
  PROVE  BarrierInv
<1>1. \A t \in Threads : Heading(t) = "idle" /\ op[t] = "none" /\ pc[t] = "idle" /\ bmine[t] = Null
  BY HeadingIs DEF ThreadsInit, BarrierInit, Heading
<1>2. BarrierTyped
  <2>1. pc \in [Threads -> Labels] /\ op \in [Threads -> {"none", "barrier", "destroy"}]
    BY LabelsAre DEF ThreadsInit
  <2>2. left \in [Threads -> Nat]
    BY BarrierAssumption DEF ThreadsInit, BarrierAssumption
  <2>3. bwait \in [Threads -> WaitRecords]
    BY WaitsAre DEF BarrierInit
  <2> QED BY <2>1, <2>2, <2>3 DEF BarrierInit, BarrierTyped
<1>3. Shape
  <2> SUFFICES ASSUME NEW t \in Threads PROVE ShapeAt(t)
    BY DEF Shape
  <2>1. pc[t] \notin Locking \cup Zeroing \cup Waits \cup {"bsleepuncounted", "destroyor", "destroyload"}
    BY <1>1 DEF Locking, Zeroing, Waits
  <2> QED BY <1>1, <2>1 DEF ShapeAt, SharedSteps, PrivateSteps
<1>4. Coming = {} /\ Within = {} /\ Serial = {} /\ Arrived = {} /\ Gone = {} /\ NoHolder /\ NoZero
  BY <1>1 DEF Coming, Within, Serial, Arrived, Gone, NoHolder, NoZero, Holding
<1>5. CountsOK
  <2>1. Cardinality(Coming) = 0 /\ Cardinality(Within) = 0 /\ Cardinality(Serial) = 0
    BY <1>4, FS_EmptySet
  <2>2. Present = 0 /\ PresentSerial = 0
    BY Words DEF BarrierInit, Present, PresentSerial
  <2>3. bentered = 0 /\ bleft = 0 /\ bserials = 0
    BY DEF BarrierInit
  <2>4. Count * 0 = 0
    BY BarrierAssumption DEF BarrierAssumption
  <2>5. RoundsAre(0)
    BY <2>1, <2>2, <2>3, <2>4 DEF RoundsAre
  <2> QED BY <2>1, <2>3, <2>5 DEF CountsOK
<1>6. DestroyOK /\ OneHolds
  BY <1>4 DEF DestroyOK, BarrierInit, OneHolds, NoHolder
<1>7. PrivateOK
  <2>1. \A t \in Threads : MineOK(t) /\ bmine[t] # t
    BY <1>1, BarrierAssumption DEF MineOK, Owners, Users, BarrierAssumption
  <2> QED BY <1>4, <2>1 DEF PrivateOK, NoHolder, BarrierInit
<1>8. Filling
  <2>1. bword[BCount] = 0 /\ bword[BLock] = 0 /\ Cardinality(Arrived) = 0
    BY <1>4, Words, FS_EmptySet DEF BarrierInit
  <2>2. bword[BCount] \in 0 .. Count - 1
    BY <2>1, BarrierAssumption DEF BarrierAssumption
  <2> QED BY <1>4, <2>1, <2>2 DEF Filling, BarrierInit
<1> QED BY <1>2, <1>3, <1>5, <1>6, <1>7, <1>8 DEF BarrierInv, SharedOK

LEMMA InvStep ==
  ASSUME BarrierInv, NEW t \in Threads, BarrierStep(t) \/ BarrierCall(t) \/ DestroyCall(t)
  PROVE  BarrierInv'
<1>1. /\ BarrierTyped /\ Shape /\ ShapeAt(t) /\ CountsOK /\ DestroyOK /\ OneHolds
      /\ (~bshared => PrivateOK) /\ (bshared => SharedOK)
  BY DEF BarrierInv, Shape
<1>2. pc[t] \in {"blast", "bothers", "bexit", "bfinish"} => bmine[t] \in Threads
  <2> SUFFICES ASSUME pc[t] \in {"blast", "bothers", "bexit", "bfinish"} PROVE bmine[t] \in Threads
    OBVIOUS
  <2>1. Heading(t) = pc[t]
    BY HeadingIs DEF Heading
  <2>2. ~bshared
    BY <1>1, <2>1 DEF ShapeAt, SharedSteps
  <2> QED BY <1>1, <2>1, <2>2, UsedInstance DEF Users
<1>3. BarrierTyped'
  BY <1>1, <1>2, TypedStep
<1>4. Alone(t) /\ ShapeAt(t)' /\ Turns(t)
  BY <1>1, AloneStep, ShapeStep, TurnStep
<1>5. Shape'
  BY <1>1, <1>4, ShapeKept
<1>6. CountsOK' /\ OneHolds'
  BY <1>1, <1>3, <1>4, CountsStep, HoldsStep
<1>7. DestroyOK'
  BY <1>1, <1>3, <1>4, DestroyStep
<1>8. ~bshared => PrivateOK'
  BY <1>1, <1>4, PrivateStep
<1>9. bshared => SharedOK'
  BY <1>1, <1>4, SharedStep
<1>10. bshared' = bshared
  BY <1>4 DEF Alone
<1> QED BY <1>3, <1>5, <1>6, <1>7, <1>8, <1>9, <1>10 DEF BarrierInv

LEMMA InvStutter ==
  ASSUME BarrierInv, UNCHANGED <<threadVars, barrierVars>>
  PROVE  BarrierInv'
<1>1. /\ pc' = pc /\ op' = op /\ left' = left /\ bshared' = bshared /\ bword' = bword /\ bwaiters' = bwaiters
      /\ binst' = binst /\ bcount' = bcount /\ bmine' = bmine /\ bwait' = bwait /\ bserial' = bserial
      /\ bentered' = bentered /\ bleft' = bleft /\ bserials' = bserials /\ bdestroy' = bdestroy
  BY DEF threadVars, barrierVars, bObject, bLocals, bHistory
<1>2. BarrierTyped'
  BY <1>1 DEF BarrierInv, BarrierTyped
<1>3. \A t \in Threads : Heading(t)' = Heading(t) /\ (Holding(t)' <=> Holding(t)) /\ (Zero(t)' <=> Zero(t))
  BY <1>1 DEF Heading, Holding, Zero
<1>4. Shape'
  BY <1>1, <1>3 DEF BarrierInv, Shape, ShapeAt
<1>5. Coming' = Coming /\ Within' = Within /\ Serial' = Serial /\ Arrived' = Arrived /\ Gone' = Gone
  BY <1>1, <1>3 DEF Coming, Within, Serial, Arrived, Gone
<1>6. CountsOK'
  BY <1>1, <1>5 DEF BarrierInv, CountsOK, RoundsAre, Present, PresentSerial
<1>7. OneHolds'
  BY <1>3 DEF BarrierInv, OneHolds
<1>8. /\ (Filling => Filling') /\ (Full => Full') /\ (Emptying => Emptying') /\ (Empty => Empty')
      /\ (Ending => Ending')
  <2>1. \A u \in Arrived \cup Gone : Heading(u)' = Heading(u)
    BY <1>3 DEF Arrived, Gone
  <2> QED BY <1>1, <1>3, <1>5, <2>1, PhaseKept
<1>9. bshared => SharedOK'
  BY <1>8 DEF BarrierInv, SharedOK
<1>10. DestroyOK'
  BY <1>1, <1>3, <1>5, <1>8 DEF BarrierInv, DestroyOK
<1>11. ASSUME PrivateOK PROVE PrivateOK'
  <2>1. \A t \in Threads : Holding(t)' => bword'[BLock] = 1
    BY <1>1, <1>3, <1>11 DEF PrivateOK
  <2>2. \A t \in Threads : MineOK(t)'
    BY <1>1, <1>3, <1>11 DEF PrivateOK, MineOK
  <2>3. ASSUME NEW o \in Threads, bmine'[o] = o PROVE InstanceOK(o)'
    <3>1. InstanceOK(o)
      BY <1>1, <1>11, <2>3 DEF PrivateOK
    <3>2. Inside(o)' = Inside(o) /\ Finishing(o)' = Finishing(o)
      BY <1>1, <1>3 DEF Inside, Finishing
    <3>3. \A u \in Inside(o) : Heading(u)' = Heading(u)
      BY <1>3 DEF Inside
    <3> QED BY <1>1, <1>3, <3>1, <3>2, <3>3, InstanceKept
  <2> QED BY <1>1, <1>11, <2>1, <2>2, <2>3 DEF PrivateOK
<1> QED BY <1>1, <1>2, <1>4, <1>6, <1>7, <1>9, <1>10, <1>11 DEF BarrierInv

LEMMA InvRounds ==
  ASSUME BarrierInv
  PROVE  BarrierRounds
<1>1. /\ BarrierTyped /\ Shape /\ CountsOK /\ (~bshared => PrivateOK) /\ (bshared => SharedOK)
  BY DEF BarrierInv
<1>2. PICK r \in Nat : RoundsAre(r)
  BY <1>1 DEF CountsOK
<1>3. /\ Cardinality(Coming) \in Nat /\ Cardinality(Within) \in Nat /\ Cardinality(Serial) \in Nat
      /\ bleft \in Nat /\ bentered \in Nat /\ bserials \in Nat
      /\ Present \in Nat /\ Present <= Cardinality(Within)
      /\ PresentSerial \in {0, 1} /\ PresentSerial <= Cardinality(Serial)
  BY <1>1, CallGroups, PresentBounds DEF BarrierTyped
<1>4. PICK c \in Nat : c = Count * r
  BY BarrierAssumption DEF BarrierAssumption
<1>5. bleft + Cardinality(Within) = c + Present /\ bserials + Cardinality(Serial) = r + PresentSerial
  BY <1>2, <1>4 DEF RoundsAre
<1>6. bentered = Cardinality(Coming) + Cardinality(Within) + bleft
  BY <1>1 DEF CountsOK
<1>7. bleft <= c /\ c <= bentered /\ bserials <= r
  BY <1>3, <1>5, <1>6
<1>8. Count \in Nat /\ Count > 0
  BY BarrierAssumption DEF BarrierAssumption
<1>9. PICK q \in Nat : q = bentered \div Count /\ r <= q
  <2>1. Count * r <= bentered
    BY <1>4, <1>7
  <2> QED BY <1>3, <1>8, <2>1, WholeRounds
<1>10. PICK e \in Int : e = Count * q /\ c <= e
  BY <1>4, <1>8, <1>9, Product
<1>11. bleft <= Count * (bentered \div Count)
  <2>1. bleft <= e
    BY <1>3, <1>7, <1>10
  <2> QED BY <1>9, <1>10, <2>1, Zenon
<1>12. bserials <= bentered \div Count
  <2>1. bserials <= q
    BY <1>3, <1>7, <1>9
  <2> QED BY <1>9, <2>1, Zenon
<1>13. ASSUME \A t \in Threads : op[t] # "barrier" PROVE bserials * Count = bleft
  <2>1. Within = {}
    BY <1>1, <1>13 DEF BarrierTyped, Shape, ShapeAt, Within
  <2>2. Cardinality(Within) = 0 /\ Cardinality(Serial) = 0
    BY <2>1, CallGroups DEF Serial
  <2>3. bleft = c /\ bserials = r
    BY <1>3, <1>5, <2>2
  <2> QED BY <1>4, <1>8, <2>3, Product
<1> QED BY <1>11, <1>12, <1>13 DEF BarrierRounds

\* Whoever uses the barrier is in the middle of a call that has to.
LEMMA UserHeading ==
  ASSUME NEW t \in Threads, ShapeAt(t), UsesBarrier(t)
  PROVE  Heading(t) \notin {"idle", "destroy", "bfinishwake", "punwake"}
<1>1. CASE pc[t] \in {"block", "binst", "pcas", "pcount", "parrived", "pleave", "pleft", "punload", "punwaiters", "puncas"}
  BY <1>1, HeadingIs DEF Heading
<1>2. CASE pc[t] \in {"bunlock", "bwaiters"}
  <2>1. bwait[t].then \in {"parrived", "bownerinc", "blast", "bothers"}
    BY <1>2 DEF ShapeAt, Locking
  <2> QED BY <1>2, <2>1, HeadingIs DEF Heading
<1>3. CASE pc[t] \in {"pzero", "pwaiters2"}
  <2>1. bwait[t].then \in {"pleave", "punload"}
    BY <1>3 DEF ShapeAt, Zeroing
  <2> QED BY <1>3, <2>1, HeadingIs DEF Heading
<1>4. CASE pc[t] \in {"bwait", "bsleep", "bdec"}
  <2>1. bwait[t].then \in {"pcas", "parrived", "pleft", "block", "bexit"}
    BY <1>4 DEF ShapeAt, Waits
  <2> QED BY <1>4, <2>1, HeadingIs DEF Heading
<1> QED BY <1>1, <1>2, <1>3, <1>4 DEF UsesBarrier

LEMMA OwnerInCall ==
  ASSUME BarrierTyped, Shape, PrivateOK, NEW o \in Threads, bmine[o] = o
  PROVE  op[o] = "barrier"
<1>1. MineOK(o) /\ ShapeAt(o) /\ op[o] \in {"none", "barrier", "destroy"}
  BY DEF PrivateOK, Shape, BarrierTyped
<1> QED BY <1>1 DEF MineOK, ShapeAt, Owners

LEMMA InvMemory ==
  ASSUME BarrierInv
  PROVE  BarrierMemoryAlive
<1>1. /\ BarrierTyped /\ Shape /\ DestroyOK /\ (~bshared => PrivateOK) /\ (bshared => SharedOK)
  BY DEF BarrierInv
<1> SUFFICES ASSUME NEW t \in Threads
             PROVE  /\ UsesInstance(t) =>
                         LET o == IF pc[t] = "binst" THEN binst ELSE bmine[t]
                         IN op[o] = "barrier" /\ bmine[o] = o
                    /\ UsesBarrier(t) => ~(bdestroy # Null /\ op[bdestroy] = "none")
  BY DEF BarrierMemoryAlive
<1>2. ShapeAt(t)
  BY <1>1 DEF Shape
<1>3. ASSUME pc[t] # "binst", Heading(t) \in Users \cup {"bfinish"}
      PROVE  op[bmine[t]] = "barrier" /\ bmine[bmine[t]] = bmine[t]
  <2>1. ~bshared
    BY <1>2, <1>3 DEF ShapeAt, SharedSteps, Users
  <2>2. bmine[t] \in Threads /\ bmine[bmine[t]] = bmine[t]
    BY <1>1, <1>3, <2>1, UsedInstance
  <2> QED BY <1>1, <2>1, <2>2, OwnerInCall
<1>4. ASSUME pc[t] \in {"blast", "blastwaiters", "bothers", "bexit", "bfinish"}
      PROVE  op[bmine[t]] = "barrier" /\ bmine[bmine[t]] = bmine[t] /\ pc[t] # "binst"
  <2>1. Heading(t) \in Users \cup {"bfinish"}
    BY <1>4, HeadingIs DEF Heading, Users
  <2> QED BY <1>3, <1>4, <2>1
<1>5. ASSUME pc[t] \in {"bwait", "bsleep", "bdec"}, bwait[t].on[1] = "last"
      PROVE  op[bmine[t]] = "barrier" /\ bmine[bmine[t]] = bmine[t] /\ pc[t] # "binst"
  <2>1. bwait[t].on # BLock /\ bwait[t].on # BCount
    BY <1>5 DEF BLock, BCount
  <2>2. bwait[t].then = "bexit"
    BY <1>2, <1>5, <2>1 DEF ShapeAt, Waits
  <2>3. Heading(t) \in Users
    BY <1>5, <2>2, HeadingIs DEF Heading, Users
  <2> QED BY <1>3, <1>5, <2>3
<1>6. ASSUME pc[t] = "binst", binst # Null
      PROVE  op[binst] = "barrier" /\ bmine[binst] = binst
  <2>1. Heading(t) = "block"
    BY <1>6, HeadingIs DEF Heading
  <2>2. ~bshared
    BY <1>2, <2>1 DEF ShapeAt, SharedSteps
  <2>3. binst \in Threads /\ bmine[binst] = binst
    BY <1>1, <1>6, <2>2 DEF BarrierTyped, PrivateOK
  <2> QED BY <1>1, <1>6, <2>2, <2>3, OwnerInCall
<1>7. UsesInstance(t) =>
         LET o == IF pc[t] = "binst" THEN binst ELSE bmine[t] IN op[o] = "barrier" /\ bmine[o] = o
  BY <1>4, <1>5, <1>6 DEF UsesInstance
<1>8. ASSUME UsesBarrier(t), bdestroy # Null, op[bdestroy] = "none" PROVE FALSE
  <2>1. Heading(t) \notin {"idle", "destroy", "bfinishwake", "punwake"}
    BY <1>2, <1>8, UserHeading
  <2>2. CASE ~bshared
    BY <1>1, <1>8, <2>1, <2>2 DEF DestroyOK
  <2>3. CASE bshared
    <3>1. Heading(t) # "pcas" /\ Arrived = {} /\ Gone = {}
      BY <1>1, <1>8, <2>3 DEF DestroyOK, Ending
    <3>2. Heading(t) \in SharedSteps
      BY <1>2, <2>3 DEF ShapeAt
    <3> QED BY <2>1, <3>1, <3>2 DEF SharedSteps, Arrived, Gone
  <2> QED BY <2>2, <2>3
<1> QED BY <1>7, <1>8

\* The invariant holds in every state the barrier reaches, whatever the
\* interleaving of waits, wakes, rounds and destruction.
THEOREM BarrierInvariant == BarrierSpec => []BarrierInv
<1>1. ThreadsInit(BarrierCalls) /\ BarrierInit => BarrierInv
  BY InvInit
<1>2. BarrierInv /\ [BarrierNext]_<<threadVars, barrierVars>> => BarrierInv'
  BY InvStep, InvStutter DEF BarrierNext
<1> QED BY <1>1, <1>2, PTL DEF BarrierSpec

\* pthread_barrier_wait holds the threads of a round until Count have come and
\* returns PTHREAD_BARRIER_SERIAL_THREAD to one of them, in every round and for
\* every Count, also when the next round arrives while this one still leaves.
THEOREM RoundsCorrect == BarrierSpec => []BarrierRounds
<1>1. BarrierInv => BarrierRounds
  BY InvRounds
<1> QED BY <1>1, BarrierInvariant, PTL

\* pthread_barrier_wait touches the instance only while the thread on whose
\* stack it lies is in the call, and the barrier only while
\* pthread_barrier_destroy has not returned.
THEOREM MemoryAlive == BarrierSpec => []BarrierMemoryAlive
<1>1. BarrierInv => BarrierMemoryAlive
  BY InvMemory
<1> QED BY <1>1, BarrierInvariant, PTL

=============================================================================
