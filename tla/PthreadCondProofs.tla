-------------------------- MODULE PthreadCondProofs --------------------------
(***************************************************************************)
(* Proofs about PthreadCond, for any finite set of threads, each of which  *)
(* may wait, signal or do both.                                            *)
(*                                                                         *)
(* The waiter nodes form lists: the one of the condition variable, one for *)
(* each signaller that has split a group off and still waits for leaving   *)
(* waiters, and the groups that were let go.  The invariant says that      *)
(* there are an assignment of the nodes to these lists (grp) and an order  *)
(* (age) with which all links, states, barriers and counters agree.        *)
(***************************************************************************)
EXTENDS PthreadCond, FiniteSetTheorems, WellFoundedInduction, TLAPS

\* Steps under the lock of the condition variable, and steps of taking a lock.
CvHolding == {"register", "remove", "sigstart", "sigloop", "unlock"}
Taking == {"cas", "mark", "lockwait", "retry"}

StepsOf(j) ==
  CASE j = "none" -> {"idle"}
    [] j = "register" -> Taking \cup {"register", "unlock", "unlockwake", "release", "wait", "claim"}
    [] j = "remove" -> Taking \cup {"remove", "unlock", "unlockwake", "notify", "notifywake", "relock", "done"}
    [] j = "barrier" -> Taking \cup {"relock", "pass", "passwake", "done"}
    [] j = "signal" -> Taking \cup {"sigstart", "sigloop", "unlock", "unlockwake", "drain", "first",
                                    "firstwake", "sigdone"}

Jobs == {"none", "register", "remove", "barrier", "signal"}

CondTypeOK ==
  /\ job \in [Threads -> Jobs]
  /\ pc \in [Threads -> UNION {StepsOf(j) : j \in Jobs}]
  /\ word \in [Threads \cup {Cv} -> 0 .. 2]
  /\ head \in Threads \cup {None} /\ tail \in Threads \cup {None}
  /\ prev \in [Threads -> Threads \cup {None}] /\ next \in [Threads -> Threads \cup {None}]
  /\ state \in [Threads -> {"none", WAITING, SIGNALED, LEAVING}]
  /\ notify \in [Threads -> Threads \cup {None}]
  /\ n \in [Threads -> Int] /\ ref \in [Threads -> Int]
  /\ p \in [Threads -> Threads \cup {None}] /\ first \in [Threads -> Threads \cup {None}]
  /\ mwaiters \in Int

\* The node of t is in a list: it has registered, and has neither taken itself
\* out nor passed the wake-up on.
Member(t) ==
  \/ job[t] = "register" /\ pc[t] \in {"unlock", "unlockwake", "release", "wait", "claim"}
  \/ job[t] = "remove" /\ pc[t] \in Taking \cup {"remove"}
  \/ job[t] = "barrier" /\ pc[t] \in Taking \cup {"relock", "pass"}

\* Nobody has opened its barrier yet.
Closed(t) == word[t] = 2 /\ pc[t] \notin {"relock", "pass"}

CallOK ==
  \A t \in Threads :
    /\ pc[t] \in StepsOf(job[t])
    /\ job[t] = "barrier" => state[t] = SIGNALED
    /\ job[t] = "remove" => state[t] = LEAVING
    /\ job[t] = "register" /\ Member(t) => state[t] \in {WAITING, SIGNALED}
    /\ Member(t) /\ word[t] = 1 => pc[t] \in {"relock", "pass"}
    /\ pc[t] = "notify" => notify[t] # None
    /\ pc[t] \in {"first", "firstwake"} => first[t] # None

CvLockOK ==
  /\ \A t, u \in Threads : pc[t] \in CvHolding /\ pc[u] \in CvHolding => t = u
  /\ \A t \in Threads : pc[t] \in CvHolding => word[Cv] # 0

\* A node that is in no list is not half in one.
Outside ==
  \A t \in Threads : ~Member(t) =>
    \/ prev[t] = None
    \/ job[t] = "barrier"
    \/ job[t] = "remove" /\ next[prev[t]] # t

\* The steps of a signal: before it looks at the list, in the list, after it.
Early(s) == job[s] = "signal" /\ pc[s] \in Taking \cup {"sigstart"}
Looping(s) == pc[s] = "sigloop"
Split(s) == job[s] = "signal" /\ pc[s] \in {"unlock", "unlockwake", "drain", "first"}

\* It counts the leaving waiters, which report to it.
Counting(s) == Looping(s) \/ (Split(s) /\ pc[s] # "first")
Reporting(t) ==
  job[t] = "remove" /\ pc[t] \in Taking \cup {"remove", "unlock", "unlockwake", "notify"}

\* The leaving waiters that s has met and that have not reported.
Pending(s) == {t \in Threads : Reporting(t) /\ notify[t] = s}

RefOK ==
  \A s \in Threads :
    /\ ref[s] = Cardinality(Pending(s))
    /\ Pending(s) # {} => Counting(s)

\* Waiters of a group that come after the first and have the wake-up.
Carrying == {t \in Threads : Member(t) /\ state[t] = SIGNALED /\ ~Closed(t) /\ next[t] # None}

CarryOK == mwaiters = Cardinality(Carrying)

BasicInv == CondTypeOK /\ CallOK /\ CvLockOK

-----------------------------------------------------------------------------
\* grp[t] says in which list t is: None the one of the condition variable, s
\* the one s has split off, Cv one whose first waiter was let go.  age grows
\* from the oldest node of a list to the newest.
GhostOK(grp, age, now) ==
  /\ grp \in [Threads -> Threads \cup {None, Cv}]
  /\ age \in [Threads -> Nat] /\ now \in Nat
  /\ \A t \in Threads : age[t] < now

LinksOK(grp, age) ==
  \A t \in Threads : Member(t) =>
    /\ prev[t] # None =>
         /\ Member(prev[t]) /\ next[prev[t]] = t
         /\ grp[prev[t]] = grp[t] /\ age[prev[t]] > age[t]
    /\ next[t] # None /\ (grp[t] # Cv \/ Closed(t)) =>
         Member(next[t]) /\ prev[next[t]] = t

OrderOK(grp, age) ==
  \A t, u \in Threads : Member(t) /\ Member(u) /\ grp[t] = grp[u] /\ grp[t] # Cv =>
    /\ age[t] = age[u] => t = u
    /\ age[u] < age[t] => next[t] # None /\ age[u] <= age[next[t]]
    /\ age[u] > age[t] => prev[t] # None /\ age[u] >= age[prev[t]]

EndsOK(grp) ==
  /\ head # None => Member(head) /\ grp[head] = None /\ prev[head] = None
  /\ tail # None => Member(tail) /\ grp[tail] = None /\ next[tail] = None
  /\ \A t \in Threads : Member(t) /\ grp[t] = None => head # None /\ tail # None

\* Signaller s has met the node of t.
Met(grp, age, s, t) ==
  /\ Member(t)
  /\ \/ grp[t] = s
     \/ grp[t] = None /\ Looping(s) /\ (p[s] = None \/ age[t] < age[p[s]])

MetOK(grp, age) ==
  /\ \A s \in Threads :
       Looping(s) /\ p[s] # None => Member(p[s]) /\ grp[p[s]] = None
  /\ \A s, t \in Threads : Met(grp, age, s, t) =>
       state[t] = SIGNALED \/ (state[t] = LEAVING /\ notify[t] = s)
  /\ \A t \in Threads : Member(t) /\ grp[t] = None /\ (\A s \in Threads : ~Met(grp, age, s, t)) =>
       state[t] # SIGNALED /\ notify[t] = None
  /\ \A s, t \in Threads : Member(t) /\ grp[t] = s => Split(s)
  /\ \A t \in Threads : Member(t) /\ grp[t] # Cv => Closed(t)

FirstOK(grp, age) ==
  \A s \in Threads :
    /\ Early(s) => first[s] = None
    /\ Looping(s) \/ Split(s) =>
         /\ first[s] # None => Met(grp, age, s, first[s]) /\ state[first[s]] = SIGNALED
         /\ \A t \in Threads :
              Met(grp, age, s, t) /\ (first[s] = None \/ age[t] < age[first[s]]) => state[t] = LEAVING

\* In a group that was let go every waiter but the one that has the wake-up is
\* behind one that has not passed it on.
HandOverOK(grp) ==
  \A t \in Threads : Member(t) /\ grp[t] = Cv =>
    /\ state[t] = SIGNALED
    /\ prev[t] # None => Closed(prev[t])
    /\ Closed(t) => next[t] # None

ListsOK(grp, age, now) ==
  /\ GhostOK(grp, age, now) /\ LinksOK(grp, age) /\ OrderOK(grp, age) /\ EndsOK(grp)
  /\ MetOK(grp, age) /\ FirstOK(grp, age) /\ HandOverOK(grp)

CondInv ==
  /\ BasicInv /\ Outside /\ RefOK /\ CarryOK
  /\ \E grp, age, now : ListsOK(grp, age, now)

-----------------------------------------------------------------------------
LEMMA BasicInit == Init => BasicInv
BY CondAssumption DEF CondAssumption, Init, BasicInv, CondTypeOK, CallOK, CvLockOK, CvHolding, Member,
   Taking, StepsOf, Jobs

LEMMA BasicNext == BasicInv /\ [Next]_vars => BasicInv'
<1> SUFFICES ASSUME BasicInv, [Next]_vars PROVE BasicInv'
  OBVIOUS
<1> USE CondAssumption DEF CondAssumption, BasicInv, WAITING, SIGNALED, LEAVING, Jobs
<1>1. ASSUME NEW t \in Threads, LockCas(t) PROVE BasicInv'
  <2> USE <1>1 DEF LockCas, Body, Target, Goto, cvVars, nodes, sig, mutex, count
  <2>1. CondTypeOK'
    BY DEF CondTypeOK, CallOK, StepsOf, Taking
  <2>2. CallOK'
    BY DEF CondTypeOK, CallOK, StepsOf, Taking, Member
  <2>3. CvLockOK'
    BY DEF CondTypeOK, CallOK, StepsOf, Taking, CvLockOK, CvHolding
  <2> QED BY <2>1, <2>2, <2>3
<1>2. ASSUME NEW t \in Threads, LockMark(t) PROVE BasicInv'
  <2> USE <1>2 DEF LockMark, Target, Goto, cvVars, nodes, sig, mutex, count
  <2>1. CondTypeOK'
    BY DEF CondTypeOK, CallOK, StepsOf, Taking
  <2>2. CallOK'
    BY DEF CondTypeOK, CallOK, StepsOf, Taking, Member
  <2>3. CvLockOK'
    BY DEF CondTypeOK, CallOK, StepsOf, Taking, CvLockOK, CvHolding
  <2> QED BY <2>1, <2>2, <2>3
<1>3. ASSUME NEW t \in Threads, LockWait(t) PROVE BasicInv'
  <2> USE <1>3 DEF LockWait, Target, Goto, cvVars, nodes, sig, mutex, count
  <2>1. CondTypeOK'
    BY DEF CondTypeOK, CallOK, StepsOf, Taking
  <2>2. CallOK'
    BY DEF CondTypeOK, CallOK, StepsOf, Taking, Member
  <2>3. CvLockOK'
    BY DEF CondTypeOK, CallOK, StepsOf, Taking, CvLockOK, CvHolding
  <2> QED BY <2>1, <2>2, <2>3
<1>4. ASSUME NEW t \in Threads, LockRetry(t) PROVE BasicInv'
  <2> USE <1>4 DEF LockRetry, Body, Target, Goto, cvVars, nodes, sig, mutex, count
  <2>1. CondTypeOK'
    BY DEF CondTypeOK, CallOK, StepsOf, Taking
  <2>2. CallOK'
    BY DEF CondTypeOK, CallOK, StepsOf, Taking, Member
  <2>3. CvLockOK'
    BY DEF CondTypeOK, CallOK, StepsOf, Taking, CvLockOK, CvHolding
  <2> QED BY <2>1, <2>2, <2>3
<1>5. ASSUME NEW t \in Threads, Unlock(t) PROVE BasicInv'
  <2> USE <1>5 DEF Unlock, AfterUnlock, Goto, cvVars, nodes, sig, mutex, count
  <2>1. CondTypeOK'
    BY DEF CondTypeOK, CallOK, StepsOf, Taking
  <2>2. CallOK'
    BY DEF CondTypeOK, CallOK, StepsOf, Taking, Member
  <2>3. CvLockOK'
    BY DEF CondTypeOK, CallOK, StepsOf, Taking, CvLockOK, CvHolding
  <2> QED BY <2>1, <2>2, <2>3
<1>6. ASSUME NEW t \in Threads, UnlockWake(t) PROVE BasicInv'
  <2> USE <1>6 DEF UnlockWake, AfterUnlock, Goto, cvVars, nodes, sig, mutex, count
  <2>1. CondTypeOK'
    BY DEF CondTypeOK, CallOK, StepsOf, Taking
  <2>2. CallOK'
    BY DEF CondTypeOK, CallOK, StepsOf, Taking, Member
  <2>3. CvLockOK'
    BY DEF CondTypeOK, CallOK, StepsOf, Taking, CvLockOK, CvHolding
  <2> QED BY <2>1, <2>2, <2>3
<1>7. ASSUME NEW t \in Threads, CallWait(t) PROVE BasicInv'
  <2> USE <1>7 DEF CallWait, Goto, cvVars, nodes, sig, mutex, count
  <2>1. CondTypeOK'
    BY DEF CondTypeOK, CallOK, StepsOf, Taking
  <2>2. CallOK'
    BY DEF CondTypeOK, CallOK, StepsOf, Taking, Member
  <2>3. CvLockOK'
    BY DEF CondTypeOK, CallOK, StepsOf, Taking, CvLockOK, CvHolding
  <2> QED BY <2>1, <2>2, <2>3
<1>8. ASSUME NEW t \in Threads, Register(t) PROVE BasicInv'
  <2> USE <1>8 DEF Register, Goto, cvVars, nodes, sig, mutex, count
  <2>0. prev' \in [Threads -> Threads \cup {None}]
    <3>1. CASE tail = None
      BY <3>1 DEF CondTypeOK
    <3>2. CASE tail # None
      BY <3>2 DEF CondTypeOK
    <3> QED BY <3>1, <3>2
  <2>1. CondTypeOK'
    BY <2>0 DEF CondTypeOK, CallOK, StepsOf, Taking
  <2>2. CallOK'
    BY DEF CondTypeOK, CallOK, StepsOf, Taking, Member
  <2>3. CvLockOK'
    BY DEF CondTypeOK, CallOK, StepsOf, Taking, CvLockOK, CvHolding
  <2> QED BY <2>1, <2>2, <2>3
<1>9. ASSUME NEW t \in Threads, ReleaseMutex(t) PROVE BasicInv'
  <2> USE <1>9 DEF ReleaseMutex, Goto, cvVars, nodes, sig, mutex, count
  <2>1. CondTypeOK'
    BY DEF CondTypeOK, CallOK, StepsOf, Taking
  <2>2. CallOK'
    BY DEF CondTypeOK, CallOK, StepsOf, Taking, Member
  <2>3. CvLockOK'
    BY DEF CondTypeOK, CallOK, StepsOf, Taking, CvLockOK, CvHolding
  <2> QED BY <2>1, <2>2, <2>3
<1>10. ASSUME NEW t \in Threads, WaitBarrier(t) PROVE BasicInv'
  <2> USE <1>10 DEF WaitBarrier, Goto, cvVars, nodes, sig, mutex, count
  <2>1. CondTypeOK'
    BY DEF CondTypeOK, CallOK, StepsOf, Taking
  <2>2. CallOK'
    BY DEF CondTypeOK, CallOK, StepsOf, Taking, Member
  <2>3. CvLockOK'
    BY DEF CondTypeOK, CallOK, StepsOf, Taking, CvLockOK, CvHolding
  <2> QED BY <2>1, <2>2, <2>3
<1>11. ASSUME NEW t \in Threads, GiveUp(t) PROVE BasicInv'
  <2> USE <1>11 DEF GiveUp, Goto, cvVars, nodes, sig, mutex, count
  <2>1. CondTypeOK'
    BY DEF CondTypeOK, CallOK, StepsOf, Taking
  <2>2. CallOK'
    BY DEF CondTypeOK, CallOK, StepsOf, Taking, Member
  <2>3. CvLockOK'
    BY DEF CondTypeOK, CallOK, StepsOf, Taking, CvLockOK, CvHolding
  <2> QED BY <2>1, <2>2, <2>3
<1>12. ASSUME NEW t \in Threads, Claim(t) PROVE BasicInv'
  <2> USE <1>12 DEF Claim, Goto, cvVars, nodes, sig, mutex, count
  <2>1. CondTypeOK'
    BY DEF CondTypeOK, CallOK, StepsOf, Taking
  <2>2. CallOK'
    BY DEF CondTypeOK, CallOK, StepsOf, Taking, Member
  <2>3. CvLockOK'
    BY DEF CondTypeOK, CallOK, StepsOf, Taking, CvLockOK, CvHolding
  <2> QED BY <2>1, <2>2, <2>3
<1>13. ASSUME NEW t \in Threads, RemoveNode(t) PROVE BasicInv'
  <2> USE <1>13 DEF RemoveNode, Goto, cvVars, nodes, sig, mutex, count
  <2>1. CondTypeOK'
    BY DEF CondTypeOK, CallOK, StepsOf, Taking
  <2>2. CallOK'
    BY DEF CondTypeOK, CallOK, StepsOf, Taking, Member
  <2>3. CvLockOK'
    BY DEF CondTypeOK, CallOK, StepsOf, Taking, CvLockOK, CvHolding
  <2> QED BY <2>1, <2>2, <2>3
<1>14. ASSUME NEW t \in Threads, Notify(t) PROVE BasicInv'
  <2> USE <1>14 DEF Notify, Goto, cvVars, nodes, sig, mutex, count
  <2>1. CondTypeOK'
    BY DEF CondTypeOK, CallOK, StepsOf, Taking
  <2>2. CallOK'
    BY DEF CondTypeOK, CallOK, StepsOf, Taking, Member
  <2>3. CvLockOK'
    BY DEF CondTypeOK, CallOK, StepsOf, Taking, CvLockOK, CvHolding
  <2> QED BY <2>1, <2>2, <2>3
<1>15. ASSUME NEW t \in Threads, NotifyWake(t) PROVE BasicInv'
  <2> USE <1>15 DEF NotifyWake, Goto, cvVars, nodes, sig, mutex, count
  <2>1. CondTypeOK'
    BY DEF CondTypeOK, CallOK, StepsOf, Taking
  <2>2. CallOK'
    BY DEF CondTypeOK, CallOK, StepsOf, Taking, Member
  <2>3. CvLockOK'
    BY DEF CondTypeOK, CallOK, StepsOf, Taking, CvLockOK, CvHolding
  <2> QED BY <2>1, <2>2, <2>3
<1>16. ASSUME NEW t \in Threads, Relock(t) PROVE BasicInv'
  <2> USE <1>16 DEF Relock, Goto, cvVars, nodes, sig, mutex, count
  <2>1. CondTypeOK'
    BY DEF CondTypeOK, CallOK, StepsOf, Taking
  <2>2. CallOK'
    BY DEF CondTypeOK, CallOK, StepsOf, Taking, Member
  <2>3. CvLockOK'
    BY DEF CondTypeOK, CallOK, StepsOf, Taking, CvLockOK, CvHolding
  <2> QED BY <2>1, <2>2, <2>3
<1>17. ASSUME NEW t \in Threads, Pass(t) PROVE BasicInv'
  <2> USE <1>17 DEF Pass, Goto, cvVars, nodes, sig, mutex, count
  <2>1. CondTypeOK'
    BY DEF CondTypeOK, CallOK, StepsOf, Taking
  <2>2. CallOK'
    BY DEF CondTypeOK, CallOK, StepsOf, Taking, Member
  <2>3. CvLockOK'
    BY DEF CondTypeOK, CallOK, StepsOf, Taking, CvLockOK, CvHolding
  <2> QED BY <2>1, <2>2, <2>3
<1>18. ASSUME NEW t \in Threads, PassWake(t) PROVE BasicInv'
  <2> USE <1>18 DEF PassWake, Goto, cvVars, nodes, sig, mutex, count
  <2>1. CondTypeOK'
    BY DEF CondTypeOK, CallOK, StepsOf, Taking
  <2>2. CallOK'
    BY DEF CondTypeOK, CallOK, StepsOf, Taking, Member
  <2>3. CvLockOK'
    BY DEF CondTypeOK, CallOK, StepsOf, Taking, CvLockOK, CvHolding
  <2> QED BY <2>1, <2>2, <2>3
<1>19. ASSUME NEW t \in Threads, Done(t) PROVE BasicInv'
  <2> USE <1>19 DEF Done, Goto, cvVars, nodes, sig, mutex, count
  <2>1. CondTypeOK'
    BY DEF CondTypeOK, CallOK, StepsOf, Taking
  <2>2. CallOK'
    BY DEF CondTypeOK, CallOK, StepsOf, Taking, Member
  <2>3. CvLockOK'
    BY DEF CondTypeOK, CallOK, StepsOf, Taking, CvLockOK, CvHolding
  <2> QED BY <2>1, <2>2, <2>3
<1>20. ASSUME NEW t \in Threads, SigStart(t) PROVE BasicInv'
  <2> USE <1>20 DEF SigStart, Goto, cvVars, nodes, sig, mutex, count
  <2>1. CondTypeOK'
    BY DEF CondTypeOK, CallOK, StepsOf, Taking
  <2>2. CallOK'
    BY DEF CondTypeOK, CallOK, StepsOf, Taking, Member
  <2>3. CvLockOK'
    BY DEF CondTypeOK, CallOK, StepsOf, Taking, CvLockOK, CvHolding
  <2> QED BY <2>1, <2>2, <2>3
<1>21. ASSUME NEW t \in Threads, SigLoop(t) PROVE BasicInv'
  <2> USE <1>21 DEF SigLoop, All, Goto, cvVars, nodes, sig, mutex, count
  <2>1. CondTypeOK'
    BY DEF CondTypeOK, CallOK, StepsOf, Taking
  <2>2. CallOK'
    BY DEF CondTypeOK, CallOK, StepsOf, Taking, Member
  <2>3. CvLockOK'
    BY DEF CondTypeOK, CallOK, StepsOf, Taking, CvLockOK, CvHolding
  <2> QED BY <2>1, <2>2, <2>3
<1>22. ASSUME NEW t \in Threads, SigSplit(t) PROVE BasicInv'
  <2> USE <1>22 DEF SigSplit, Goto, cvVars, nodes, sig, mutex, count
  <2>1. CondTypeOK'
    BY DEF CondTypeOK, CallOK, StepsOf, Taking
  <2>2. CallOK'
    BY DEF CondTypeOK, CallOK, StepsOf, Taking, Member
  <2>3. CvLockOK'
    BY DEF CondTypeOK, CallOK, StepsOf, Taking, CvLockOK, CvHolding
  <2> QED BY <2>1, <2>2, <2>3
<1>23. ASSUME NEW t \in Threads, Drain(t) PROVE BasicInv'
  <2> USE <1>23 DEF Drain, Goto, cvVars, nodes, sig, mutex, count
  <2>1. CondTypeOK'
    BY DEF CondTypeOK, CallOK, StepsOf, Taking
  <2>2. CallOK'
    BY DEF CondTypeOK, CallOK, StepsOf, Taking, Member
  <2>3. CvLockOK'
    BY DEF CondTypeOK, CallOK, StepsOf, Taking, CvLockOK, CvHolding
  <2> QED BY <2>1, <2>2, <2>3
<1>24. ASSUME NEW t \in Threads, OpenFirst(t) PROVE BasicInv'
  <2> USE <1>24 DEF OpenFirst, Goto, cvVars, nodes, sig, mutex, count
  <2>1. CondTypeOK'
    BY DEF CondTypeOK, CallOK, StepsOf, Taking
  <2>2. CallOK'
    BY DEF CondTypeOK, CallOK, StepsOf, Taking, Member
  <2>3. CvLockOK'
    BY DEF CondTypeOK, CallOK, StepsOf, Taking, CvLockOK, CvHolding
  <2> QED BY <2>1, <2>2, <2>3
<1>25. ASSUME NEW t \in Threads, WakeFirst(t) PROVE BasicInv'
  <2> USE <1>25 DEF WakeFirst, Goto, cvVars, nodes, sig, mutex, count
  <2>1. CondTypeOK'
    BY DEF CondTypeOK, CallOK, StepsOf, Taking
  <2>2. CallOK'
    BY DEF CondTypeOK, CallOK, StepsOf, Taking, Member
  <2>3. CvLockOK'
    BY DEF CondTypeOK, CallOK, StepsOf, Taking, CvLockOK, CvHolding
  <2> QED BY <2>1, <2>2, <2>3
<1>26. ASSUME NEW t \in Threads, SigDone(t) PROVE BasicInv'
  <2> USE <1>26 DEF SigDone, Goto, cvVars, nodes, sig, mutex, count
  <2>1. CondTypeOK'
    BY DEF CondTypeOK, CallOK, StepsOf, Taking
  <2>2. CallOK'
    BY DEF CondTypeOK, CallOK, StepsOf, Taking, Member
  <2>3. CvLockOK'
    BY DEF CondTypeOK, CallOK, StepsOf, Taking, CvLockOK, CvHolding
  <2> QED BY <2>1, <2>2, <2>3
<1>27. ASSUME NEW t \in Threads, NEW k \in {1, All}, CallSignal(t, k) PROVE BasicInv'
  <2> USE <1>27 DEF CallSignal, All, Goto, cvVars, nodes, sig, mutex, count
  <2>1. CondTypeOK'
    BY DEF CondTypeOK, CallOK, StepsOf, Taking
  <2>2. CallOK'
    BY DEF CondTypeOK, CallOK, StepsOf, Taking, Member
  <2>3. CvLockOK'
    BY DEF CondTypeOK, CallOK, StepsOf, Taking, CvLockOK, CvHolding
  <2> QED BY <2>1, <2>2, <2>3
<1>28. CASE UNCHANGED vars
  BY <1>28 DEF vars, cvVars, nodes, sig, mutex, count, CondTypeOK, CallOK, Member, CvLockOK
<1> QED
  BY <1>1, <1>2, <1>3, <1>4, <1>5, <1>6, <1>7, <1>8, <1>9, <1>10, <1>11, <1>12, <1>13,
     <1>14, <1>15, <1>16, <1>17, <1>18, <1>19, <1>20, <1>21, <1>22, <1>23, <1>24, <1>25,
     <1>26, <1>27, <1>28
  DEF Next, Step, Over

-----------------------------------------------------------------------------
\* A step that no list notices, ...
QuietNodes ==
  /\ UNCHANGED <<head, tail, prev, next, state, notify, mwaiters>>
  /\ \A t \in Threads :
       /\ Member(t)' <=> Member(t)
       /\ Member(t) => (Closed(t)' <=> Closed(t))
       /\ job[t] \in {"barrier", "remove"} => job'[t] = job[t]
       /\ Looping(t)' <=> Looping(t)
       /\ Split(t)' <=> Split(t)
       /\ Looping(t) \/ Split(t) => p'[t] = p[t] /\ first'[t] = first[t]
       /\ Early(t)' => (Early(t) /\ first'[t] = first[t]) \/ first'[t] = None

\* ... and none of the counters of leaving waiters either.
QuietRefs ==
  /\ UNCHANGED <<ref, notify>>
  /\ \A t \in Threads :
       /\ notify[t] # None => (Reporting(t)' <=> Reporting(t))
       /\ Counting(t) => Counting(t)'

LEMMA QuietLists ==
  ASSUME NEW grp, NEW age, NEW now, BasicInv, ListsOK(grp, age, now), QuietNodes
  PROVE  ListsOK(grp, age, now)'
<1> USE CondAssumption DEF CondAssumption, ListsOK
<1>0. /\ \A t \in Threads : prev[t] \in Threads \cup {None} /\ next[t] \in Threads \cup {None}
                           /\ first[t] \in Threads \cup {None} /\ p[t] \in Threads \cup {None}
      /\ head \in Threads \cup {None} /\ tail \in Threads \cup {None}
  BY DEF BasicInv, CondTypeOK
<1>1. GhostOK(grp, age, now)'
  BY DEF GhostOK
<1>2. LinksOK(grp, age)'
  BY <1>0 DEF LinksOK, QuietNodes
<1>3. OrderOK(grp, age)'
  BY <1>0 DEF OrderOK, QuietNodes
<1>4. EndsOK(grp)'
  BY <1>0 DEF EndsOK, QuietNodes
<1>5. \A s, t \in Threads : Met(grp, age, s, t)' <=> Met(grp, age, s, t)
  BY DEF Met, QuietNodes
<1>6. MetOK(grp, age)'
  BY <1>0, <1>5 DEF MetOK, QuietNodes
<1>7. FirstOK(grp, age)'
  BY <1>0, <1>5 DEF FirstOK, QuietNodes
<1>8. HandOverOK(grp)'
  BY <1>0 DEF HandOverOK, LinksOK, QuietNodes
<1> QED BY <1>1, <1>2, <1>3, <1>4, <1>6, <1>7, <1>8

LEMMA QuietRefsKept ==
  ASSUME RefOK, QuietRefs
  PROVE  RefOK'
<1>1. \A s \in Threads : Pending(s)' = Pending(s)
  BY CondAssumption DEF CondAssumption, Pending, QuietRefs
<1> QED BY <1>1 DEF RefOK, QuietRefs

LEMMA QuietStep ==
  ASSUME CondInv, BasicInv', QuietNodes, RefOK'
  PROVE  CondInv'
<1>1. Outside'
  BY DEF CondInv, Outside, QuietNodes
<1>2. Carrying' = Carrying
  BY DEF Carrying, QuietNodes
<1>3. CarryOK'
  BY <1>2 DEF CondInv, CarryOK, QuietNodes
<1>4. \E grp, age, now : ListsOK(grp, age, now)'
  BY QuietLists DEF CondInv
<1> QED BY <1>1, <1>3, <1>4 DEF CondInv

\* What a thread does, from the step it is at.
LEMMA JobAt ==
  ASSUME BasicInv, NEW t \in Threads
  PROVE  /\ pc[t] = "idle" => job[t] = "none"
         /\ pc[t] \in Taking => job[t] \in {"register", "remove", "barrier", "signal"}
         /\ pc[t] \in {"unlock", "unlockwake"} => job[t] \in {"register", "remove", "signal"}
         /\ pc[t] \in {"register", "release", "wait", "claim"} => job[t] = "register"
         /\ pc[t] \in {"remove", "notify", "notifywake"} => job[t] = "remove"
         /\ pc[t] \in {"relock", "done"} => job[t] \in {"remove", "barrier"}
         /\ pc[t] \in {"pass", "passwake"} => job[t] = "barrier"
         /\ pc[t] \in {"sigstart", "sigloop", "drain", "first", "firstwake", "sigdone"} => job[t] = "signal"
BY DEF BasicInv, CondTypeOK, CallOK, StepsOf, Taking, Jobs

\* Taking and releasing the lock, sleeping and waking are such steps.
LEMMA QuietActions ==
  ASSUME BasicInv, NEW t \in Threads,
         \/ LockCas(t) \/ LockMark(t) \/ LockWait(t) \/ LockRetry(t) \/ Unlock(t) \/ UnlockWake(t)
         \/ CallWait(t) \/ ReleaseMutex(t) \/ WaitBarrier(t) \/ GiveUp(t) \/ NotifyWake(t)
         \/ Relock(t) \/ PassWake(t) \/ WakeFirst(t) \/ SigDone(t)
  PROVE  QuietNodes /\ QuietRefs
<1>0. /\ \A x \in Threads : Member(x) /\ word[x] = 1 => pc[x] \in {"relock", "pass"}
      /\ \A x \in Threads : (job[x] = "barrier" => state[x] = SIGNALED) /\ (job[x] = "remove" => state[x] = LEAVING)
      /\ pc \in [Threads -> UNION {StepsOf(j) : j \in Jobs}] /\ job \in [Threads -> Jobs]
      /\ word \in [Threads \cup {Cv} -> 0 .. 2] /\ first \in [Threads -> Threads \cup {None}]
      /\ p \in [Threads -> Threads \cup {None}]
  BY DEF BasicInv, CondTypeOK, CallOK
<1> USE <1>0, JobAt, CondAssumption DEF CondAssumption, Taking, Goto, cvVars, nodes, sig, mutex, count,
        WAITING, SIGNALED, LEAVING, QuietNodes, QuietRefs, Member, Closed, Reporting, Looping, Split, Counting, Early
<1>1. CASE LockCas(t)
  <2>1. CASE word[Target(t)] = 0
    <3>1. /\ pc[t] = "cas" /\ pc' = [pc EXCEPT ![t] = Body(t)] /\ UNCHANGED job
          /\ word' = [word EXCEPT ![Target(t)] = 1]
          /\ UNCHANGED <<head, tail, prev, next, state, notify, mwaiters, ref, p, first>>
      BY <1>1, <2>1 DEF LockCas
    <3>2. CASE job[t] = "barrier"
      <4>1. Body(t) = "relock" /\ Target(t) = t
        BY <3>2 DEF Body, Target
      <4> QED BY <2>1, <3>1, <3>2, <4>1
    <3>3. CASE job[t] # "barrier"
      <4>1. Target(t) = Cv /\ Body(t) = IF job[t] = "signal" THEN "sigstart" ELSE job[t]
        BY <3>1, <3>3 DEF Body, Target
      <4> QED BY <3>1, <3>3, <4>1
    <3> QED BY <3>2, <3>3
  <2>2. CASE word[Target(t)] # 0
    BY <1>1, <2>2 DEF LockCas
  <2> QED BY <2>1, <2>2
<1>2. CASE LockMark(t)
  BY <1>2 DEF LockMark, Target
<1>3. CASE LockWait(t)
  BY <1>3 DEF LockWait
<1>4. CASE LockRetry(t)
  <2>1. CASE word[Target(t)] = 0
    <3>1. /\ pc[t] = "retry" /\ pc' = [pc EXCEPT ![t] = Body(t)] /\ UNCHANGED job
          /\ word' = [word EXCEPT ![Target(t)] = 2]
          /\ UNCHANGED <<head, tail, prev, next, state, notify, mwaiters, ref, p, first>>
      BY <1>4, <2>1 DEF LockRetry
    <3>2. CASE job[t] = "barrier"
      <4>1. Body(t) = "relock" /\ Target(t) = t
        BY <3>2 DEF Body, Target
      <4> QED BY <2>1, <3>1, <3>2, <4>1
    <3>3. CASE job[t] # "barrier"
      <4>1. Target(t) = Cv /\ Body(t) = IF job[t] = "signal" THEN "sigstart" ELSE job[t]
        BY <3>1, <3>3 DEF Body, Target
      <4> QED BY <3>1, <3>3, <4>1
    <3> QED BY <3>2, <3>3
  <2>2. CASE word[Target(t)] # 0
    BY <1>4, <2>2 DEF LockRetry
  <2> QED BY <2>1, <2>2
<1>5. CASE Unlock(t)
  <2>1. /\ pc[t] = "unlock" /\ job[t] \in {"register", "remove", "signal"} /\ UNCHANGED job
        /\ \A x \in Threads : word'[x] = word[x]
        /\ pc' = [pc EXCEPT ![t] = IF word[Cv] = 2 THEN "unlockwake" ELSE AfterUnlock(t)]
        /\ UNCHANGED <<head, tail, prev, next, state, notify, mwaiters, ref, p, first>>
    BY <1>5 DEF Unlock
  <2>2. AfterUnlock(t) = IF job[t] = "register" THEN "release" ELSE IF job[t] = "signal" THEN "drain"
                         ELSE IF notify[t] = None THEN "relock" ELSE "notify"
    BY <2>1 DEF AfterUnlock
  <2>3. CASE job[t] = "register"
    BY <2>1, <2>2, <2>3
  <2>4. CASE job[t] = "signal"
    BY <2>1, <2>2, <2>4
  <2>5. CASE job[t] = "remove"
    BY <2>1, <2>2, <2>5
  <2> QED BY <2>1, <2>3, <2>4, <2>5
<1>6. CASE UnlockWake(t)
  <2>1. /\ pc[t] = "unlockwake" /\ job[t] \in {"register", "remove", "signal"} /\ UNCHANGED job
        /\ \A x \in Threads : word'[x] = word[x]
        /\ pc' = [pc EXCEPT ![t] = AfterUnlock(t)]
        /\ UNCHANGED <<head, tail, prev, next, state, notify, mwaiters, ref, p, first>>
    BY <1>6 DEF UnlockWake
  <2>2. AfterUnlock(t) = IF job[t] = "register" THEN "release" ELSE IF job[t] = "signal" THEN "drain"
                         ELSE IF notify[t] = None THEN "relock" ELSE "notify"
    BY <2>1 DEF AfterUnlock
  <2>3. CASE job[t] = "register"
    BY <2>1, <2>2, <2>3
  <2>4. CASE job[t] = "signal"
    BY <2>1, <2>2, <2>4
  <2>5. CASE job[t] = "remove"
    BY <2>1, <2>2, <2>5
  <2> QED BY <2>1, <2>3, <2>4, <2>5
<1>7. CASE CallWait(t)
  BY <1>7 DEF CallWait
<1>8. CASE ReleaseMutex(t)
  BY <1>8 DEF ReleaseMutex
<1>9. CASE WaitBarrier(t)
  BY <1>9 DEF WaitBarrier
<1>10. CASE GiveUp(t)
  BY <1>10 DEF GiveUp
<1>11. CASE NotifyWake(t)
  BY <1>11 DEF NotifyWake
<1>12. CASE Relock(t)
  BY <1>12 DEF Relock
<1>13. CASE PassWake(t)
  BY <1>13 DEF PassWake
<1>14. CASE WakeFirst(t)
  BY <1>14 DEF WakeFirst
<1>15. CASE SigDone(t)
  BY <1>15 DEF SigDone
<1> QED
  BY <1>1, <1>2, <1>3, <1>4, <1>5, <1>6, <1>7, <1>8, <1>9, <1>10, <1>11, <1>12, <1>13, <1>14, <1>15

LEMMA CallSignalQuiet ==
  ASSUME BasicInv, RefOK, NEW t \in Threads, NEW k, CallSignal(t, k)
  PROVE  QuietNodes /\ QuietRefs
<1> USE CondAssumption DEF CondAssumption, BasicInv, CondTypeOK, CallOK, StepsOf, Taking
<1>1. ~Counting(t)
  BY DEF CallSignal, Counting, Looping, Split
<1>2. Pending(t) = {}
  BY <1>1 DEF RefOK
<1>3. ref[t] = 0
  BY <1>2, FS_EmptySet DEF RefOK
<1>4. ref' = ref
  BY <1>3 DEF CallSignal
<1> QED
  BY <1>4 DEF CallSignal, Goto, cvVars, nodes, mutex, QuietNodes, QuietRefs, Member, Closed, Reporting, Looping, Split,
     Counting, Early

-----------------------------------------------------------------------------
\* Where the pointers go.
LEMMA Ranges ==
  ASSUME BasicInv
  PROVE  /\ head \in Threads \cup {None} /\ tail \in Threads \cup {None}
         /\ \A x \in Threads :
              /\ prev[x] \in Threads \cup {None} /\ next[x] \in Threads \cup {None}
              /\ p[x] \in Threads \cup {None} /\ first[x] \in Threads \cup {None}
              /\ notify[x] \in Threads \cup {None}
BY DEF BasicInv, CondTypeOK

\* The state of a node in a list follows from what its thread does.
LEMMA MemberState ==
  ASSUME BasicInv, NEW x \in Threads, Member(x)
  PROVE  /\ state[x] \in {WAITING, SIGNALED, LEAVING}
         /\ state[x] = LEAVING <=> job[x] = "remove"
         /\ state[x] = LEAVING => Reporting(x)
BY DEF BasicInv, CallOK, Member, Reporting, Taking, WAITING, SIGNALED, LEAVING

LEMMA PendingFinite ==
  ASSUME NEW s PROVE IsFiniteSet(Pending(s)) /\ Cardinality(Pending(s)) \in Nat
<1>1. Pending(s) \subseteq Threads
  BY DEF Pending
<1> QED BY <1>1, CondAssumption, FS_Subset, FS_CardinalityType DEF CondAssumption

\* While a signaller holds the lock nobody else is in the list.
LEMMA OneInList ==
  ASSUME BasicInv, NEW t \in Threads, pc[t] \in CvHolding
  PROVE  \A s \in Threads \ {t} : pc[s] \notin CvHolding /\ ~Looping(s)
BY DEF BasicInv, CvLockOK, CvHolding, Looping

LEMMA NotifyInv ==
  ASSUME CondInv, BasicInv', NEW t \in Threads, Notify(t)
  PROVE  CondInv'
<1> DEFINE s == notify[t]
<1>1. /\ pc[t] = "notify" /\ job[t] = "remove" /\ s \in Threads
      /\ pc' = [pc EXCEPT ![t] = IF ref[s] = 1 THEN "notifywake" ELSE "relock"]
      /\ ref' = [ref EXCEPT ![s] = ref[s] - 1]
      /\ UNCHANGED <<job, word, head, tail, prev, next, state, notify, p, first, mwaiters>>
      /\ pc \in [Threads -> UNION {StepsOf(j) : j \in Jobs}]
      /\ ref \in [Threads -> Int]
  BY JobAt DEF Notify, Goto, cvVars, nodes, mutex, CondInv, BasicInv, CondTypeOK, CallOK
<1>2. QuietNodes
  BY <1>1 DEF QuietNodes, Member, Closed, Looping, Split, Early, Taking
<1>3. \A x \in Threads : Reporting(x)' <=> Reporting(x) /\ x # t
  BY <1>1 DEF Reporting, Taking
<1>4. \A x \in Threads : Counting(x)' <=> Counting(x)
  BY <1>1 DEF Counting, Looping, Split
<1>5. t \in Pending(s)
  BY <1>1 DEF Pending, Reporting
<1>6. \A u \in Threads : Pending(u)' = IF u = s THEN Pending(u) \ {t} ELSE Pending(u)
  BY <1>1, <1>3 DEF Pending
<1>7. \A u \in Threads : ref'[u] = Cardinality(Pending(u)')
  <2>1. Cardinality(Pending(s) \ {t}) = Cardinality(Pending(s)) - 1
    BY <1>5, PendingFinite, FS_RemoveElement
  <2> QED BY <1>1, <1>6, <2>1 DEF CondInv, RefOK
<1>8. RefOK'
  BY <1>4, <1>6, <1>7 DEF CondInv, RefOK
<1> QED BY <1>2, <1>8, QuietStep

LEMMA DrainInv ==
  ASSUME CondInv, BasicInv', NEW t \in Threads, Drain(t)
  PROVE  CondInv'
<1> USE CondAssumption DEF CondAssumption
<1>1. /\ pc[t] = "drain" /\ job[t] = "signal"
      /\ pc \in [Threads -> UNION {StepsOf(j) : j \in Jobs}]
      /\ UNCHANGED <<job, word, head, tail, prev, next, state, notify, p, first, mwaiters, ref>>
  BY JobAt DEF Drain, cvVars, nodes, sig, mutex, CondInv, BasicInv, CondTypeOK
<1>2. CASE ref[t] # 0
  <2>1. UNCHANGED pc
    BY <1>2 DEF Drain
  <2>2. QuietNodes /\ QuietRefs
    BY <1>1, <2>1 DEF QuietNodes, QuietRefs, Member, Closed, Looping, Split, Early, Reporting, Counting
  <2> QED BY <2>2, QuietStep, QuietRefsKept DEF CondInv
<1>3. CASE ref[t] = 0
  <2>1. Pending(t) = {}
    BY <1>3, PendingFinite, FS_EmptySet DEF CondInv, RefOK
  <2>2. pc' = [pc EXCEPT ![t] = IF first[t] = None THEN "sigdone" ELSE "first"]
    BY <1>3 DEF Drain, Goto
  <2>3. \A x \in Threads : /\ Member(x)' <=> Member(x)
                           /\ Member(x) => (Closed(x)' <=> Closed(x))
                           /\ Reporting(x)' <=> Reporting(x)
                           /\ Looping(x)' <=> Looping(x)
                           /\ Early(x)' <=> Early(x)
                           /\ x # t => (Split(x)' <=> Split(x)) /\ (Counting(x)' <=> Counting(x))
    BY <1>1, <2>2 DEF Member, Closed, Reporting, Looping, Early, Split, Counting, Taking
  <2>4. \A s \in Threads : Pending(s)' = Pending(s)
    BY <1>1, <2>3 DEF Pending
  <2>5. RefOK'
    BY <1>1, <2>1, <2>3, <2>4 DEF RefOK, CondInv
  <2>6. CASE first[t] # None
    <3>1. Split(t)' /\ Split(t)
      BY <1>1, <2>2, <2>6 DEF Split
    <3>2. QuietNodes
      BY <1>1, <2>3, <3>1 DEF QuietNodes
    <3> QED BY <2>5, <3>2, QuietStep
  <2>7. CASE first[t] = None
    <3>1. Split(t) /\ ~Split(t)' /\ ~Looping(t)
      BY <1>1, <2>2, <2>7 DEF Split, Looping
    <3>2. Outside' /\ CarryOK'
      <4>1. Carrying' = Carrying
        BY <1>1, <2>3 DEF Carrying
      <4> QED BY <1>1, <2>3, <4>1 DEF CondInv, Outside, CarryOK
    <3>3. PICK grp, age, now : ListsOK(grp, age, now)
      BY DEF CondInv
    <3>4. \A x \in Threads : Member(x) => grp[x] # t
      <4> SUFFICES ASSUME NEW x \in Threads, Member(x), grp[x] = t PROVE FALSE
        OBVIOUS
      <4>1. Met(grp, age, t, x)
        BY DEF Met
      <4>2. state[x] = LEAVING
        BY <2>7, <3>1, <3>3, <4>1 DEF ListsOK, FirstOK
      <4>3. notify[x] = t
        BY <3>3, <4>1, <4>2 DEF ListsOK, MetOK, SIGNALED, LEAVING
      <4>4. x \in Pending(t)
        BY <4>2, <4>3, MemberState DEF Pending, CondInv
      <4> QED BY <2>1, <4>4
    <3> USE <3>3 DEF ListsOK
    <3>5. \A s, x \in Threads : Met(grp, age, s, x)' <=> Met(grp, age, s, x)
      BY <1>1, <2>3 DEF Met
    <3>6. GhostOK(grp, age, now)' /\ LinksOK(grp, age)'
      BY <1>1, <2>3, Ranges DEF GhostOK, LinksOK, CondInv
    <3>7. OrderOK(grp, age)' /\ EndsOK(grp)'
      BY <1>1, <2>3, Ranges DEF OrderOK, EndsOK, CondInv
    <3>8. MetOK(grp, age)'
      BY <1>1, <2>3, <3>4, <3>5, Ranges DEF MetOK, CondInv
    <3>9. FirstOK(grp, age)'
      BY <1>1, <2>3, <3>1, <3>5, Ranges DEF FirstOK, CondInv
    <3>10. HandOverOK(grp)'
      BY <1>1, <2>3, Ranges DEF HandOverOK, LinksOK, CondInv
    <3>11. \E g, a, m : ListsOK(g, a, m)'
      BY <3>6, <3>7, <3>8, <3>9, <3>10
    <3> QED BY <2>5, <3>2, <3>11 DEF CondInv
  <2> QED BY <2>6, <2>7
<1> QED BY <1>2, <1>3

\* A waiter that nobody has met is in the list of the condition variable.
LEMMA WaitingAttached ==
  ASSUME NEW grp, NEW age, NEW now, BasicInv, ListsOK(grp, age, now), NEW t \in Threads,
         Member(t), state[t] = WAITING
  PROVE  /\ grp[t] = None /\ notify[t] = None /\ Closed(t)
         /\ \A s \in Threads : ~Met(grp, age, s, t)
<1> USE CondAssumption DEF CondAssumption, ListsOK, WAITING, SIGNALED, LEAVING
<1>1. \A s \in Threads : ~Met(grp, age, s, t)
  BY DEF MetOK
<1>2. grp[t] \notin Threads
  BY <1>1 DEF Met
<1>3. grp[t] # Cv
  BY DEF HandOverOK
<1>4. grp[t] = None
  BY <1>2, <1>3 DEF GhostOK
<1> QED BY <1>1, <1>4 DEF MetOK

LEMMA ClaimInv ==
  ASSUME CondInv, BasicInv', NEW t \in Threads, Claim(t)
  PROVE  CondInv'
<1> USE CondAssumption DEF CondAssumption
<1>1. /\ pc[t] = "claim" /\ job[t] = "register" /\ pc' = [pc EXCEPT ![t] = "cas"]
      /\ pc \in [Threads -> UNION {StepsOf(j) : j \in Jobs}] /\ job \in [Threads -> Jobs]
      /\ state \in [Threads -> {"none", WAITING, SIGNALED, LEAVING}]
      /\ UNCHANGED <<word, head, tail, prev, next, notify, p, first, mwaiters, ref>>
  BY JobAt DEF Claim, Goto, cvVars, nodes, sig, mutex, CondInv, BasicInv, CondTypeOK
<1>2. Member(t) /\ BasicInv
  BY <1>1 DEF Member, CondInv
<1>3. CASE state[t] # WAITING
  <2>1. UNCHANGED state /\ job' = [job EXCEPT ![t] = "barrier"]
    BY <1>3 DEF Claim
  <2>2. QuietNodes /\ QuietRefs
    BY <1>1, <2>1 DEF QuietNodes, QuietRefs, Member, Closed, Looping, Split, Early, Reporting, Counting,
       Taking
  <2> QED BY <2>2, QuietStep, QuietRefsKept DEF CondInv
<1>4. CASE state[t] = WAITING
  <2>1. /\ state' = [state EXCEPT ![t] = LEAVING] /\ job' = [job EXCEPT ![t] = "remove"]
        /\ \A x \in Threads \ {t} : state'[x] = state[x]
        /\ state'[t] = LEAVING
    BY <1>1, <1>4 DEF Claim
  <2>2. \A x \in Threads : /\ Member(x)' <=> Member(x)
                           /\ Member(x) => (Closed(x)' <=> Closed(x))
                           /\ Looping(x)' <=> Looping(x)
                           /\ Early(x)' <=> Early(x)
                           /\ Split(x)' <=> Split(x)
                           /\ Counting(x)' <=> Counting(x)
                           /\ x # t => (Reporting(x)' <=> Reporting(x)) /\ job'[x] = job[x]
    BY <1>1, <2>1 DEF Member, Closed, Reporting, Looping, Early, Split, Counting, Taking
  <2>3. PICK grp, age, now : ListsOK(grp, age, now)
    BY DEF CondInv
  <2>4. grp[t] = None /\ notify[t] = None /\ \A s \in Threads : ~Met(grp, age, s, t)
    BY <1>2, <1>4, <2>3, WaitingAttached
  <2>5. Outside'
    BY <1>1, <1>2, <2>2 DEF CondInv, Outside
  <2>6. RefOK'
    <3>1. \A s \in Threads : Pending(s)' = Pending(s)
      BY <1>1, <2>2, <2>4 DEF Pending
    <3> QED BY <1>1, <2>2, <3>1 DEF CondInv, RefOK
  <2>7. CarryOK'
    <3>1. Carrying' = Carrying
      BY <1>1, <1>4, <2>1, <2>2 DEF Carrying, WAITING, SIGNALED, LEAVING
    <3> QED BY <1>1, <3>1 DEF CondInv, CarryOK
  <2> USE <2>3 DEF ListsOK
  <2>8. \A s, x \in Threads : Met(grp, age, s, x)' <=> Met(grp, age, s, x)
    BY <1>1, <2>2 DEF Met
  <2>9. GhostOK(grp, age, now)' /\ LinksOK(grp, age)'
    BY <1>1, <2>2, Ranges DEF GhostOK, LinksOK, CondInv
  <2>10. OrderOK(grp, age)' /\ EndsOK(grp)'
    BY <1>1, <2>2, Ranges DEF OrderOK, EndsOK, CondInv
  <2>11. MetOK(grp, age)'
    BY <1>1, <2>1, <2>2, <2>4, <2>8, Ranges DEF MetOK, CondInv, SIGNALED, LEAVING
  <2>12. FirstOK(grp, age)'
    BY <1>1, <2>1, <2>2, <2>4, <2>8, Ranges DEF FirstOK, CondInv
  <2>13. HandOverOK(grp)'
    BY <1>1, <2>1, <2>2, <2>4, Ranges DEF HandOverOK, LinksOK, CondInv
  <2>14. \E g, a, m : ListsOK(g, a, m)'
    BY <2>9, <2>10, <2>11, <2>12, <2>13
  <2> QED BY <2>5, <2>6, <2>7, <2>14 DEF CondInv
<1> QED BY <1>3, <1>4

LEMMA DoneInv ==
  ASSUME CondInv, BasicInv', NEW t \in Threads, Done(t)
  PROVE  CondInv'
<1> USE CondAssumption DEF CondAssumption
<1>1. /\ pc[t] = "done" /\ job[t] \in {"remove", "barrier"}
      /\ pc' = [pc EXCEPT ![t] = "idle"] /\ job' = [job EXCEPT ![t] = "none"]
      /\ \A x \in Threads \ {t} : /\ word'[x] = word[x] /\ state'[x] = state[x] /\ prev'[x] = prev[x]
                                  /\ next'[x] = next[x] /\ notify'[x] = notify[x]
      /\ prev'[t] = None /\ next'[t] = None
      /\ pc \in [Threads -> UNION {StepsOf(j) : j \in Jobs}] /\ job \in [Threads -> Jobs]
      /\ UNCHANGED <<head, tail, p, first, mwaiters, ref>>
  BY JobAt DEF Done, Goto, cvVars, sig, CondInv, BasicInv, CondTypeOK
<1>2. /\ ~Member(t) /\ ~Member(t)' /\ ~Reporting(t) /\ ~Reporting(t)'
      /\ \A x \in Threads : /\ Member(x)' <=> Member(x)
                            /\ Member(x) => (Closed(x)' <=> Closed(x))
                            /\ Looping(x)' <=> Looping(x)
                            /\ Early(x)' <=> Early(x)
                            /\ Split(x)' <=> Split(x)
                            /\ Counting(x)' <=> Counting(x)
                            /\ Reporting(x)' <=> Reporting(x)
                            /\ x # t => job'[x] = job[x]
  BY <1>1 DEF Member, Closed, Reporting, Looping, Early, Split, Counting, Taking
<1>3. PICK grp, age, now : ListsOK(grp, age, now)
  BY DEF CondInv
<1>4. Outside'
  BY <1>1, <1>2, Ranges DEF CondInv, Outside
<1>5. RefOK'
  <2>1. \A s \in Threads : Pending(s)' = Pending(s)
    BY <1>1, <1>2 DEF Pending
  <2> QED BY <1>1, <1>2, <2>1 DEF CondInv, RefOK
<1>6. CarryOK'
  <2>1. Carrying' = Carrying
    BY <1>1, <1>2 DEF Carrying
  <2> QED BY <1>1, <2>1 DEF CondInv, CarryOK
<1> USE <1>3 DEF ListsOK
<1>7. \A s, x \in Threads : Met(grp, age, s, x)' <=> Met(grp, age, s, x)
  BY <1>1, <1>2 DEF Met
<1>8. GhostOK(grp, age, now)' /\ LinksOK(grp, age)'
  BY <1>1, <1>2, Ranges DEF GhostOK, LinksOK, CondInv
<1>9. OrderOK(grp, age)' /\ EndsOK(grp)'
  BY <1>1, <1>2, Ranges DEF OrderOK, EndsOK, CondInv
<1>10. MetOK(grp, age)'
  BY <1>1, <1>2, <1>7, Ranges DEF MetOK, Met, CondInv
<1>11. FirstOK(grp, age)'
  BY <1>1, <1>2, <1>7, Ranges DEF FirstOK, Met, CondInv
<1>12. HandOverOK(grp)'
  BY <1>1, <1>2, Ranges DEF HandOverOK, LinksOK, CondInv
<1>13. \E g, a, m : ListsOK(g, a, m)'
  BY <1>8, <1>9, <1>10, <1>11, <1>12
<1> QED BY <1>4, <1>5, <1>6, <1>13 DEF CondInv

LEMMA SigStartInv ==
  ASSUME CondInv, BasicInv', NEW t \in Threads, SigStart(t)
  PROVE  CondInv'
<1> USE CondAssumption DEF CondAssumption
<1>1. /\ pc[t] = "sigstart" /\ job[t] = "signal" /\ pc' = [pc EXCEPT ![t] = "sigloop"]
      /\ p'[t] = tail /\ \A x \in Threads \ {t} : p'[x] = p[x]
      /\ pc \in [Threads -> UNION {StepsOf(j) : j \in Jobs}]
      /\ UNCHANGED <<job, word, head, tail, prev, next, state, notify, first, mwaiters, ref>>
  BY JobAt DEF SigStart, Goto, cvVars, nodes, mutex, CondInv, BasicInv, CondTypeOK
<1>2. /\ Early(t) /\ ~Split(t) /\ ~Looping(t) /\ Looping(t)' /\ ~Split(t)' /\ ~Early(t)'
      /\ \A x \in Threads : /\ Member(x)' <=> Member(x)
                            /\ Member(x) => (Closed(x)' <=> Closed(x))
                            /\ Reporting(x)' <=> Reporting(x)
                            /\ Counting(x) => Counting(x)'
                            /\ x # t => /\ Looping(x)' <=> Looping(x)
                                        /\ Early(x)' <=> Early(x)
                                        /\ Split(x)' <=> Split(x)
  BY <1>1 DEF Member, Closed, Reporting, Looping, Early, Split, Counting, Taking
<1>3. PICK grp, age, now : ListsOK(grp, age, now)
  BY DEF CondInv
<1>4. Outside'
  BY <1>1, <1>2 DEF CondInv, Outside
<1>5. RefOK'
  <2>1. \A s \in Threads : Pending(s)' = Pending(s)
    BY <1>1, <1>2 DEF Pending
  <2> QED BY <1>1, <1>2, <2>1 DEF CondInv, RefOK
<1>6. CarryOK'
  <2>1. Carrying' = Carrying
    BY <1>1, <1>2 DEF Carrying
  <2> QED BY <1>1, <2>1 DEF CondInv, CarryOK
<1> USE <1>3 DEF ListsOK
<1>7. \A x \in Threads : ~Met(grp, age, t, x)' /\ ~Met(grp, age, t, x)
  <2>1. \A x \in Threads : Member(x) => grp[x] # t
    BY <1>2 DEF MetOK
  <2>2. \A x \in Threads : Member(x) /\ grp[x] = None =>
           tail # None /\ Member(tail) /\ grp[tail] = None /\ next[tail] = None
    BY DEF EndsOK
  <2>3. \A x \in Threads : Member(x) /\ grp[x] = None => ~(age[x] < age[tail])
    BY <2>2, Ranges DEF OrderOK, CondInv
  <2> QED BY <1>1, <1>2, <2>1, <2>2, <2>3 DEF Met
<1>8. \A s, x \in Threads : Met(grp, age, s, x)' <=> Met(grp, age, s, x)
  BY <1>1, <1>2, <1>7 DEF Met
<1>9. GhostOK(grp, age, now)' /\ LinksOK(grp, age)'
  BY <1>1, <1>2, Ranges DEF GhostOK, LinksOK, CondInv
<1>10. OrderOK(grp, age)' /\ EndsOK(grp)'
  BY <1>1, <1>2, Ranges DEF OrderOK, EndsOK, CondInv
<1>11. MetOK(grp, age)'
  BY <1>1, <1>2, <1>8, Ranges DEF MetOK, EndsOK, CondInv
<1>12. FirstOK(grp, age)'
  BY <1>1, <1>2, <1>7, <1>8, Ranges DEF FirstOK, CondInv
<1>13. HandOverOK(grp)'
  BY <1>1, <1>2, Ranges DEF HandOverOK, LinksOK, CondInv
<1>14. \E g, a, m : ListsOK(g, a, m)'
  BY <1>9, <1>10, <1>11, <1>12, <1>13
<1> QED BY <1>4, <1>5, <1>6, <1>14 DEF CondInv

\* No signaller is in the list, which gets a newest node.
LEMMA RegisterInv ==
  ASSUME CondInv, BasicInv', NEW t \in Threads, Register(t)
  PROVE  CondInv'
<1> USE CondAssumption DEF CondAssumption
<1>1. /\ pc[t] = "register" /\ job[t] = "register" /\ pc' = [pc EXCEPT ![t] = "unlock"]
      /\ pc \in [Threads -> UNION {StepsOf(j) : j \in Jobs}]
      /\ UNCHANGED <<job, p, first, mwaiters, ref>>
  BY JobAt DEF Register, Goto, sig, mutex, CondInv, BasicInv, CondTypeOK
<1>2. /\ word'[t] = 2 /\ state'[t] = WAITING /\ notify'[t] = None /\ next'[t] = head
      /\ \A x \in Threads \ {t} : /\ word'[x] = word[x] /\ state'[x] = state[x]
                                  /\ notify'[x] = notify[x] /\ next'[x] = next[x]
      /\ head' = t /\ tail' = IF tail = None THEN t ELSE tail
      /\ prev' = IF tail = None THEN [prev EXCEPT ![t] = None]
                                ELSE [prev EXCEPT ![t] = None, ![head] = t]
      /\ prev \in [Threads -> Threads \cup {None}]
  BY DEF Register, CondInv, BasicInv, CondTypeOK
<1>3. /\ ~Member(t) /\ Member(t)' /\ ~Reporting(t) /\ ~Reporting(t)' /\ Closed(t)'
      /\ \A x \in Threads : /\ x # t => (Member(x)' <=> Member(x))
                            /\ x # t => (Closed(x)' <=> Closed(x))
                            /\ Looping(x)' <=> Looping(x)
                            /\ Early(x)' <=> Early(x)
                            /\ Split(x)' <=> Split(x)
                            /\ Counting(x)' <=> Counting(x)
                            /\ Reporting(x)' <=> Reporting(x)
  BY <1>1, <1>2 DEF Member, Closed, Reporting, Looping, Early, Split, Counting, Taking
<1>4. \A s \in Threads : ~Looping(s)
  BY <1>1, OneInList DEF CondInv, CvHolding, Looping
<1>5. PICK grp, age, now : ListsOK(grp, age, now)
  BY DEF CondInv
<1>6. PICK g2 : g2 = [grp EXCEPT ![t] = None]
  OBVIOUS
<1>7. PICK a2 : a2 = [age EXCEPT ![t] = now]
  OBVIOUS
<1> USE DEF ListsOK
<1>8. /\ grp \in [Threads -> Threads \cup {None, Cv}] /\ age \in [Threads -> Nat] /\ now \in Nat
      /\ \A x \in Threads : age[x] < now
  BY <1>5 DEF GhostOK
<1>9. /\ g2[t] = None /\ a2[t] = now
      /\ \A x \in Threads \ {t} : g2[x] = grp[x] /\ a2[x] = age[x]
      /\ g2 \in [Threads -> Threads \cup {None, Cv}] /\ a2 \in [Threads -> Nat]
      /\ now + 1 \in Nat /\ \A x \in Threads : a2[x] < now + 1
  BY <1>6, <1>7, <1>8
<1>10. /\ head # None <=> tail # None
       /\ head # None => head \in Threads \ {t} /\ Member(head) /\ grp[head] = None /\ prev[head] = None
       /\ tail # None => tail \in Threads \ {t} /\ Member(tail) /\ grp[tail] = None /\ next[tail] = None
  BY <1>3, <1>5, Ranges DEF EndsOK, CondInv
<1>11. /\ prev'[t] = None
       /\ head # None => prev'[head] = t
       /\ \A x \in Threads \ {t} : x # head => prev'[x] = prev[x]
  BY <1>2, <1>10
<1>12. \A x \in Threads : Member(x) => prev[x] # t
  BY <1>3, <1>5 DEF LinksOK
<1>13. Outside'
  <2> SUFFICES ASSUME NEW x \in Threads, ~Member(x)', prev'[x] # None, job'[x] # "barrier"
               PROVE  job'[x] = "remove" /\ next'[prev'[x]] # x
    BY DEF Outside
  <2>1. x # t /\ ~Member(x) /\ x # head /\ prev'[x] = prev[x] /\ job'[x] = job[x]
    BY <1>1, <1>3, <1>10, <1>11
  <2>2. job[x] = "remove" /\ next[prev[x]] # x /\ prev[x] \in Threads
    BY <2>1, Ranges DEF CondInv, Outside
  <2>3. next'[prev[x]] # x
    BY <1>2, <2>1, <2>2
  <2> QED BY <2>1, <2>2, <2>3
<1>14. RefOK'
  <2>1. \A s \in Threads : Pending(s)' = Pending(s)
    BY <1>1, <1>2, <1>3 DEF Pending
  <2> QED BY <1>1, <1>3, <2>1 DEF CondInv, RefOK
<1>15. CarryOK'
  <2>1. Carrying' = Carrying
    BY <1>2, <1>3 DEF Carrying, WAITING, SIGNALED
  <2> QED BY <1>1, <2>1 DEF CondInv, CarryOK
<1>16. \A s, x \in Threads : Met(g2, a2, s, x)' <=> (Met(grp, age, s, x) /\ x # t)
  BY <1>3, <1>4, <1>9 DEF Met
<1>17. GhostOK(g2, a2, now + 1)'
  BY <1>9 DEF GhostOK
<1>18. LinksOK(g2, a2)'
  <2> SUFFICES ASSUME NEW x \in Threads, Member(x)'
               PROVE  /\ prev'[x] # None =>
                           /\ Member(prev[x])' /\ next'[prev'[x]] = x
                           /\ g2[prev'[x]] = g2[x] /\ a2[prev'[x]] > a2[x]
                      /\ next'[x] # None /\ (g2[x] # Cv \/ Closed(x)') =>
                           Member(next[x])' /\ prev'[next'[x]] = x
    BY DEF LinksOK
  <2>1. CASE x = t
    BY <1>2, <1>3, <1>10, <1>11, <2>1
  <2>2. CASE x # t
    <3>1. Member(x) /\ next'[x] = next[x] /\ g2[x] = grp[x] /\ a2[x] = age[x] /\ (Closed(x)' <=> Closed(x))
      BY <1>2, <1>3, <1>9, <2>2
    <3>2. prev'[x] # None =>
                           /\ Member(prev[x])' /\ next'[prev'[x]] = x
                           /\ g2[prev'[x]] = g2[x] /\ a2[prev'[x]] > a2[x]
      <4>1. CASE x = head
        BY <1>2, <1>3, <1>8, <1>9, <1>10, <1>11, <3>1, <4>1
      <4>2. CASE x # head
        BY <1>2, <1>3, <1>5, <1>9, <1>11, <1>12, <2>2, <3>1, <4>2, Ranges DEF LinksOK, CondInv
      <4> QED BY <4>1, <4>2
    <3>3. next'[x] # None /\ (g2[x] # Cv \/ Closed(x)') => Member(next[x])' /\ prev'[next'[x]] = x
      BY <1>3, <1>5, <1>10, <1>11, <3>1, Ranges DEF LinksOK, CondInv
    <3> QED BY <3>2, <3>3
  <2> QED BY <2>1, <2>2
<1>19. OrderOK(g2, a2)'
  <2>1. \A x \in Threads : Member(x) /\ grp[x] = None => age[x] <= age[head]
    BY <1>5, <1>8, <1>10 DEF OrderOK, EndsOK
  <2> SUFFICES ASSUME NEW x \in Threads, NEW y \in Threads, Member(x)', Member(y)', g2[x] = g2[y],
                      g2[x] # Cv
               PROVE  /\ a2[x] = a2[y] => x = y
                      /\ a2[y] < a2[x] => next'[x] # None /\ a2[y] <= a2[next'[x]]
                      /\ a2[y] > a2[x] => prev'[x] # None /\ a2[y] >= a2[prev'[x]]
    BY DEF OrderOK
  <2>2. CASE x = t /\ y # t
    <3>1. Member(y) /\ grp[y] = None /\ head # None
      BY <1>3, <1>5, <1>9, <1>10, <2>2 DEF EndsOK
    <3> QED BY <1>2, <1>8, <1>9, <1>10, <2>1, <2>2, <3>1
  <2>3. CASE x # t /\ y = t
    <3>1. Member(x) /\ grp[x] = None /\ head # None
      BY <1>3, <1>5, <1>9, <1>10, <2>3 DEF EndsOK
    <3>2. x # head => prev[x] # None /\ prev[x] # t
      BY <1>5, <1>8, <1>10, <1>12, <2>1, <3>1 DEF OrderOK
    <3>3. a2[prev'[x]] <= now
      BY <1>8, <1>9, <1>11, <2>3, <3>1, <3>2, Ranges DEF CondInv
    <3>4. prev'[x] # None
      BY <1>11, <2>3, <3>2, Ranges DEF CondInv
    <3> QED BY <1>8, <1>9, <2>3, <3>3, <3>4
  <2>4. CASE x # t /\ y # t
    <3>1. Member(x) /\ Member(y) /\ grp[x] = grp[y] /\ grp[x] # Cv /\ a2[x] = age[x] /\ a2[y] = age[y]
      BY <1>3, <1>9, <2>4
    <3>2. next'[x] = next[x] /\ next[x] # t
      BY <1>2, <1>3, <1>5, <2>4, <3>1 DEF LinksOK
    <3>3. prev[x] # None => prev'[x] = prev[x] /\ prev[x] # t
      BY <1>10, <1>11, <1>12, <2>4, <3>1
    <3>4. /\ age[x] = age[y] => x = y
          /\ age[y] < age[x] => next[x] # None /\ age[y] <= age[next[x]]
          /\ age[y] > age[x] => prev[x] # None /\ age[y] >= age[prev[x]]
      BY <1>5, <3>1 DEF OrderOK
    <3> QED BY <1>9, <3>1, <3>2, <3>3, <3>4, Ranges DEF CondInv
  <2>5. CASE x = t /\ y = t
    BY <1>8, <1>9, <2>5
  <2> QED BY <2>2, <2>3, <2>4, <2>5
<1>20. EndsOK(g2)'
  BY <1>2, <1>3, <1>9, <1>10, <1>11 DEF EndsOK
<1>21. MetOK(g2, a2)'
  BY <1>1, <1>2, <1>3, <1>4, <1>5, <1>9, <1>16 DEF MetOK, WAITING, SIGNALED, LEAVING
<1>22. FirstOK(g2, a2)'
  <2>1. \A s, x \in Threads : Met(g2, a2, s, x)' => Met(grp, age, s, x) /\ x # t
    BY <1>16
  <2>2. \A s \in Threads : first[s] # None /\ (Looping(s) \/ Split(s)) =>
           first[s] \in Threads \ {t} /\ Met(grp, age, s, first[s])
    BY <1>3, <1>5, Ranges DEF FirstOK, Met, CondInv
  <2> QED BY <1>1, <1>2, <1>3, <1>5, <1>9, <1>16, <2>1, <2>2 DEF FirstOK
<1>23. HandOverOK(g2)'
  BY <1>2, <1>3, <1>5, <1>9, <1>10, <1>11, <1>12, Ranges DEF HandOverOK, CondInv
<1>24. \E g, a, m : ListsOK(g, a, m)'
  BY <1>17, <1>18, <1>19, <1>20, <1>21, <1>22, <1>23
<1> QED BY <1>13, <1>14, <1>15, <1>24 DEF CondInv

\* A leaving waiter is in the list of the condition variable or in one that a
\* signaller still holds back, so that its neighbours are in that list too.
LEMMA RemoveNodeInv ==
  ASSUME CondInv, BasicInv', NEW t \in Threads, RemoveNode(t)
  PROVE  CondInv'
<1> USE CondAssumption DEF CondAssumption
<1> DEFINE a == prev[t]
           b == next[t]
<1>1. /\ pc[t] = "remove" /\ job[t] = "remove" /\ pc' = [pc EXCEPT ![t] = "unlock"]
      /\ pc \in [Threads -> UNION {StepsOf(j) : j \in Jobs}]
      /\ prev \in [Threads -> Threads \cup {None}] /\ next \in [Threads -> Threads \cup {None}]
      /\ UNCHANGED <<job, word, state, notify, p, first, mwaiters, ref>>
  BY JobAt DEF RemoveNode, Goto, sig, mutex, CondInv, BasicInv, CondTypeOK
<1>2. /\ Member(t) /\ ~Member(t)' /\ state[t] = LEAVING
      /\ \A x \in Threads : /\ x # t => (Member(x)' <=> Member(x))
                            /\ x # t => (Closed(x)' <=> Closed(x))
                            /\ Looping(x)' <=> Looping(x)
                            /\ Early(x)' <=> Early(x)
                            /\ Split(x)' <=> Split(x)
                            /\ Counting(x)' <=> Counting(x)
                            /\ Reporting(x)' <=> Reporting(x)
  BY <1>1 DEF Member, Closed, Reporting, Looping, Early, Split, Counting, Taking, CondInv, BasicInv, CallOK
<1>3. \A s \in Threads : ~Looping(s)
  BY <1>1, OneInList DEF CondInv, CvHolding, Looping
<1>4. PICK grp, age, now : ListsOK(grp, age, now)
  BY DEF CondInv
<1> USE DEF ListsOK
<1>5. /\ grp \in [Threads -> Threads \cup {None, Cv}] /\ age \in [Threads -> Nat]
      /\ grp[t] # Cv /\ Closed(t)
  BY <1>2, <1>4 DEF GhostOK, HandOverOK, MetOK, SIGNALED, LEAVING
<1>6. /\ a # None => /\ a \in Threads \ {t} /\ Member(a) /\ next[a] = t
                     /\ grp[a] = grp[t] /\ age[a] > age[t] /\ Closed(a)
      /\ b # None => /\ b \in Threads \ {t} /\ Member(b) /\ prev[b] = t
                     /\ grp[b] = grp[t] /\ age[t] > age[b] /\ Closed(b)
  <2>1. a # None => a \in Threads \ {t} /\ Member(a) /\ next[a] = t /\ grp[a] = grp[t] /\ age[a] > age[t]
    BY <1>2, <1>4, <1>5, Ranges DEF LinksOK, CondInv
  <2>2. b # None => b \in Threads \ {t} /\ Member(b) /\ prev[b] = t
    BY <1>2, <1>4, <1>5, <2>1, Ranges DEF LinksOK, CondInv
  <2>3. b # None => grp[b] = grp[t] /\ age[t] > age[b]
    BY <1>4, <2>2 DEF LinksOK
  <2> QED BY <1>4, <1>5, <2>1, <2>2, <2>3 DEF MetOK
<1>7. /\ head = t => a = None
      /\ tail = t => b = None
  BY <1>4 DEF EndsOK
<1>8. /\ a # None => next'[a] = b
      /\ b # None => prev'[b] = a
      /\ \A x \in Threads : x # a => next'[x] = next[x]
      /\ \A x \in Threads : x # b => prev'[x] = prev[x]
      /\ head' = IF head = t THEN b ELSE head
      /\ tail' = IF tail = t THEN a ELSE tail
  BY <1>1, <1>6, <1>7 DEF RemoveNode
<1>9. Outside'
  <2> SUFFICES ASSUME NEW x \in Threads, ~Member(x)', prev'[x] # None, job'[x] # "barrier"
               PROVE  job'[x] = "remove" /\ next'[prev'[x]] # x
    BY DEF Outside
  <2>1. CASE x = t
    <3>1. prev'[t] = a /\ a # None
      BY <1>6, <1>8, <2>1
    <3> QED BY <1>1, <1>6, <1>8, <2>1, <3>1
  <2>2. CASE x # t
    <3>1. ~Member(x) /\ x # b /\ prev'[x] = prev[x] /\ job'[x] = job[x]
      BY <1>1, <1>2, <1>6, <1>8, <2>2
    <3>2. job[x] = "remove" /\ next[prev[x]] # x /\ prev[x] \in Threads
      BY <3>1, Ranges DEF CondInv, Outside
    <3>3. next'[prev[x]] # x
      BY <1>8, <3>1, <3>2
    <3> QED BY <3>1, <3>2, <3>3
  <2> QED BY <2>1, <2>2
<1>10. RefOK'
  <2>1. \A s \in Threads : Pending(s)' = Pending(s)
    BY <1>1, <1>2 DEF Pending
  <2> QED BY <1>1, <1>2, <2>1 DEF CondInv, RefOK
<1>11. CarryOK'
  <2>1. Carrying' = Carrying
    BY <1>1, <1>2, <1>6, <1>8 DEF Carrying, SIGNALED, LEAVING
  <2> QED BY <1>1, <2>1 DEF CondInv, CarryOK
<1>12. \A s, x \in Threads : Met(grp, age, s, x)' <=> (Met(grp, age, s, x) /\ x # t)
  BY <1>2, <1>3 DEF Met
<1>13. GhostOK(grp, age, now)'
  BY <1>4 DEF GhostOK
<1>14. LinksOK(grp, age)'
  <2> SUFFICES ASSUME NEW x \in Threads, Member(x)'
               PROVE  /\ prev'[x] # None =>
                           /\ Member(prev[x])' /\ next'[prev'[x]] = x
                           /\ grp[prev'[x]] = grp[x] /\ age[prev'[x]] > age[x]
                      /\ next'[x] # None /\ (grp[x] # Cv \/ Closed(x)') =>
                           Member(next[x])' /\ prev'[next'[x]] = x
    BY DEF LinksOK
  <2>1. x # t /\ Member(x) /\ (Closed(x)' <=> Closed(x))
    BY <1>2
  <2>2. prev'[x] # None => /\ Member(prev[x])' /\ next'[prev'[x]] = x
                           /\ grp[prev'[x]] = grp[x] /\ age[prev'[x]] > age[x]
    <3>1. CASE x = b
      BY <1>2, <1>5, <1>6, <1>8, <2>1, <3>1
    <3>2. CASE x # b
      <4>1. prev[x] # None => /\ prev[x] \in Threads \ {t, a} /\ Member(prev[x]) /\ next[prev[x]] = x
                              /\ grp[prev[x]] = grp[x] /\ age[prev[x]] > age[x]
        BY <1>4, <1>6, <2>1, <3>2, Ranges DEF LinksOK, CondInv
      <4> QED BY <1>2, <1>8, <3>2, <4>1
    <3> QED BY <3>1, <3>2
  <2>3. next'[x] # None /\ (grp[x] # Cv \/ Closed(x)') => Member(next[x])' /\ prev'[next'[x]] = x
    <3>1. CASE x = a
      BY <1>2, <1>6, <1>8, <2>1, <3>1
    <3>2. CASE x # a
      <4>1. next[x] # None /\ (grp[x] # Cv \/ Closed(x)) =>
              next[x] \in Threads \ {t, b} /\ Member(next[x]) /\ prev[next[x]] = x
        BY <1>4, <1>6, <2>1, <3>2, Ranges DEF LinksOK, CondInv
      <4> QED BY <1>2, <1>8, <2>1, <3>2, <4>1
    <3> QED BY <3>1, <3>2
  <2> QED BY <2>2, <2>3
<1>15. OrderOK(grp, age)'
  <2> SUFFICES ASSUME NEW x \in Threads, NEW y \in Threads, Member(x)', Member(y)', grp[x] = grp[y],
                      grp[x] # Cv
               PROVE  /\ age[x] = age[y] => x = y
                      /\ age[y] < age[x] => next'[x] # None /\ age[y] <= age[next'[x]]
                      /\ age[y] > age[x] => prev'[x] # None /\ age[y] >= age[prev'[x]]
    BY DEF OrderOK
  <2>1. Member(x) /\ Member(y) /\ x # t /\ y # t
    BY <1>2
  <2>2. /\ age[x] = age[y] => x = y
        /\ age[y] < age[x] => next[x] # None /\ age[y] <= age[next[x]]
        /\ age[y] > age[x] => prev[x] # None /\ age[y] >= age[prev[x]]
    BY <1>4, <2>1 DEF OrderOK
  <2>3. grp[t] = grp[y] => /\ age[t] # age[y]
                           /\ age[y] < age[t] => next[t] # None /\ age[y] <= age[next[t]]
                           /\ age[y] > age[t] => prev[t] # None /\ age[y] >= age[prev[t]]
    BY <1>2, <1>4, <1>5, <2>1 DEF OrderOK
  <2>4. age[y] < age[x] => next'[x] # None /\ age[y] <= age[next'[x]]
    <3>1. CASE x = a
      <4> SUFFICES ASSUME age[y] < age[x] PROVE next'[x] # None /\ age[y] <= age[next'[x]]
        OBVIOUS
      <4>1. a # None /\ grp[t] = grp[y] /\ age[y] <= age[t]
        BY <1>6, <2>2, <3>1
      <4>2. age[y] < age[t]
        BY <1>5, <2>3, <4>1
      <4> QED BY <1>8, <2>3, <3>1, <4>1, <4>2
    <3>2. CASE x # a
      BY <1>8, <2>2, <3>2
    <3> QED BY <3>1, <3>2
  <2>5. age[y] > age[x] => prev'[x] # None /\ age[y] >= age[prev'[x]]
    <3>1. CASE x = b
      <4> SUFFICES ASSUME age[y] > age[x] PROVE prev'[x] # None /\ age[y] >= age[prev'[x]]
        OBVIOUS
      <4>1. b # None /\ grp[t] = grp[y] /\ age[y] >= age[t]
        BY <1>6, <2>2, <3>1
      <4>2. age[y] > age[t]
        BY <1>5, <2>3, <4>1
      <4> QED BY <1>8, <2>3, <3>1, <4>1, <4>2
    <3>2. CASE x # b
      BY <1>8, <2>2, <3>2
    <3> QED BY <3>1, <3>2
  <2> QED BY <2>2, <2>4, <2>5
<1>16. EndsOK(grp)'
  <2>1. head' # None => Member(head)' /\ grp[head'] = None /\ prev'[head'] = None
    <3>1. CASE head = t
      BY <1>2, <1>4, <1>6, <1>7, <1>8, <3>1 DEF EndsOK
    <3>2. CASE head # t
      <4>1. head # None => head # b
        BY <1>4, <1>6 DEF EndsOK
      <4> QED BY <1>2, <1>4, <1>8, <3>2, <4>1, Ranges DEF EndsOK, CondInv
    <3> QED BY <3>1, <3>2
  <2>2. tail' # None => Member(tail)' /\ grp[tail'] = None /\ next'[tail'] = None
    <3>1. CASE tail = t
      BY <1>2, <1>4, <1>6, <1>7, <1>8, <3>1 DEF EndsOK
    <3>2. CASE tail # t
      <4>1. tail # None => tail # a
        BY <1>4, <1>6 DEF EndsOK
      <4> QED BY <1>2, <1>4, <1>8, <3>2, <4>1, Ranges DEF EndsOK, CondInv
    <3> QED BY <3>1, <3>2
  <2>3. ASSUME NEW x \in Threads, Member(x)', grp[x] = None PROVE head' # None /\ tail' # None
    <3>1. Member(x) /\ x # t /\ head # None /\ tail # None
      BY <1>2, <1>4, <2>3 DEF EndsOK
    <3>2. grp[t] = None => a # None \/ b # None
      BY <1>2, <1>4, <1>5, <2>3, <3>1 DEF OrderOK
    <3>3. head = t \/ tail = t => grp[t] = None
      BY <1>4 DEF EndsOK
    <3> QED BY <1>7, <1>8, <3>1, <3>2, <3>3
  <2> QED BY <2>1, <2>2, <2>3 DEF EndsOK
<1>17. MetOK(grp, age)'
  BY <1>1, <1>2, <1>3, <1>4, <1>12 DEF MetOK
<1>18. FirstOK(grp, age)'
  <2>1. \A s \in Threads : first[s] # None /\ (Looping(s) \/ Split(s)) =>
           first[s] \in Threads \ {t} /\ Met(grp, age, s, first[s]) /\ state[first[s]] = SIGNALED
    BY <1>2, <1>4, Ranges DEF FirstOK, CondInv, SIGNALED, LEAVING
  <2> QED BY <1>1, <1>2, <1>4, <1>12, <2>1 DEF FirstOK
<1>19. HandOverOK(grp)'
  <2> SUFFICES ASSUME NEW x \in Threads, Member(x)', grp[x] = Cv
               PROVE  /\ state'[x] = SIGNALED
                      /\ prev'[x] # None => Closed(prev[x])'
                      /\ Closed(x)' => next'[x] # None
    BY DEF HandOverOK
  <2>1. x # t /\ x # a /\ x # b /\ Member(x)
    BY <1>2, <1>5, <1>6
  <2>2. prev[x] # None => prev[x] \in Threads \ {t}
    BY <1>4, <1>5, <2>1, Ranges DEF LinksOK, CondInv
  <2> QED BY <1>1, <1>2, <1>4, <1>8, <2>1, <2>2 DEF HandOverOK
<1>20. \E g, ag, m : ListsOK(g, ag, m)'
  BY <1>13, <1>14, <1>15, <1>16, <1>17, <1>18, <1>19
<1> QED BY <1>9, <1>10, <1>11, <1>20 DEF CondInv

LEMMA CarryingFinite ==
  /\ IsFiniteSet(Carrying) /\ Cardinality(Carrying) \in Nat
<1>1. Carrying \subseteq Threads
  BY DEF Carrying
<1> QED BY <1>1, CondAssumption, FS_Subset, FS_CardinalityType DEF CondAssumption

\* The wake-up goes from t to the one before it, whose barrier was closed.
LEMMA PassInv ==
  ASSUME CondInv, BasicInv', NEW t \in Threads, Pass(t)
  PROVE  CondInv'
<1> USE CondAssumption DEF CondAssumption
<1> DEFINE a == prev[t]
<1>1. /\ pc[t] = "pass" /\ job[t] = "barrier"
      /\ pc' = [pc EXCEPT ![t] = IF a = None THEN "done" ELSE "passwake"]
      /\ mwaiters' = mwaiters + (IF next[t] = None THEN 1 ELSE 0) - (IF a = None THEN 1 ELSE 0)
      /\ word' = IF a = None THEN word ELSE [word EXCEPT ![a] = 0]
      /\ pc \in [Threads -> UNION {StepsOf(j) : j \in Jobs}] /\ word \in [Threads \cup {Cv} -> 0 .. 2]
      /\ a \in Threads \cup {None}
      /\ UNCHANGED <<job, head, tail, prev, next, state, notify, p, first, ref>>
  BY JobAt DEF Pass, Goto, cvVars, nodes, sig, CondInv, BasicInv, CondTypeOK
<1>2. /\ Member(t) /\ ~Member(t)' /\ ~Closed(t) /\ state[t] = SIGNALED
      /\ \A x \in Threads : /\ x # t => (Member(x)' <=> Member(x))
                            /\ x # t /\ x # a => (Closed(x)' <=> Closed(x))
                            /\ Looping(x)' <=> Looping(x)
                            /\ Early(x)' <=> Early(x)
                            /\ Split(x)' <=> Split(x)
                            /\ Counting(x)' <=> Counting(x)
                            /\ Reporting(x)' <=> Reporting(x)
      /\ a # None => ~Closed(a)'
  BY <1>1 DEF Member, Closed, Reporting, Looping, Early, Split, Counting, Taking, CondInv, BasicInv, CallOK
<1>3. PICK grp, age, now : ListsOK(grp, age, now)
  BY DEF CondInv
<1> USE DEF ListsOK
<1>4. grp[t] = Cv
  BY <1>2, <1>3 DEF MetOK
<1>5. a # None => a # t /\ Member(a) /\ next[a] = t /\ grp[a] = Cv /\ Closed(a) /\ state[a] = SIGNALED
  BY <1>2, <1>3, <1>4, <1>1 DEF LinksOK, HandOverOK
<1>6. \A x \in Threads : Member(x) => prev[x] # t
  BY <1>2, <1>3, <1>4 DEF LinksOK, HandOverOK
<1>7. Outside'
  BY <1>1, <1>2 DEF CondInv, Outside
<1>8. RefOK'
  <2>1. \A s \in Threads : Pending(s)' = Pending(s)
    BY <1>1, <1>2 DEF Pending
  <2> QED BY <1>1, <1>2, <2>1 DEF CondInv, RefOK
<1>9. CarryOK'
  <2> DEFINE C == Carrying \ {t}
  <2>1. t \in Carrying <=> next[t] # None
    BY <1>2 DEF Carrying
  <2>2. Cardinality(C) = Cardinality(Carrying) - (IF next[t] = None THEN 0 ELSE 1)
    <3>1. CASE next[t] = None
      <4>1. C = Carrying
        BY <2>1, <3>1
      <4> QED BY <3>1, <4>1, CarryingFinite
    <3>2. CASE next[t] # None
      BY <2>1, <3>2, CarryingFinite, FS_RemoveElement
    <3> QED BY <3>1, <3>2
  <2>3. IsFiniteSet(C) /\ Cardinality(C) \in Nat
    BY CarryingFinite, FS_Subset, FS_CardinalityType
  <2>4. CASE a = None
    <3>1. Carrying' = C
      BY <1>1, <1>2, <2>4 DEF Carrying
    <3> QED BY <1>1, <2>2, <2>4, <3>1, CarryingFinite DEF CondInv, CarryOK
  <2>5. CASE a # None
    <3>1. Carrying' = C \cup {a} /\ a \notin C
      BY <1>1, <1>2, <1>5, <2>5 DEF Carrying
    <3>2. Cardinality(C \cup {a}) = Cardinality(C) + 1
      BY <2>3, <3>1, FS_AddElement
    <3> QED BY <1>1, <2>2, <2>5, <3>1, <3>2, CarryingFinite DEF CondInv, CarryOK
  <2> QED BY <2>4, <2>5
<1>10. \A s, x \in Threads : /\ Met(grp, age, s, x)' <=> Met(grp, age, s, x)
                             /\ Met(grp, age, s, x) => x # t
  BY <1>1, <1>2, <1>4 DEF Met
<1>11. GhostOK(grp, age, now)'
  BY <1>3 DEF GhostOK
<1>12. LinksOK(grp, age)'
  <2> SUFFICES ASSUME NEW x \in Threads, Member(x)'
               PROVE  /\ prev[x] # None =>
                           /\ Member(prev[x])' /\ next[prev[x]] = x
                           /\ grp[prev[x]] = grp[x] /\ age[prev[x]] > age[x]
                      /\ next[x] # None /\ (grp[x] # Cv \/ Closed(x)') =>
                           Member(next[x])' /\ prev[next[x]] = x
    BY <1>1 DEF LinksOK
  <2>1. x # t /\ Member(x) /\ prev[x] # t
    BY <1>2, <1>6
  <2>2. next[x] # None /\ (grp[x] # Cv \/ Closed(x)') => x # a /\ (grp[x] # Cv \/ Closed(x))
    BY <1>1, <1>2, <1>5, <2>1
  <2>3. next[x] # None /\ (grp[x] # Cv \/ Closed(x)') => next[x] # t /\ Member(next[x]) /\ prev[next[x]] = x
    BY <1>3, <2>1, <2>2 DEF LinksOK
  <2>4. prev[x] # None => /\ prev[x] \in Threads \ {t} /\ Member(prev[x]) /\ next[prev[x]] = x
                          /\ grp[prev[x]] = grp[x] /\ age[prev[x]] > age[x]
    BY <1>3, <2>1, Ranges DEF LinksOK, CondInv
  <2>5. next[x] # None => next[x] \in Threads
    BY Ranges DEF CondInv
  <2> QED BY <1>1, <1>2, <2>3, <2>4, <2>5
<1>13. OrderOK(grp, age)' /\ EndsOK(grp)'
  BY <1>1, <1>2, <1>3, <1>4, Ranges DEF OrderOK, EndsOK, CondInv
<1>14. MetOK(grp, age)'
  <2>1. \A s \in Threads : Looping(s) /\ p[s] # None => p[s] \in Threads \ {t}
    BY <1>3, <1>4, Ranges DEF MetOK, CondInv
  <2> QED BY <1>1, <1>2, <1>3, <1>5, <1>10, <2>1 DEF MetOK
<1>15. FirstOK(grp, age)'
  BY <1>1, <1>2, <1>3, <1>10, Ranges DEF FirstOK, CondInv
<1>16. HandOverOK(grp)'
  <2>1. \A x \in Threads : Member(x) /\ x # t /\ prev[x] # None => prev[x] # a
    BY <1>3, <1>5 DEF LinksOK
  <2> QED BY <1>1, <1>2, <1>3, <1>5, <1>6, <2>1, Ranges DEF HandOverOK, CondInv
<1>17. \E g, ag, m : ListsOK(g, ag, m)'
  BY <1>11, <1>12, <1>13, <1>14, <1>15, <1>16
<1> QED BY <1>7, <1>8, <1>9, <1>17 DEF CondInv

\* The signaller meets the oldest node it has not met, and no other.
LEMMA SigLoopInv ==
  ASSUME CondInv, BasicInv', NEW t \in Threads, SigLoop(t)
  PROVE  CondInv'
<1> USE CondAssumption DEF CondAssumption
<1> DEFINE x == p[t]
<1>1. /\ pc[t] = "sigloop" /\ x \in Threads
      /\ p'[t] = prev[x] /\ \A s \in Threads \ {t} : p'[s] = p[s] /\ first'[s] = first[s]
      /\ UNCHANGED <<pc, job, word, head, tail, prev, next, mwaiters>>
      /\ \A y \in Threads \ {x} : state'[y] = state[y] /\ notify'[y] = notify[y]
  BY DEF SigLoop, cvVars, mutex, CondInv, BasicInv, CondTypeOK
<1>2. /\ Looping(t) /\ ~Split(t) /\ ~Early(t)
      /\ \A y \in Threads : /\ Member(y)' <=> Member(y)
                            /\ Closed(y)' <=> Closed(y)
                            /\ Looping(y)' <=> Looping(y)
                            /\ Early(y)' <=> Early(y)
                            /\ Split(y)' <=> Split(y)
                            /\ Counting(y)' <=> Counting(y)
                            /\ Reporting(y)' <=> Reporting(y)
  BY <1>1 DEF Member, Closed, Reporting, Looping, Early, Split, Counting, Taking
<1>3. \A s \in Threads \ {t} : ~Looping(s)
  BY <1>1, OneInList DEF CondInv, CvHolding
<1>4. PICK grp, age, now : ListsOK(grp, age, now)
  BY DEF CondInv
<1> USE DEF ListsOK
<1>5. /\ age \in [Threads -> Nat]
      /\ Member(x) /\ grp[x] = None /\ Closed(x)
      /\ \A y \in Threads : Member(y) => grp[y] # t
  BY <1>1, <1>2, <1>4 DEF MetOK, GhostOK
<1>6. \A s \in Threads : ~Met(grp, age, s, x)
  BY <1>1, <1>3, <1>5 DEF Met
<1>7. notify[x] = None /\ state[x] \in {WAITING, LEAVING}
  BY <1>1, <1>4, <1>5, <1>6, MemberState DEF MetOK, CondInv
<1>8. /\ state[x] = WAITING => /\ state'[x] = SIGNALED /\ notify'[x] = notify[x] /\ ref' = ref
                               /\ first'[t] = IF first[t] = None THEN x ELSE first[t]
      /\ state[x] = LEAVING => /\ ref' = [ref EXCEPT ![t] = ref[t] + 1]
                               /\ notify'[x] = t /\ state'[x] = LEAVING /\ first'[t] = first[t]
  BY <1>1, <1>7 DEF SigLoop, WAITING, LEAVING, CondInv, BasicInv, CondTypeOK
<1>9. \A s, y \in Threads : Met(grp, age, s, y)' <=> Met(grp, age, s, y) \/ (s = t /\ y = x)
  <2>1. \A s \in Threads \ {t}, y \in Threads : Met(grp, age, s, y)' <=> Met(grp, age, s, y)
    BY <1>1, <1>2, <1>3 DEF Met
  <2>2. ASSUME NEW y \in Threads, Member(y), grp[y] = None
        PROVE  (prev[x] = None \/ age[y] < age[prev[x]]) <=> (age[y] < age[x] \/ y = x)
    <3>1. /\ age[x] = age[y] => x = y
          /\ age[y] > age[x] => prev[x] # None /\ age[y] >= age[prev[x]]
      BY <1>1, <1>4, <1>5, <2>2 DEF OrderOK
    <3>2. prev[x] # None => age[prev[x]] > age[x] /\ age[prev[x]] \in Nat
      BY <1>1, <1>4, <1>5, Ranges DEF LinksOK, CondInv
    <3> QED BY <1>1, <1>5, <3>1, <3>2
  <2>3. \A y \in Threads : Met(grp, age, t, y)' <=> Met(grp, age, t, y) \/ y = x
    BY <1>1, <1>2, <1>5, <2>2 DEF Met
  <2> QED BY <2>1, <2>3, <1>1
<1>10. Outside'
  BY <1>1, <1>2 DEF CondInv, Outside
<1>11. RefOK'
  <2>1. CASE state[x] = WAITING
    <3>1. \A s \in Threads : Pending(s)' = Pending(s)
      BY <1>1, <1>2, <1>8, <2>1 DEF Pending
    <3> QED BY <1>2, <1>8, <2>1, <3>1 DEF CondInv, RefOK
  <2>2. CASE state[x] = LEAVING
    <3>1. \A s \in Threads : Pending(s)' = IF s = t THEN Pending(s) \cup {x} ELSE Pending(s)
      <4>1. Reporting(x)
        BY <1>1, <1>5, <2>2, MemberState DEF CondInv
      <4> QED BY <1>1, <1>2, <1>7, <1>8, <2>2, <4>1 DEF Pending
    <3>2. x \notin Pending(t)
      BY <1>7 DEF Pending
    <3>3. Cardinality(Pending(t) \cup {x}) = Cardinality(Pending(t)) + 1
      BY <3>2, PendingFinite, FS_AddElement
    <3>4. \A s \in Threads : ref'[s] = Cardinality(Pending(s)')
      <4>1. ref'[t] = ref[t] + 1 /\ \A s \in Threads \ {t} : ref'[s] = ref[s]
        BY <1>8, <2>2 DEF CondInv, BasicInv, CondTypeOK
      <4>2. \A s \in Threads : ref[s] = Cardinality(Pending(s))
        BY DEF CondInv, RefOK
      <4> QED BY <3>1, <3>3, <4>1, <4>2
    <3>5. Counting(t)'
      BY <1>2 DEF Counting
    <3> QED BY <1>2, <3>1, <3>4, <3>5 DEF CondInv, RefOK
  <2> QED BY <1>7, <2>1, <2>2
<1>12. CarryOK'
  <2>1. Carrying' = Carrying
    BY <1>1, <1>2, <1>5 DEF Carrying
  <2> QED BY <1>1, <2>1 DEF CondInv, CarryOK
<1>13. GhostOK(grp, age, now)' /\ LinksOK(grp, age)'
  BY <1>1, <1>2, <1>4, Ranges DEF GhostOK, LinksOK, CondInv
<1>14. OrderOK(grp, age)' /\ EndsOK(grp)'
  BY <1>1, <1>2, <1>4, Ranges DEF OrderOK, EndsOK, CondInv
<1>15. MetOK(grp, age)'
  <2>1. \A s \in Threads : Looping(s)' /\ p'[s] # None => Member(p[s])' /\ grp[p'[s]] = None
    <3>1. prev[x] # None => prev[x] \in Threads /\ Member(prev[x]) /\ grp[prev[x]] = None
      BY <1>1, <1>4, <1>5, Ranges DEF LinksOK, CondInv
    <3> QED BY <1>1, <1>2, <1>3, <3>1
  <2>2. \A s, y \in Threads : Met(grp, age, s, y)' =>
          state'[y] = SIGNALED \/ (state'[y] = LEAVING /\ notify'[y] = s)
    BY <1>1, <1>4, <1>6, <1>7, <1>8, <1>9 DEF MetOK
  <2>3. \A y \in Threads : Member(y)' /\ grp[y] = None /\ (\A s \in Threads : ~Met(grp, age, s, y)') =>
          state'[y] # SIGNALED /\ notify'[y] = None
    BY <1>1, <1>2, <1>4, <1>9 DEF MetOK
  <2> QED BY <1>2, <1>4, <2>1, <2>2, <2>3 DEF MetOK
<1>16. FirstOK(grp, age)'
  <2> SUFFICES ASSUME NEW s \in Threads
               PROVE  /\ Early(s)' => first'[s] = None
                      /\ Looping(s)' \/ Split(s)' =>
                           /\ first'[s] # None => Met(grp, age, s, first[s])' /\ state'[first'[s]] = SIGNALED
                           /\ \A y \in Threads : Met(grp, age, s, y)' /\
                                (first'[s] = None \/ age[y] < age[first'[s]]) => state'[y] = LEAVING
    BY DEF FirstOK
  <2>1. /\ Early(s) => first[s] = None
        /\ Looping(s) \/ Split(s) =>
             /\ first[s] # None => /\ first[s] \in Threads \ {x} /\ Met(grp, age, s, first[s])
                                   /\ state[first[s]] = SIGNALED
             /\ \A y \in Threads : Met(grp, age, s, y) /\ (first[s] = None \/ age[y] < age[first[s]]) =>
                  state[y] = LEAVING
    BY <1>4, <1>6, Ranges DEF FirstOK, CondInv
  <2>2. CASE s # t
    BY <1>1, <1>2, <1>6, <1>9, <2>1, <2>2
  <2>3. CASE s = t
    <3>1. \A y \in Threads : Met(grp, age, t, y) => y # x /\ age[y] < age[x]
      BY <1>1, <1>5, <1>6 DEF Met
    <3>2. CASE state[x] = WAITING /\ first[t] = None
      BY <1>1, <1>2, <1>5, <1>8, <1>9, <2>1, <2>3, <3>1, <3>2
    <3>3. CASE state[x] = WAITING /\ first[t] # None
      BY <1>1, <1>2, <1>5, <1>8, <1>9, <2>1, <2>3, <3>1, <3>3
    <3>4. CASE state[x] = LEAVING
      BY <1>1, <1>2, <1>8, <1>9, <2>1, <2>3, <3>1, <3>4
    <3> QED BY <1>7, <3>2, <3>3, <3>4
  <2> QED BY <2>2, <2>3
<1>17. HandOverOK(grp)'
  BY <1>1, <1>2, <1>4, <1>5, Ranges DEF HandOverOK, CondInv
<1>18. \E g, a, m : ListsOK(g, a, m)'
  BY <1>13, <1>14, <1>15, <1>16, <1>17
<1> QED BY <1>10, <1>11, <1>12, <1>18 DEF CondInv

\* The nodes met, which are the oldest, become a list of the signaller.
LEMMA SigSplitInv ==
  ASSUME CondInv, BasicInv', NEW t \in Threads, SigSplit(t)
  PROVE  CondInv'
<1> USE CondAssumption DEF CondAssumption
<1> DEFINE x == p[t]
           c == next[x]
<1>1. /\ pc[t] = "sigloop" /\ job[t] = "signal" /\ pc' = [pc EXCEPT ![t] = "unlock"]
      /\ x \in Threads \cup {None} /\ tail' = x
      /\ pc \in [Threads -> UNION {StepsOf(j) : j \in Jobs}]
      /\ prev \in [Threads -> Threads \cup {None}] /\ next \in [Threads -> Threads \cup {None}]
      /\ UNCHANGED <<job, word, state, notify, p, first, mwaiters, ref>>
  BY JobAt DEF SigSplit, Goto, sig, mutex, CondInv, BasicInv, CondTypeOK
<1>2. /\ Looping(t) /\ ~Looping(t)' /\ Split(t)' /\ ~Split(t) /\ ~Early(t)'
      /\ \A y \in Threads : /\ Member(y)' <=> Member(y)
                            /\ Member(y) => (Closed(y)' <=> Closed(y))
                            /\ y # t => (Looping(y)' <=> Looping(y)) /\ (Split(y)' <=> Split(y))
                            /\ y # t => (Early(y)' <=> Early(y))
                            /\ Counting(y)' <=> Counting(y)
                            /\ Reporting(y)' <=> Reporting(y)
  BY <1>1 DEF Member, Closed, Reporting, Looping, Early, Split, Counting, Taking
<1>3. \A s \in Threads \ {t} : ~Looping(s)
  BY <1>1, OneInList DEF CondInv, CvHolding
<1>4. PICK grp, age, now : ListsOK(grp, age, now)
  BY DEF CondInv
<1>5. PICK g2 : g2 = [y \in Threads |-> IF Met(grp, age, t, y) THEN t ELSE grp[y]]
  OBVIOUS
<1> USE DEF ListsOK
<1>6. /\ grp \in [Threads -> Threads \cup {None, Cv}] /\ age \in [Threads -> Nat]
      /\ \A y \in Threads : Member(y) => grp[y] # t
      /\ x # None => Member(x) /\ grp[x] = None /\ Closed(x)
  BY <1>1, <1>2, <1>4 DEF GhostOK, MetOK
<1>7. \A y \in Threads : Met(grp, age, t, y) <=> Member(y) /\ grp[y] = None /\ (x = None \/ age[y] < age[x])
  BY <1>2, <1>6 DEF Met
<1>8. /\ g2 \in [Threads -> Threads \cup {None, Cv}]
      /\ \A y \in Threads : g2[y] = IF Met(grp, age, t, y) THEN t ELSE grp[y]
  BY <1>5, <1>6
<1>9. \A y \in Threads : Member(y) => /\ g2[y] = Cv <=> grp[y] = Cv
                                      /\ g2[y] = t <=> Met(grp, age, t, y)
                                      /\ g2[y] = None => grp[y] = None
  BY <1>6, <1>7, <1>8
<1>10. \A s, y \in Threads : Met(g2, age, s, y)' <=> Met(grp, age, s, y)
  <2>1. \A y \in Threads : Met(g2, age, t, y)' <=> Met(grp, age, t, y)
    BY <1>2, <1>7, <1>9 DEF Met
  <2>2. \A s \in Threads \ {t}, y \in Threads : Met(g2, age, s, y)' <=> Met(grp, age, s, y)
    BY <1>2, <1>3, <1>7, <1>8 DEF Met
  <2> QED BY <2>1, <2>2
<1>11. x # None /\ c # None => /\ c \in Threads \ {x} /\ Member(c) /\ prev[c] = x /\ grp[c] = None
                               /\ Met(grp, age, t, c)
  <2> SUFFICES ASSUME x # None, c # None
               PROVE  /\ c \in Threads \ {x} /\ Member(c) /\ prev[c] = x /\ grp[c] = None
                      /\ Met(grp, age, t, c)
    OBVIOUS
  <2>1. c \in Threads /\ Member(c) /\ prev[c] = x
    BY <1>1, <1>4, <1>6 DEF LinksOK
  <2>2. grp[c] = None /\ age[x] > age[c]
    BY <1>1, <1>4, <1>6, <2>1 DEF LinksOK
  <2>3. x \in Threads /\ age[x] \in Nat /\ age[c] \in Nat
    BY <1>1, <1>6, <2>1
  <2>4. age[c] < age[x] /\ c # x
    BY <2>2, <2>3
  <2> QED BY <1>7, <2>1, <2>2, <2>4
<1>12. /\ x = None => head' = None /\ UNCHANGED <<prev, next>>
       /\ x # None => /\ head' = head /\ next'[x] = None
                      /\ c # None => prev'[c] = None
                      /\ \A y \in Threads : y # x => next'[y] = next[y]
                      /\ \A y \in Threads : y # c => prev'[y] = prev[y]
  BY <1>1, <1>11 DEF SigSplit
<1>13. Outside'
  <2> SUFFICES ASSUME NEW y \in Threads, ~Member(y)', prev'[y] # None, job'[y] # "barrier"
               PROVE  job'[y] = "remove" /\ next'[prev'[y]] # y
    BY DEF Outside
  <2>1. ~Member(y) /\ prev'[y] = prev[y] /\ job'[y] = job[y]
    BY <1>1, <1>2, <1>11, <1>12
  <2>2. job[y] = "remove" /\ next[prev[y]] # y /\ prev[y] \in Threads
    BY <2>1, Ranges DEF CondInv, Outside
  <2>3. next'[prev[y]] # y
    BY <1>1, <1>12, <2>2
  <2> QED BY <2>1, <2>2, <2>3
<1>14. RefOK'
  <2>1. \A s \in Threads : Pending(s)' = Pending(s)
    BY <1>1, <1>2 DEF Pending
  <2> QED BY <1>1, <1>2, <2>1 DEF CondInv, RefOK
<1>15. CarryOK'
  <2>1. \A y \in Threads : Member(y) /\ ~Closed(y) => next'[y] = next[y]
    BY <1>1, <1>6, <1>12
  <2>2. Carrying' = Carrying
    BY <1>1, <1>2, <2>1 DEF Carrying
  <2> QED BY <1>1, <2>2 DEF CondInv, CarryOK
<1>16. GhostOK(g2, age, now)'
  BY <1>4, <1>8 DEF GhostOK
<1>17. LinksOK(g2, age)'
  <2> SUFFICES ASSUME NEW y \in Threads, Member(y)'
               PROVE  /\ prev'[y] # None =>
                           /\ Member(prev[y])' /\ next'[prev'[y]] = y
                           /\ g2[prev'[y]] = g2[y] /\ age[prev'[y]] > age[y]
                      /\ next'[y] # None /\ (g2[y] # Cv \/ Closed(y)') =>
                           Member(next[y])' /\ prev'[next'[y]] = y
    BY DEF LinksOK
  <2>1. /\ Member(y)
        /\ prev[y] # None =>
             /\ prev[y] \in Threads /\ Member(prev[y]) /\ next[prev[y]] = y
             /\ grp[prev[y]] = grp[y] /\ age[prev[y]] > age[y]
        /\ next[y] # None /\ (grp[y] # Cv \/ Closed(y)) =>
             next[y] \in Threads /\ Member(next[y]) /\ prev[next[y]] = y
    BY <1>2, <1>4, Ranges DEF LinksOK, CondInv
  <2>2. prev'[y] # None => /\ prev'[y] = prev[y]
                           /\ x # None => prev[y] # x
    BY <1>1, <1>12, <2>1
  <2>3. prev'[y] # None => g2[prev[y]] = g2[y]
    <3> SUFFICES ASSUME prev'[y] # None PROVE g2[prev[y]] = g2[y]
      OBVIOUS
    <3>1. x # None /\ grp[y] = None => (age[y] < age[x] <=> age[prev[y]] < age[x])
      <4> SUFFICES ASSUME x # None, grp[y] = None PROVE age[y] < age[x] <=> age[prev[y]] < age[x]
        OBVIOUS
      <4>1. age[x] > age[y] => age[x] >= age[prev[y]]
        BY <1>1, <1>4, <1>6, <2>1 DEF OrderOK
      <4>2. age[prev[y]] # age[x]
        BY <1>1, <1>4, <1>6, <2>1, <2>2 DEF OrderOK
      <4>3. age[x] \in Nat /\ age[y] \in Nat /\ age[prev[y]] \in Nat
        BY <1>1, <1>6, <2>1, <2>2
      <4> QED BY <2>1, <2>2, <4>1, <4>2, <4>3
    <3> QED BY <1>7, <1>8, <2>1, <2>2, <3>1
  <2>4. prev'[y] # None => next'[prev[y]] = y
    BY <1>1, <1>12, <2>1, <2>2
  <2>5. next'[y] # None /\ (g2[y] # Cv \/ Closed(y)') => Member(next[y])' /\ prev'[next'[y]] = y
    <3> SUFFICES ASSUME next'[y] # None, g2[y] # Cv \/ Closed(y)' PROVE Member(next[y])' /\ prev'[next'[y]] = y
      OBVIOUS
    <3>1. next'[y] = next[y] /\ (x # None => y # x)
      BY <1>1, <1>12
    <3>2. next[y] \in Threads /\ Member(next[y]) /\ prev[next[y]] = y
      BY <1>2, <1>9, <2>1, <3>1
    <3>3. prev'[next[y]] = y
      BY <1>1, <1>11, <1>12, <3>1, <3>2
    <3> QED BY <1>2, <3>1, <3>2, <3>3
  <2>6. prev'[y] # None => Member(prev[y])'
    BY <1>2, <2>1, <2>2
  <2> QED BY <2>1, <2>2, <2>3, <2>4, <2>5, <2>6
<1>18. OrderOK(g2, age)'
  <2> SUFFICES ASSUME NEW y \in Threads, NEW z \in Threads, Member(y)', Member(z)', g2[y] = g2[z],
                      g2[y] # Cv
               PROVE  /\ age[y] = age[z] => y = z
                      /\ age[z] < age[y] => next'[y] # None /\ age[z] <= age[next'[y]]
                      /\ age[z] > age[y] => prev'[y] # None /\ age[z] >= age[prev'[y]]
    BY DEF OrderOK
  <2>1. Member(y) /\ Member(z) /\ grp[y] = grp[z] /\ grp[y] # Cv
        /\ (Met(grp, age, t, y) <=> Met(grp, age, t, z))
    BY <1>2, <1>7, <1>8, <1>9
  <2>2. /\ age[y] = age[z] => y = z
        /\ age[z] < age[y] => next[y] # None /\ age[z] <= age[next[y]]
        /\ age[z] > age[y] => prev[y] # None /\ age[z] >= age[prev[y]]
    BY <1>4, <2>1 DEF OrderOK
  <2>3. age[z] < age[y] => x = None \/ y # x
    <3> SUFFICES ASSUME age[z] < age[y], x # None, y = x PROVE FALSE
      OBVIOUS
    <3>1. ~(age[y] < age[y])
      BY <1>6
    <3>2. ~Met(grp, age, t, y) /\ grp[z] = None
      BY <1>6, <1>7, <2>1, <3>1
    <3> QED BY <1>7, <2>1, <3>2
  <2>4. age[z] > age[y] => x = None \/ y # c
    <3> SUFFICES ASSUME age[z] > age[y], x # None, y = c PROVE FALSE
      OBVIOUS
    <3>1. Met(grp, age, t, z) /\ prev[y] = x
      BY <1>1, <1>11, <2>1
    <3>2. age[z] < age[x] /\ age[z] >= age[x]
      BY <1>7, <2>2, <3>1
    <3>3. age[z] \in Nat /\ age[x] \in Nat
      BY <1>1, <1>6
    <3> QED BY <3>2, <3>3
  <2> QED BY <1>1, <1>12, <2>2, <2>3, <2>4
<1>19. EndsOK(g2)'
  <2>1. CASE x = None
    <3>1. head' = None /\ tail' = None
      BY <1>1, <1>12, <2>1
    <3>2. \A y \in Threads : Member(y)' => g2[y] # None
      BY <1>2, <1>7, <1>8, <1>9, <2>1
    <3> QED BY <3>1, <3>2 DEF EndsOK
  <2>2. CASE x # None
    <3>1. head \in Threads /\ Member(head) /\ grp[head] = None /\ prev[head] = None /\ head # c
      BY <1>1, <1>4, <1>6, <1>11, <2>2, Ranges DEF EndsOK, CondInv
    <3>2. ~Met(grp, age, t, head) /\ ~Met(grp, age, t, x)
      <4>1. ~(age[x] > age[head])
        BY <1>1, <1>4, <1>6, <2>2, <3>1 DEF OrderOK
      <4>2. x \in Threads /\ age[x] \in Nat /\ age[head] \in Nat
        BY <1>1, <1>6, <2>2, <3>1
      <4>3. ~(age[head] < age[x]) /\ ~(age[x] < age[x])
        BY <4>1, <4>2
      <4> QED BY <1>7, <2>2, <3>1, <4>2, <4>3
    <3>3. g2[head] = None /\ g2[x] = None
      BY <1>1, <1>6, <1>8, <2>2, <3>1, <3>2
    <3> QED BY <1>1, <1>2, <1>6, <1>12, <2>2, <3>1, <3>3 DEF EndsOK
  <2> QED BY <2>1, <2>2
<1>20. MetOK(g2, age)'
  <2>1. \A s \in Threads : ~Looping(s)'
    BY <1>2, <1>3
  <2>2. \A s, y \in Threads : Member(y)' /\ g2[y] = s => Split(s)'
    BY <1>2, <1>4, <1>8 DEF MetOK
  <2>3. \A y \in Threads : Member(y)' /\ g2[y] # Cv => Closed(y)'
    BY <1>2, <1>4, <1>9 DEF MetOK
  <2>4. \A y \in Threads : Member(y)' /\ g2[y] = None /\ (\A s \in Threads : ~Met(g2, age, s, y)') =>
          state'[y] # SIGNALED /\ notify'[y] = None
    BY <1>1, <1>2, <1>4, <1>9, <1>10 DEF MetOK
  <2>5. \A s, y \in Threads : Met(g2, age, s, y)' =>
          state'[y] = SIGNALED \/ (state'[y] = LEAVING /\ notify'[y] = s)
    BY <1>1, <1>4, <1>10 DEF MetOK
  <2> QED BY <2>1, <2>2, <2>3, <2>4, <2>5 DEF MetOK
<1>21. FirstOK(g2, age)'
  BY <1>1, <1>2, <1>4, <1>10, Ranges DEF FirstOK, CondInv
<1>22. HandOverOK(g2)'
  <2> SUFFICES ASSUME NEW y \in Threads, Member(y)', g2[y] = Cv
               PROVE  /\ state'[y] = SIGNALED
                      /\ prev'[y] # None => Closed(prev[y])'
                      /\ Closed(y)' => next'[y] # None
    BY DEF HandOverOK
  <2>1. /\ Member(y) /\ grp[y] = Cv
        /\ x # None => y # x /\ (c # None => y # c)
    BY <1>2, <1>6, <1>9, <1>11
  <2>2. prev'[y] = prev[y] /\ next'[y] = next[y]
    BY <1>1, <1>12, <2>1
  <2>3. prev[y] # None => prev[y] \in Threads /\ Member(prev[y]) /\ Closed(prev[y])
    BY <1>4, <2>1, Ranges DEF LinksOK, HandOverOK, CondInv
  <2> QED BY <1>1, <1>2, <1>4, <2>1, <2>2, <2>3 DEF HandOverOK
<1>23. \E g, a, m : ListsOK(g, a, m)'
  BY <1>16, <1>17, <1>18, <1>19, <1>20, <1>21, <1>22
<1> QED BY <1>13, <1>14, <1>15, <1>23 DEF CondInv

\* The group is let go: all leaving waiters have taken themselves out, so the
\* first signalled one is the oldest node.
LEMMA OpenFirstInv ==
  ASSUME CondInv, BasicInv', NEW t \in Threads, OpenFirst(t)
  PROVE  CondInv'
<1> USE CondAssumption DEF CondAssumption
<1> DEFINE f == first[t]
<1>1. /\ pc[t] = "first" /\ job[t] = "signal" /\ f \in Threads
      /\ word' = [word EXCEPT ![f] = 0]
      /\ pc' = [pc EXCEPT ![t] = IF word[f] = 2 THEN "firstwake" ELSE "sigdone"]
      /\ pc \in [Threads -> UNION {StepsOf(j) : j \in Jobs}] /\ word \in [Threads \cup {Cv} -> 0 .. 2]
      /\ UNCHANGED <<job, head, tail, prev, next, state, notify, p, first, mwaiters, ref>>
  BY JobAt DEF OpenFirst, Goto, cvVars, nodes, sig, mutex, CondInv, BasicInv, CondTypeOK, CallOK
<1>2. /\ Split(t) /\ ~Looping(t) /\ ~Counting(t) /\ ~Split(t)' /\ ~Looping(t)' /\ ~Early(t)' /\ ~Closed(f)'
      /\ \A y \in Threads : /\ Member(y)' <=> Member(y)
                            /\ Member(y) /\ y # f => (Closed(y)' <=> Closed(y))
                            /\ Looping(y)' <=> Looping(y)
                            /\ y # t => (Split(y)' <=> Split(y)) /\ (Counting(y)' <=> Counting(y))
                            /\ y # t => (Early(y)' <=> Early(y))
                            /\ Reporting(y)' <=> Reporting(y)
  BY <1>1 DEF Member, Closed, Reporting, Looping, Early, Split, Counting, Taking
<1>3. PICK grp, age, now : ListsOK(grp, age, now)
  BY DEF CondInv
<1>4. PICK g2 : g2 = [y \in Threads |-> IF grp[y] = t THEN Cv ELSE grp[y]]
  OBVIOUS
<1> USE DEF ListsOK
<1>5. /\ grp \in [Threads -> Threads \cup {None, Cv}] /\ age \in [Threads -> Nat]
      /\ g2 \in [Threads -> Threads \cup {None, Cv}]
      /\ \A y \in Threads : g2[y] = IF grp[y] = t THEN Cv ELSE grp[y]
  BY <1>3, <1>4 DEF GhostOK
<1>6. \A y \in Threads : Met(grp, age, t, y) <=> Member(y) /\ grp[y] = t
  BY <1>2 DEF Met
<1>7. Member(f) /\ grp[f] = t /\ state[f] = SIGNALED
  BY <1>1, <1>2, <1>3, <1>6 DEF FirstOK
<1>8. \A y \in Threads : Member(y) /\ grp[y] = t => state[y] = SIGNALED
  <2> SUFFICES ASSUME NEW y \in Threads, Member(y), grp[y] = t, state[y] # SIGNALED PROVE FALSE
    OBVIOUS
  <2>1. state[y] = LEAVING /\ notify[y] = t
    BY <1>3, <1>6 DEF MetOK
  <2>2. y \in Pending(t)
    BY <2>1, MemberState DEF Pending, CondInv
  <2> QED BY <1>2, <2>2 DEF CondInv, RefOK
<1>9. \A y \in Threads : Member(y) /\ grp[y] = t => ~(age[y] < age[f])
  BY <1>1, <1>2, <1>3, <1>6, <1>8 DEF FirstOK, SIGNALED, LEAVING
<1>10. next[f] = None
  <2> SUFFICES ASSUME next[f] # None PROVE FALSE
    OBVIOUS
  <2>1. next[f] \in Threads /\ Member(next[f]) /\ prev[next[f]] = f
    BY <1>1, <1>3, <1>7, Ranges DEF LinksOK, CondInv
  <2>2. grp[next[f]] = t /\ age[f] > age[next[f]]
    BY <1>1, <1>3, <1>7, <2>1 DEF LinksOK
  <2>3. age[f] \in Nat /\ age[next[f]] \in Nat
    BY <1>1, <1>5, <2>1
  <2> QED BY <1>9, <2>1, <2>2, <2>3
<1>11. \A y \in Threads : Member(y) /\ grp[y] = t /\ y # f => next[y] # None
  <2> SUFFICES ASSUME NEW y \in Threads, Member(y), grp[y] = t, y # f PROVE next[y] # None
    OBVIOUS
  <2>1. age[y] # age[f] /\ ~(age[y] < age[f]) /\ age[f] \in Nat /\ age[y] \in Nat
    BY <1>1, <1>3, <1>5, <1>7, <1>9 DEF OrderOK
  <2>2. age[f] < age[y]
    BY <2>1
  <2> QED BY <1>1, <1>3, <1>7, <2>2 DEF OrderOK
<1>12. Outside'
  BY <1>1, <1>2 DEF CondInv, Outside
<1>13. RefOK'
  <2>1. \A s \in Threads : Pending(s)' = Pending(s)
    BY <1>1, <1>2 DEF Pending
  <2>2. Pending(t) = {}
    BY <1>2 DEF CondInv, RefOK
  <2> QED BY <1>1, <1>2, <2>1, <2>2 DEF CondInv, RefOK
<1>14. CarryOK'
  <2>1. Carrying' = Carrying
    BY <1>1, <1>2, <1>10 DEF Carrying
  <2> QED BY <1>1, <2>1 DEF CondInv, CarryOK
<1>15. \A s, y \in Threads : Met(g2, age, s, y)' <=> Met(grp, age, s, y) /\ s # t
  BY <1>1, <1>2, <1>5 DEF Met
<1>16. GhostOK(g2, age, now)'
  BY <1>3, <1>5 DEF GhostOK
<1>17. LinksOK(g2, age)'
  <2> SUFFICES ASSUME NEW y \in Threads, Member(y)'
               PROVE  /\ prev[y] # None =>
                           /\ Member(prev[y])' /\ next[prev[y]] = y
                           /\ g2[prev[y]] = g2[y] /\ age[prev[y]] > age[y]
                      /\ next[y] # None /\ (g2[y] # Cv \/ Closed(y)') =>
                           Member(next[y])' /\ prev[next[y]] = y
    BY <1>1 DEF LinksOK
  <2>1. g2[y] # Cv \/ Closed(y)' => grp[y] # Cv \/ Closed(y)
    BY <1>1, <1>2, <1>5
  <2>2. /\ Member(y)
        /\ prev[y] # None =>
             /\ prev[y] \in Threads /\ Member(prev[y]) /\ next[prev[y]] = y
             /\ grp[prev[y]] = grp[y] /\ age[prev[y]] > age[y]
        /\ next[y] # None /\ (grp[y] # Cv \/ Closed(y)) =>
             next[y] \in Threads /\ Member(next[y]) /\ prev[next[y]] = y
    BY <1>2, <1>3, Ranges DEF LinksOK, CondInv
  <2> QED BY <1>1, <1>2, <1>5, <2>1, <2>2
<1>18. OrderOK(g2, age)' /\ EndsOK(g2)'
  <2>1. \A y, z \in Threads : g2[y] = g2[z] /\ g2[y] # Cv => grp[y] = grp[z] /\ grp[y] # Cv
    BY <1>5
  <2>2. \A y \in Threads : g2[y] = None <=> grp[y] = None
    BY <1>5
  <2> QED BY <1>1, <1>2, <1>3, <2>1, <2>2, Ranges DEF OrderOK, EndsOK, CondInv
<1>19. MetOK(g2, age)'
  <2>1. \A s \in Threads : Looping(s)' /\ p'[s] # None => Member(p[s])' /\ g2[p'[s]] = None
    BY <1>1, <1>2, <1>3, <1>5, Ranges DEF MetOK, CondInv
  <2>2. \A s, y \in Threads : Met(g2, age, s, y)' =>
          state'[y] = SIGNALED \/ (state'[y] = LEAVING /\ notify'[y] = s)
    BY <1>1, <1>3, <1>15 DEF MetOK
  <2>3. \A y \in Threads : Member(y)' /\ g2[y] = None /\ (\A s \in Threads : ~Met(g2, age, s, y)') =>
          state'[y] # SIGNALED /\ notify'[y] = None
    <3>1. \A y \in Threads : g2[y] = None => grp[y] = None /\ ~Met(grp, age, t, y)
      BY <1>5, <1>6
    <3> QED BY <1>1, <1>2, <1>3, <1>15, <3>1 DEF MetOK
  <2>4. \A s, y \in Threads : Member(y)' /\ g2[y] = s => Split(s)'
    BY <1>2, <1>3, <1>5 DEF MetOK
  <2>5. \A y \in Threads : Member(y)' /\ g2[y] # Cv => Closed(y)'
    BY <1>2, <1>3, <1>5, <1>7 DEF MetOK
  <2> QED BY <2>1, <2>2, <2>3, <2>4, <2>5 DEF MetOK
<1>20. FirstOK(g2, age)'
  BY <1>1, <1>2, <1>3, <1>15, Ranges DEF FirstOK, CondInv
<1>21. HandOverOK(g2)'
  <2> SUFFICES ASSUME NEW y \in Threads, Member(y)', g2[y] = Cv
               PROVE  /\ state[y] = SIGNALED
                      /\ prev[y] # None => Closed(prev[y])'
                      /\ Closed(y)' => next[y] # None
    BY <1>1 DEF HandOverOK
  <2>1. Member(y) /\ (grp[y] = Cv \/ grp[y] = t)
    BY <1>2, <1>5
  <2>2. prev[y] # None => prev[y] \in Threads /\ Member(prev[y]) /\ prev[y] # f /\ grp[prev[y]] = grp[y]
    BY <1>3, <1>10, <2>1, Ranges DEF LinksOK, CondInv
  <2>3. prev[y] # None => Closed(prev[y])
    BY <1>3, <2>1, <2>2 DEF HandOverOK, MetOK
  <2>4. prev[y] # None => Closed(prev[y])'
    BY <1>1, <1>2, <2>2, <2>3
  <2>5. Closed(y)' => Closed(y) /\ y # f
    BY <1>1, <1>2, <2>1
  <2> QED BY <1>3, <1>8, <1>11, <2>1, <2>4, <2>5 DEF HandOverOK
<1>22. \E g, a, m : ListsOK(g, a, m)'
  BY <1>16, <1>17, <1>18, <1>19, <1>20, <1>21
<1> QED BY <1>12, <1>13, <1>14, <1>22 DEF CondInv

-----------------------------------------------------------------------------
LEMMA CondInit == Init => CondInv
<1> SUFFICES ASSUME Init PROVE CondInv
  OBVIOUS
<1> USE CondAssumption DEF CondAssumption
<1>1. BasicInv
  BY BasicInit
<1>2. \A t \in Threads : /\ ~Member(t) /\ ~Reporting(t) /\ ~Looping(t) /\ ~Split(t) /\ ~Early(t)
                         /\ prev[t] = None /\ ref[t] = 0
  BY DEF Init, Member, Reporting, Looping, Split, Early
<1>3. Outside
  BY <1>2 DEF Outside
<1>4. RefOK
  <2>1. \A s \in Threads : Pending(s) = {}
    BY <1>2 DEF Pending
  <2> QED BY <1>2, <2>1, FS_EmptySet DEF RefOK
<1>5. CarryOK
  <2>1. Carrying = {}
    BY <1>2 DEF Carrying
  <2> QED BY <2>1, FS_EmptySet DEF CarryOK, Init
<1>6. ListsOK([t \in Threads |-> None], [t \in Threads |-> 0], 1)
  <2> DEFINE g == [t \in Threads |-> None]
             a == [t \in Threads |-> 0]
  <2>1. GhostOK(g, a, 1)
    BY DEF GhostOK
  <2>2. LinksOK(g, a) /\ OrderOK(g, a) /\ HandOverOK(g)
    BY <1>2 DEF LinksOK, OrderOK, HandOverOK
  <2>3. EndsOK(g)
    BY <1>2 DEF EndsOK, Init
  <2>4. MetOK(g, a) /\ FirstOK(g, a)
    BY <1>2 DEF MetOK, FirstOK, Met
  <2> QED BY <2>1, <2>2, <2>3, <2>4 DEF ListsOK
<1> QED BY <1>1, <1>3, <1>4, <1>5, <1>6 DEF CondInv

LEMMA CondNext == CondInv /\ [Next]_vars => CondInv'
<1> SUFFICES ASSUME CondInv, [Next]_vars PROVE CondInv'
  OBVIOUS
<1>1. BasicInv /\ BasicInv' /\ RefOK
  BY BasicNext DEF CondInv
<1>2. ASSUME NEW t \in Threads,
             \/ LockCas(t) \/ LockMark(t) \/ LockWait(t) \/ LockRetry(t) \/ Unlock(t) \/ UnlockWake(t)
             \/ CallWait(t) \/ ReleaseMutex(t) \/ WaitBarrier(t) \/ GiveUp(t) \/ NotifyWake(t)
             \/ Relock(t) \/ PassWake(t) \/ WakeFirst(t) \/ SigDone(t)
      PROVE  CondInv'
  <2>1. QuietNodes /\ QuietRefs
    BY <1>1, <1>2, QuietActions
  <2> QED BY <1>1, <2>1, QuietRefsKept, QuietStep
<1>3. ASSUME NEW t \in Threads, NEW k \in {1, All}, CallSignal(t, k) PROVE CondInv'
  <2>1. QuietNodes /\ QuietRefs
    BY <1>1, <1>3, CallSignalQuiet
  <2> QED BY <1>1, <2>1, QuietRefsKept, QuietStep
<1>4. ASSUME NEW t \in Threads, Step(t) PROVE CondInv'
  <2>1. CASE Register(t) BY <1>1, <2>1, RegisterInv
  <2>2. CASE Claim(t) BY <1>1, <2>2, ClaimInv
  <2>3. CASE RemoveNode(t) BY <1>1, <2>3, RemoveNodeInv
  <2>4. CASE Notify(t) BY <1>1, <2>4, NotifyInv
  <2>5. CASE Pass(t) BY <1>1, <2>5, PassInv
  <2>6. CASE Done(t) BY <1>1, <2>6, DoneInv
  <2>7. CASE SigStart(t) BY <1>1, <2>7, SigStartInv
  <2>8. CASE SigLoop(t) BY <1>1, <2>8, SigLoopInv
  <2>9. CASE SigSplit(t) BY <1>1, <2>9, SigSplitInv
  <2>10. CASE Drain(t) BY <1>1, <2>10, DrainInv
  <2>11. CASE OpenFirst(t) BY <1>1, <2>11, OpenFirstInv
  <2> QED BY <1>2, <1>4, <2>1, <2>2, <2>3, <2>4, <2>5, <2>6, <2>7, <2>8, <2>9, <2>10, <2>11 DEF Step
<1>5. ASSUME UNCHANGED vars PROVE CondInv'
  <2>1. QuietNodes /\ QuietRefs
    BY <1>5 DEF vars, cvVars, nodes, sig, mutex, QuietNodes, QuietRefs, Member, Closed, Looping, Split,
       Early, Reporting, Counting
  <2> QED BY <1>1, <2>1, QuietRefsKept, QuietStep
<1> QED BY <1>2, <1>3, <1>4, <1>5 DEF Next, Over

LEMMA CondInvariance == Spec => []CondInv
BY CondInit, CondNext, PTL DEF Spec

-----------------------------------------------------------------------------
LEMMA MemberLive ==
  ASSUME NEW t, Member(t) PROVE Live(t)
BY DEF Member, Live

LEMMA InvNodesAlive == CondInv => NodesAlive
<1> USE CondAssumption DEF CondAssumption, ListsOK
<1> SUFFICES ASSUME CondInv, NEW t \in Threads
             PROVE  /\ pc[t] = "register" /\ tail # None => Live(head)
                    /\ pc[t] = "sigloop" /\ p[t] # None =>
                         Live(p[t]) /\ (next[p[t]] # None => Live(next[p[t]]))
                    /\ pc[t] = "remove" =>
                         /\ head # t /\ prev[t] # None => Live(prev[t])
                         /\ tail # t /\ next[t] # None => Live(next[t])
                    /\ pc[t] = "notify" => job[notify[t]] = "signal" /\ ref[notify[t]] > 0
                    /\ pc[t] = "pass" /\ prev[t] # None => word[prev[t]] = 2 /\ state[prev[t]] = SIGNALED
                    /\ pc[t] = "first" => word[first[t]] = 2 /\ state[first[t]] = SIGNALED
  BY DEF NodesAlive
<1>1. PICK grp, age, now : ListsOK(grp, age, now)
  BY DEF CondInv
<1>2. pc[t] = "register" /\ tail # None => Live(head)
  BY <1>1, MemberLive, Ranges DEF EndsOK, CondInv
<1>3. pc[t] = "sigloop" /\ p[t] # None => Live(p[t]) /\ (next[p[t]] # None => Live(next[p[t]]))
  BY <1>1, MemberLive, Ranges DEF MetOK, LinksOK, Looping, CondInv
<1>4. pc[t] = "remove" => /\ head # t /\ prev[t] # None => Live(prev[t])
                          /\ tail # t /\ next[t] # None => Live(next[t])
  <2> SUFFICES ASSUME pc[t] = "remove" PROVE /\ prev[t] # None => Live(prev[t])
                                             /\ next[t] # None => Live(next[t])
    OBVIOUS
  <2>1. Member(t) /\ state[t] = LEAVING
    BY JobAt DEF Member, CondInv, BasicInv, CallOK
  <2>2. grp[t] # Cv
    BY <1>1, <2>1 DEF HandOverOK, SIGNALED, LEAVING
  <2> QED BY <1>1, <2>1, <2>2, MemberLive DEF LinksOK
<1>5. pc[t] = "notify" => job[notify[t]] = "signal" /\ ref[notify[t]] > 0
  <2> SUFFICES ASSUME pc[t] = "notify" PROVE job[notify[t]] = "signal" /\ ref[notify[t]] > 0
    OBVIOUS
  <2>1. job[t] = "remove" /\ notify[t] \in Threads
    BY JobAt, Ranges DEF CondInv, BasicInv, CallOK
  <2>2. t \in Pending(notify[t])
    BY <2>1 DEF Pending, Reporting
  <2>3. Counting(notify[t]) /\ ref[notify[t]] = Cardinality(Pending(notify[t]))
    BY <2>1, <2>2 DEF CondInv, RefOK
  <2>4. job[notify[t]] = "signal"
    BY <2>1, <2>3, JobAt DEF Counting, Looping, Split, CondInv
  <2>5. Cardinality(Pending(notify[t])) # 0 /\ Cardinality(Pending(notify[t])) \in Nat
    BY <2>2, PendingFinite, FS_EmptySet
  <2> QED BY <2>3, <2>4, <2>5
<1>6. pc[t] = "pass" /\ prev[t] # None => word[prev[t]] = 2 /\ state[prev[t]] = SIGNALED
  <2> SUFFICES ASSUME pc[t] = "pass", prev[t] # None PROVE word[prev[t]] = 2 /\ state[prev[t]] = SIGNALED
    OBVIOUS
  <2>1. Member(t) /\ ~Closed(t)
    BY JobAt DEF Member, Closed, CondInv
  <2>2. grp[t] = Cv
    BY <1>1, <2>1 DEF MetOK
  <2>3. prev[t] \in Threads /\ Member(prev[t]) /\ grp[prev[t]] = Cv /\ Closed(prev[t])
    BY <1>1, <2>1, <2>2, Ranges DEF LinksOK, HandOverOK, CondInv
  <2> QED BY <1>1, <2>3 DEF HandOverOK, Closed
<1>7. pc[t] = "first" => word[first[t]] = 2 /\ state[first[t]] = SIGNALED
  <2> SUFFICES ASSUME pc[t] = "first" PROVE word[first[t]] = 2 /\ state[first[t]] = SIGNALED
    OBVIOUS
  <2>1. first[t] \in Threads /\ Split(t) /\ ~Looping(t)
    BY JobAt, Ranges DEF Split, Looping, CondInv, BasicInv, CallOK
  <2>2. Met(grp, age, t, first[t]) /\ state[first[t]] = SIGNALED
    BY <1>1, <2>1 DEF FirstOK
  <2>3. Member(first[t]) /\ grp[first[t]] = t
    BY <2>1, <2>2 DEF Met
  <2>4. Closed(first[t])
    BY <1>1, <2>1, <2>3 DEF MetOK
  <2> QED BY <2>2, <2>4 DEF Closed
<1> QED BY <1>2, <1>3, <1>4, <1>5, <1>6, <1>7

\* Every pointer a thread follows in the waits and signals leads to a node
\* whose thread is still in its call, and every barrier opened is the closed one
\* of a signalled waiter, however many threads wait, leave and signal.
THEOREM CondNodesAlive == Spec => []NodesAlive
BY InvNodesAlive, CondInvariance, PTL

LEMMA InvWaitersBalanced == CondInv => WaitersBalanced
<1> SUFFICES ASSUME CondInv PROVE WaitersBalanced
  OBVIOUS
<1>1. mwaiters = Cardinality(Carrying) /\ mwaiters \in Nat
  BY CarryingFinite DEF CondInv, CarryOK
<1>2. (\A t \in Threads : ~Live(t)) => Carrying = {}
  BY MemberLive DEF Carrying
<1> QED BY <1>1, <1>2, FS_EmptySet DEF WaitersBalanced

\* What the hand-over of a wake-up adds to _m_waiters equals the number of
\* waiters that are on their way after the first of their group, so it is never
\* negative, and it is gone when all calls have returned.
THEOREM CondWaitersBalanced == Spec => []WaitersBalanced
BY InvWaitersBalanced, CondInvariance, PTL

LEMMA InvWokenInOrder == CondInv => WokenInOrder
<1> USE CondAssumption DEF CondAssumption, ListsOK
<1> SUFFICES ASSUME CondInv, NEW t \in Threads, NEW x \in Threads, job[t] = "barrier",
                    pc[t] \in {"relock", "pass", "passwake", "done"}, next[t] = x, prev[x] = t
             PROVE  pc[x] \in {"passwake", "done"}
  BY DEF WokenInOrder
<1>1. PICK grp, age, now : ListsOK(grp, age, now)
  BY DEF CondInv
<1>2. ~Member(x)
  <2> SUFFICES ASSUME Member(x) PROVE FALSE
    OBVIOUS
  <2>1. Member(t) /\ grp[t] = grp[x]
    BY <1>1 DEF LinksOK
  <2>2. ~Closed(t)
    BY <2>1 DEF Member, Closed, Taking
  <2>3. grp[t] = Cv
    BY <1>1, <2>1, <2>2 DEF MetOK
  <2> QED BY <1>1, <2>1, <2>2, <2>3 DEF HandOverOK
<1>3. job[x] = "barrier"
  BY <1>2 DEF CondInv, Outside
<1>4. pc[x] \in StepsOf("barrier")
  BY <1>3 DEF CondInv, BasicInv, CallOK
<1> QED BY <1>2, <1>3, <1>4 DEF Member, StepsOf

\* A signalled waiter goes for the mutex only after the one before it in its
\* group has passed the wake-up on, also when its own wait failed.
THEOREM CondWokenInOrder == Spec => []WokenInOrder
BY InvWokenInOrder, CondInvariance, PTL

LEMMA InvWaitingListed == CondInv => WaitingListed
<1> USE CondAssumption DEF CondAssumption, ListsOK
<1> SUFFICES ASSUME CondInv, NEW t \in Threads, Live(t), pc[t] \in {"unlock", "release", "wait", "claim"},
                    state[t] = WAITING
             PROVE  t \in Listed
  BY DEF WaitingListed
<1>1. PICK grp, age, now : ListsOK(grp, age, now)
  BY DEF CondInv
<1>2. Member(t)
  BY DEF Member, Live, CondInv, BasicInv, CallOK, WAITING, SIGNALED, LEAVING
<1>3. grp[t] = None
  BY <1>1, <1>2, WaitingAttached DEF CondInv
<1>4. tail \in Threads /\ Member(tail) /\ grp[tail] = None /\ next[tail] = None
  BY <1>1, <1>2, <1>3, Ranges DEF EndsOK, CondInv
<1>5. ASSUME NEW S \in SUBSET Threads, tail \in S, \A x \in S : prev[x] # None => prev[x] \in S, t \notin S
      PROVE  FALSE
  <2> DEFINE U == {u \in Threads : Member(u) /\ grp[u] = None /\ u \notin S}
             A == {age[u] : u \in U}
  <2>1. A \subseteq Nat /\ A # {} /\ age \in [Threads -> Nat]
    BY <1>1, <1>2, <1>3, <1>5 DEF GhostOK
  <2> HIDE DEF A
  <2>2. PICK m \in A : \A k \in A : ~(<<k, m>> \in OpToRel(<, Nat))
    BY <2>1, NatLessThanWellFounded, WFMin, Zenon
  <2>3. m \in Nat /\ \A k \in A : ~(k < m)
    BY <2>1, <2>2 DEF OpToRel
  <2>4. PICK u \in U : age[u] = m
    BY DEF A
  <2>5. \A v \in U : ~(age[v] < age[u])
    BY <2>3, <2>4 DEF A
  <2>6. /\ age[u] # age[tail] /\ ~(age[u] < age[tail])
        /\ age[tail] < age[u] => next[u] # None
    BY <1>1, <1>4, <1>5 DEF OrderOK
  <2>7. age[tail] < age[u]
    BY <1>4, <2>1, <2>6
  <2>8. next[u] \in Threads /\ Member(next[u]) /\ prev[next[u]] = u
    BY <1>1, <2>6, <2>7, Ranges DEF LinksOK, CondInv
  <2>9. grp[next[u]] = None /\ age[u] > age[next[u]]
    BY <1>1, <2>8 DEF LinksOK
  <2>10. age[next[u]] < age[u]
    BY <2>1, <2>8, <2>9
  <2>11. next[u] \in S
    BY <2>5, <2>8, <2>9, <2>10
  <2> QED BY <1>5, <2>8, <2>11
<1> QED BY <1>4, <1>5 DEF Listed

\* However signals split the list and leaving waiters take themselves out, a
\* waiter that nobody has signalled can be reached from the tail of the list.
THEOREM CondWaitingListed == Spec => []WaitingListed
BY InvWaitingListed, CondInvariance, PTL
==============================================================================
