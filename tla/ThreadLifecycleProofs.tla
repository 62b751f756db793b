------------------------ MODULE ThreadLifecycleProofs ------------------------
(***************************************************************************)
(* Proofs about ThreadLifecycle, for any finite set of threads.  The       *)
(* invariant comes in three layers.  CoreInv: who holds the list lock,     *)
(* whose tid is published, and what has become of the thread a             *)
(* pthread_create is about.  FreeInv: who is going to free an allocation.  *)
(* RingInv: the list is one ring of the threads that are linked.           *)
(***************************************************************************)
EXTENDS ThreadLifecycle, FiniteSetTheorems, TLAPS

\* Steps of a thread that holds the list lock.
Holding == {"spawn", "link", "last", "exited", "wakejoiner", "unlock"}

\* Steps of a thread that may never have had it.
Early == {"run", "tlcas", "tlwait", "tlcheck", "tldec", "join", "joinwait", "joinsleep",
          "tlsync", "sync", "free", "kill"}

PcLabels == Holding \cup Early \cup
            {"none", "start", "tlwake", "freemap", "freeself", "restore", "hostexit", "exit0", "gone"}

LifeTypeOK ==
  /\ pc \in [Threads -> PcLabels]
  /\ op \in [Threads -> {"none", "create", "failed", "exit", "exit0", "join", "kill"}]
  /\ tgt \in [Threads -> Threads]
  /\ val \in [Threads -> Threads \cup {NoTid} \cup 0 .. 3]
  /\ saved \in [Threads -> 0 .. 3] /\ detach \in [Threads -> 0 .. 3]
  /\ tid \in [Threads -> Threads \cup {NoTid}]
  /\ next \in [Threads -> Threads] /\ prev \in [Threads -> Threads]
  /\ tmin1 \in Int /\ needLocks \in Int
  /\ tl \in Threads \cup {NoTid}
  /\ tlSleep \subseteq Threads /\ joinSleep \subseteq Threads /\ claimed \subseteq Threads
  /\ freed \in [Threads -> Nat]

-----------------------------------------------------------------------------
\* The call a thread is in, from the step it is at.
CallOK(t) ==
  /\ pc[t] \in {"none", "start", "run"} => op[t] = "none"
  /\ pc[t] = "gone" => op[t] \in {"none", "exit"}
  /\ pc[t] \in {"spawn", "link"} => op[t] = "create"
  /\ pc[t] = "freemap" => op[t] = "failed"
  /\ pc[t] = "tlcas" => op[t] \in {"create", "exit"}
  /\ pc[t] \in {"last", "exited", "wakejoiner", "freeself", "hostexit"} => op[t] = "exit"
  /\ pc[t] \in {"unlock", "tlwake"} => op[t] \in {"create", "failed", "exit", "exit0"}
  /\ pc[t] \in {"tlwait", "tlcheck", "tldec"} => op[t] \in {"create", "exit", "join"}
  /\ pc[t] \in {"restore", "exit0"} => op[t] = "exit0"
  /\ pc[t] \in {"join", "joinwait", "joinsleep", "tlsync", "sync", "free"} => op[t] = "join"
  /\ pc[t] = "kill" => op[t] = "kill"

\* t has committed to termination.
Committed(t) ==
  op[t] = "exit" /\ pc[t] \in {"exited", "wakejoiner", "unlock", "tlwake", "freeself", "hostexit", "gone"}

\* A thread's tid is published from its start to its commitment.
TidOK(t) ==
  /\ pc[t] \in {"none", "gone"} \/ Committed(t) => tid[t] = NoTid
  /\ pc[t] \notin {"none", "gone", "start"} /\ ~Committed(t) => tid[t] = t
  /\ pc[t] = "start" =>
       \/ tid[t] = t
       \/ tid[t] = NoTid /\ \E p \in Threads : pc[p] = "link" /\ tgt[p] = t

\* The thread a pthread_create is about: there is none before the host is
\* asked, and it cannot exit before it is linked, which takes the lock.
CreateOK(p) ==
  /\ op[p] \in {"create", "failed"} => tgt[p] # p
  /\ op[p] = "create" /\ pc[p] \in {"tlcas", "tlwait", "tlcheck", "tldec", "spawn"}
       => pc[tgt[p]] = "none"
  /\ pc[p] = "link" => pc[tgt[p]] \in Early \cup {"start"}
  /\ op[p] = "failed" => pc[tgt[p]] = "gone" /\ op[tgt[p]] = "none"

CreateApart ==
  \A p, q \in Threads :
    op[p] \in {"create", "failed"} /\ op[q] \in {"create", "failed"} /\ p # q => tgt[p] # tgt[q]

LockOK == \A t \in Threads : pc[t] \in Holding <=> tl = t

\* The threads asleep on a detach_state are at that step of pthread_join.
SleepOK == \A t \in joinSleep : pc[t] = "joinsleep"

CoreInv ==
  /\ LifeTypeOK
  /\ LockOK /\ SleepOK
  /\ CreateApart
  /\ \A t \in Threads : CallOK(t)
  /\ \A t \in Threads : TidOK(t)
  /\ \A t \in Threads : CreateOK(t)

-----------------------------------------------------------------------------
\* An exiting thread that has released the list lock.
Released(u) == op[u] = "exit" /\ pc[u] \in {"tlwake", "hostexit", "gone"}

DetachOK(u) ==
  /\ detach[u] = DT_DETACHED => u \in claimed
  /\ op[u] \notin {"exit", "exit0"} \/ pc[u] = "exit0" => detach[u] \in {DT_JOINABLE, DT_DETACHED}
  /\ op[u] \in {"exit", "exit0"} /\ pc[u] # "exit0" =>
       \/ saved[u] = DT_DETACHED /\ detach[u] = DT_DETACHED
       \/ saved[u] = DT_JOINABLE /\ detach[u] \in {DT_EXITING, DT_EXITED}
  /\ detach[u] = DT_EXITED =>
       op[u] = "exit" /\ pc[u] \in {"wakejoiner", "unlock", "tlwake", "hostexit", "gone"}
  /\ pc[u] \in {"exited", "wakejoiner"} => saved[u] # DT_DETACHED
  /\ pc[u] = "freeself" => saved[u] = DT_DETACHED

\* A join claims its target for itself, and frees it after the target has
\* stored DT_EXITED and then released the list lock.
JoinOK(j) ==
  op[j] = "join" =>
       /\ tgt[j] \in claimed /\ freed[tgt[j]] = 0 /\ detach[tgt[j]] # DT_DETACHED
       /\ pc[tgt[j]] \notin {"none", "start"} /\ (pc[tgt[j]] = "gone" => op[tgt[j]] = "exit")
       /\ pc[j] \in {"tlsync", "tlwait", "tlcheck", "tldec", "sync", "free"} => detach[tgt[j]] = DT_EXITED
       /\ pc[j] \in {"tlwait", "tlcheck"} => val[j] = tgt[j] \/ Released(tgt[j])
       /\ pc[j] \in {"tldec", "sync", "free"} => Released(tgt[j])

JoinApart ==
  \A j, k \in Threads : op[j] = "join" /\ op[k] = "join" /\ j # k => tgt[j] # tgt[k]

FreedOK(u) ==
  /\ freed[u] \in {0, 1}
  /\ freed[u] = 1 => Released(u) \/ (op[u] = "none" /\ pc[u] = "gone")
  /\ freed[u] = 1 /\ pc[u] = "tlwake" => saved[u] # DT_DETACHED
  /\ op[u] = "failed" => freed[tgt[u]] = 0

FreeInv ==
  /\ JoinApart
  /\ \A t \in Threads : DetachOK(t)
  /\ \A t \in Threads : JoinOK(t)
  /\ \A t \in Threads : FreedOK(t)

-----------------------------------------------------------------------------
\* A thread that is counted and not linked yet.
Unlinked == {u \in Threads : \E p \in Threads : pc[p] = "link" /\ tgt[p] = u}

Linked == Active \ Unlinked

\* The ring is one: a part of it that next does not leave is all of it.
OneRing ==
  \A S \in SUBSET Linked : S # {} /\ (\A x \in S : next[x] \in S) => S = Linked

RingOK ==
  /\ \A t \in Threads : next[prev[t]] = t /\ prev[next[t]] = t
  /\ \A t \in Threads \ Linked : next[t] = t
  /\ OneRing

CountOK ==
  /\ tmin1 = Cardinality(Linked) - (IF \E p \in Threads : pc[p] = "link" THEN 0 ELSE 1)
  /\ (needLocks = 1) = (tmin1 > 0)

\* Whoever calls exit(0) is alone from the moment it saw itself alone in the list.
AloneOK ==
  \A t, u \in Threads : op[t] = "exit0" /\ u # t =>
     tid[u] = NoTid /\ pc[u] \in {"none", "tlwake", "freeself", "hostexit", "gone"}

RingInv == RingOK /\ CountOK /\ AloneOK

LEMMA CoreNext == CoreInv /\ [Next]_vars => CoreInv'
<1> SUFFICES ASSUME CoreInv, [Next]_vars PROVE CoreInv'
  OBVIOUS
<1> USE LifeAssumption DEF LifeAssumption, DT_EXITED, DT_EXITING, DT_JOINABLE, DT_DETACHED
<1>1. ASSUME NEW t \in Threads, TlCas(t) PROVE CoreInv'
  <2> USE <1>1 DEF TlCas, AfterLock, Goto, desc, list, lockVars, rest, CoreInv
  <2>1. LifeTypeOK'
    BY DEF LifeTypeOK, PcLabels, Holding, Early
  <2>2. LockOK'
    BY DEF LifeTypeOK, LockOK, Holding, TidOK, Committed, CallOK, SleepOK
  <2>3. CreateApart' /\ \A v \in Threads : CallOK(v)'
    BY DEF LifeTypeOK, CreateApart, CallOK, CreateOK, SleepOK
  <2>4. \A v \in Threads : TidOK(v)'
    BY DEF LifeTypeOK, TidOK, Committed, CallOK, CreateOK, LockOK, Holding, SleepOK
  <2>5. \A v \in Threads : CreateOK(v)'
    BY DEF LifeTypeOK, CreateOK, CallOK, LockOK, Holding, Early, SleepOK
  <2>6. SleepOK'
    BY DEF LifeTypeOK, SleepOK, CallOK, CreateOK
  <2> QED BY <2>1, <2>2, <2>3, <2>4, <2>5, <2>6
<1>2. ASSUME NEW t \in Threads, TlSpin(t) PROVE CoreInv'
  <2> USE <1>2 DEF TlSpin, AfterWait, Goto, desc, list, lockVars, rest, CoreInv
  <2>1. LifeTypeOK'
    BY DEF LifeTypeOK, PcLabels, Holding, Early
  <2>2. LockOK'
    BY DEF LifeTypeOK, LockOK, Holding, TidOK, Committed, CallOK, SleepOK
  <2>3. CreateApart' /\ \A v \in Threads : CallOK(v)'
    BY DEF LifeTypeOK, CreateApart, CallOK, CreateOK, SleepOK
  <2>4. \A v \in Threads : TidOK(v)'
    BY DEF LifeTypeOK, TidOK, Committed, CallOK, CreateOK, LockOK, Holding, SleepOK
  <2>5. \A v \in Threads : CreateOK(v)'
    BY DEF LifeTypeOK, CreateOK, CallOK, LockOK, Holding, Early, SleepOK
  <2>6. SleepOK'
    BY DEF LifeTypeOK, SleepOK, CallOK, CreateOK
  <2> QED BY <2>1, <2>2, <2>3, <2>4, <2>5, <2>6
<1>3. ASSUME NEW t \in Threads, TlInc(t) PROVE CoreInv'
  <2> USE <1>3 DEF TlInc, Goto, desc, list, lockVars, rest, CoreInv
  <2>1. LifeTypeOK'
    BY DEF LifeTypeOK, PcLabels, Holding, Early
  <2>2. LockOK'
    BY DEF LifeTypeOK, LockOK, Holding, TidOK, Committed, CallOK, SleepOK
  <2>3. CreateApart' /\ \A v \in Threads : CallOK(v)'
    BY DEF LifeTypeOK, CreateApart, CallOK, CreateOK, SleepOK
  <2>4. \A v \in Threads : TidOK(v)'
    BY DEF LifeTypeOK, TidOK, Committed, CallOK, CreateOK, LockOK, Holding, SleepOK
  <2>5. \A v \in Threads : CreateOK(v)'
    BY DEF LifeTypeOK, CreateOK, CallOK, LockOK, Holding, Early, SleepOK
  <2>6. SleepOK'
    BY DEF LifeTypeOK, SleepOK, CallOK, CreateOK
  <2> QED BY <2>1, <2>2, <2>3, <2>4, <2>5, <2>6
<1>4. ASSUME NEW t \in Threads, TlCheck(t) PROVE CoreInv'
  <2> USE <1>4 DEF TlCheck, Goto, desc, list, lockVars, rest, CoreInv
  <2>1. LifeTypeOK'
    BY DEF LifeTypeOK, PcLabels, Holding, Early
  <2>2. LockOK'
    BY DEF LifeTypeOK, LockOK, Holding, TidOK, Committed, CallOK, SleepOK
  <2>3. CreateApart' /\ \A v \in Threads : CallOK(v)'
    BY DEF LifeTypeOK, CreateApart, CallOK, CreateOK, SleepOK
  <2>4. \A v \in Threads : TidOK(v)'
    BY DEF LifeTypeOK, TidOK, Committed, CallOK, CreateOK, LockOK, Holding, SleepOK
  <2>5. \A v \in Threads : CreateOK(v)'
    BY DEF LifeTypeOK, CreateOK, CallOK, LockOK, Holding, Early, SleepOK
  <2>6. SleepOK'
    BY DEF LifeTypeOK, SleepOK, CallOK, CreateOK
  <2> QED BY <2>1, <2>2, <2>3, <2>4, <2>5, <2>6
<1>5. ASSUME NEW t \in Threads, TlDec(t) PROVE CoreInv'
  <2> USE <1>5 DEF TlDec, AfterWait, Goto, desc, list, lockVars, rest, CoreInv
  <2>1. LifeTypeOK'
    BY DEF LifeTypeOK, PcLabels, Holding, Early
  <2>2. LockOK'
    BY DEF LifeTypeOK, LockOK, Holding, TidOK, Committed, CallOK, SleepOK
  <2>3. CreateApart' /\ \A v \in Threads : CallOK(v)'
    BY DEF LifeTypeOK, CreateApart, CallOK, CreateOK, SleepOK
  <2>4. \A v \in Threads : TidOK(v)'
    BY DEF LifeTypeOK, TidOK, Committed, CallOK, CreateOK, LockOK, Holding, SleepOK
  <2>5. \A v \in Threads : CreateOK(v)'
    BY DEF LifeTypeOK, CreateOK, CallOK, LockOK, Holding, Early, SleepOK
  <2>6. SleepOK'
    BY DEF LifeTypeOK, SleepOK, CallOK, CreateOK
  <2> QED BY <2>1, <2>2, <2>3, <2>4, <2>5, <2>6
<1>6. ASSUME NEW t \in Threads, TlStore(t) PROVE CoreInv'
  <2> USE <1>6 DEF TlStore, Goto, desc, list, lockVars, rest, CoreInv
  <2>1. LifeTypeOK'
    BY DEF LifeTypeOK, PcLabels, Holding, Early
  <2>2. LockOK'
    BY DEF LifeTypeOK, LockOK, Holding, TidOK, Committed, CallOK, SleepOK
  <2>3. CreateApart' /\ \A v \in Threads : CallOK(v)'
    BY DEF LifeTypeOK, CreateApart, CallOK, CreateOK, SleepOK
  <2>4. \A v \in Threads : TidOK(v)'
    BY DEF LifeTypeOK, TidOK, Committed, CallOK, CreateOK, LockOK, Holding, SleepOK
  <2>5. \A v \in Threads : CreateOK(v)'
    BY DEF LifeTypeOK, CreateOK, CallOK, LockOK, Holding, Early, SleepOK
  <2>6. SleepOK'
    BY DEF LifeTypeOK, SleepOK, CallOK, CreateOK
  <2> QED BY <2>1, <2>2, <2>3, <2>4, <2>5, <2>6
<1>7. ASSUME NEW t \in Threads, TlWake(t) PROVE CoreInv'
  <2> USE DEF CoreInv
  <2>0. op[t] # "create" => AfterUnlock(t) \in {"freeself", "hostexit", "restore", "freemap"}
                           /\ (AfterUnlock(t) = "freemap" => op[t] = "failed")
                           /\ (AfterUnlock(t) = "restore" => op[t] = "exit0")
                           /\ (AfterUnlock(t) \in {"freeself", "hostexit"} => op[t] = "exit")
    BY <1>7 DEF TlWake, AfterUnlock, CallOK
  <2>w. /\ pc[t] = "tlwake" /\ tlSleep' \subseteq tlSleep
        /\ UNCHANGED <<tl, tlWaiters, tid, detach, next, prev, tmin1, needLocks, joinSleep, freed, claimed, saved>>
        /\ op[t] = "create" =>
              /\ pc' = [pc EXCEPT ![t] = "run"] /\ op' = [op EXCEPT ![t] = "none"]
              /\ tgt' = [tgt EXCEPT ![t] = t] /\ val' = [val EXCEPT ![t] = NoTid]
        /\ op[t] # "create" => pc' = [pc EXCEPT ![t] = AfterUnlock(t)] /\ UNCHANGED <<op, tgt, val>>
    BY <1>7 DEF TlWake, Wake, Return, Goto, desc, list, rest
  <2> USE <2>w
  <2>1. LifeTypeOK'
    <3>1. CASE op[t] = "create"
      BY <3>1 DEF LifeTypeOK, PcLabels, Holding, Early
    <3>2. CASE op[t] # "create"
      BY <2>0, <3>2 DEF LifeTypeOK, PcLabels, Holding, Early
    <3> QED BY <3>1, <3>2
  <2>2. LockOK'
    <3>1. CASE op[t] = "create"
      BY <3>1 DEF LifeTypeOK, LockOK, Holding, CallOK
    <3>2. CASE op[t] # "create"
      BY <2>0, <3>2 DEF LifeTypeOK, LockOK, Holding, CallOK
    <3> QED BY <3>1, <3>2
  <2>3. CreateApart' /\ \A v \in Threads : CallOK(v)'
    <3>1. CASE op[t] = "create"
      <4>1. \A v \in Threads : pc'[v] = IF v = t THEN "run" ELSE pc[v]
        BY <3>1 DEF LifeTypeOK
      <4>2. \A v \in Threads : op'[v] = IF v = t THEN "none" ELSE op[v]
        BY <3>1 DEF LifeTypeOK
      <4>3. \A v \in Threads : tgt'[v] = IF v = t THEN t ELSE tgt[v]
        BY <3>1 DEF LifeTypeOK
      <4>4. CreateApart'
        BY <4>2, <4>3 DEF CreateApart
      <4>5. \A v \in Threads : CallOK(v)'
        BY <4>1, <4>2 DEF CallOK
      <4> QED BY <4>4, <4>5
    <3>2. CASE op[t] # "create"
      <4>1. \A v \in Threads : pc'[v] = IF v = t THEN AfterUnlock(t) ELSE pc[v]
        BY <3>2 DEF LifeTypeOK
      <4> QED BY <2>0, <3>2, <4>1 DEF CreateApart, CallOK
    <3> QED BY <3>1, <3>2
  <2>4. \A v \in Threads : TidOK(v)'
    <3>1. CASE op[t] = "create"
      BY <3>1 DEF LifeTypeOK, TidOK, Committed, CallOK
    <3>2. CASE op[t] # "create"
      BY <2>0, <3>2 DEF LifeTypeOK, TidOK, Committed, CallOK
    <3> QED BY <3>1, <3>2
  <2>5. \A v \in Threads : CreateOK(v)'
    <3>1. CASE op[t] = "create"
      BY <3>1 DEF LifeTypeOK, CreateOK, CallOK, Early
    <3>2. CASE op[t] # "create"
      BY <2>0, <3>2 DEF LifeTypeOK, CreateOK, CallOK, Early
    <3> QED BY <3>1, <3>2
  <2>6. SleepOK'
    BY DEF LifeTypeOK, SleepOK, CallOK, CreateOK
  <2> QED BY <2>1, <2>2, <2>3, <2>4, <2>5, <2>6
<1>8. ASSUME NEW t \in Threads, Spawn(t) PROVE CoreInv'
  <2> USE <1>8 DEF Spawn, Goto, desc, list, lockVars, rest, CoreInv
  <2>1. LifeTypeOK'
    BY DEF LifeTypeOK, PcLabels, Holding, Early
  <2>2. LockOK'
    BY DEF LifeTypeOK, LockOK, Holding, TidOK, Committed, CallOK, SleepOK
  <2>3. CreateApart' /\ \A v \in Threads : CallOK(v)'
    BY DEF LifeTypeOK, CreateApart, CallOK, CreateOK, SleepOK
  <2>4. \A v \in Threads : TidOK(v)'
    BY DEF LifeTypeOK, TidOK, Committed, CallOK, CreateOK, LockOK, Holding, SleepOK
  <2>5. \A v \in Threads : CreateOK(v)'
    <3>1. tgt[t] # t /\ pc[tgt[t]] = "none" /\ op[tgt[t]] = "none"
      BY DEF LifeTypeOK, CreateOK, CallOK
    <3>2. \A v \in Threads \ {t} : op[v] \in {"create", "failed"} => tgt[v] # tgt[t] /\ (op[v] = "failed" => tgt[v] # t)
      BY <3>1 DEF LifeTypeOK, CreateApart, CreateOK, CallOK
    <3>3. \A v \in Threads : pc'[v] = IF v = t THEN "link" ELSE IF v = tgt[t] THEN "start" ELSE pc[v]
      BY <3>1 DEF LifeTypeOK
    <3>4. \A v \in Threads \ {t} : pc[v] # "link"
      BY DEF LockOK, Holding
    <3> QED BY <3>1, <3>2, <3>3, <3>4 DEF LifeTypeOK, CreateOK, CallOK
  <2>6. SleepOK'
    BY DEF LifeTypeOK, SleepOK, CallOK, CreateOK
  <2> QED BY <2>1, <2>2, <2>3, <2>4, <2>5, <2>6
<1>9. ASSUME NEW t \in Threads, SpawnFails(t) PROVE CoreInv'
  <2> USE <1>9 DEF SpawnFails, Goto, desc, list, lockVars, rest, CoreInv
  <2>1. LifeTypeOK'
    BY DEF LifeTypeOK, PcLabels, Holding, Early
  <2>2. LockOK'
    BY DEF LifeTypeOK, LockOK, Holding, TidOK, Committed, CallOK, SleepOK
  <2>3. CreateApart' /\ \A v \in Threads : CallOK(v)'
    BY DEF LifeTypeOK, CreateApart, CallOK, CreateOK, SleepOK
  <2>4. \A v \in Threads : TidOK(v)'
    BY DEF LifeTypeOK, TidOK, Committed, CallOK, CreateOK, LockOK, Holding, SleepOK
  <2>5. \A v \in Threads : CreateOK(v)'
    <3>1. tgt[t] # t /\ pc[tgt[t]] = "none" /\ op[tgt[t]] = "none"
      BY DEF LifeTypeOK, CreateOK, CallOK
    <3>2. \A v \in Threads \ {t} : op[v] \in {"create", "failed"} => tgt[v] # tgt[t] /\ (op[v] = "failed" => tgt[v] # t)
      BY <3>1 DEF LifeTypeOK, CreateApart, CreateOK, CallOK
    <3>3. \A v \in Threads : pc'[v] = IF v = t THEN "unlock" ELSE IF v = tgt[t] THEN "gone" ELSE pc[v]
      BY <3>1 DEF LifeTypeOK
    <3>4. \A v \in Threads \ {t} : pc[v] # "link"
      BY DEF LockOK, Holding
    <3> QED BY <3>1, <3>2, <3>3, <3>4 DEF LifeTypeOK, CreateOK, CallOK
  <2>6. SleepOK'
    BY DEF LifeTypeOK, SleepOK, CallOK, CreateOK
  <2> QED BY <2>1, <2>2, <2>3, <2>4, <2>5, <2>6
<1>10. ASSUME NEW t \in Threads, FreeMap(t) PROVE CoreInv'
  <2> USE <1>10 DEF FreeMap, Return, Goto, desc, list, lockVars, rest, CoreInv
  <2>1. LifeTypeOK'
    BY DEF LifeTypeOK, PcLabels, Holding, Early
  <2>2. LockOK'
    BY DEF LifeTypeOK, LockOK, Holding, TidOK, Committed, CallOK, SleepOK
  <2>3. CreateApart' /\ \A v \in Threads : CallOK(v)'
    BY DEF LifeTypeOK, CreateApart, CallOK, CreateOK, SleepOK
  <2>4. \A v \in Threads : TidOK(v)'
    BY DEF LifeTypeOK, TidOK, Committed, CallOK, CreateOK, LockOK, Holding, SleepOK
  <2>5. \A v \in Threads : CreateOK(v)'
    BY DEF LifeTypeOK, CreateOK, CallOK, LockOK, Holding, Early, SleepOK
  <2>6. SleepOK'
    BY DEF LifeTypeOK, SleepOK, CallOK, CreateOK
  <2> QED BY <2>1, <2>2, <2>3, <2>4, <2>5, <2>6
<1>11. ASSUME NEW t \in Threads, Link(t) PROVE CoreInv'
  <2> USE <1>11 DEF Link, Goto, desc, list, lockVars, rest, CoreInv
  <2>1. LifeTypeOK'
    BY DEF LifeTypeOK, PcLabels, Holding, Early
  <2>2. LockOK'
    BY DEF LifeTypeOK, LockOK, Holding, TidOK, Committed, CallOK, SleepOK
  <2>3. CreateApart' /\ \A v \in Threads : CallOK(v)'
    BY DEF LifeTypeOK, CreateApart, CallOK, CreateOK, SleepOK
  <2>4. \A v \in Threads : TidOK(v)'
    <3>1. tgt[t] # t /\ pc[tgt[t]] \in Early \cup {"start"} /\ tgt[t] \in Threads
      BY DEF CreateOK, CallOK, LifeTypeOK
    <3>2. \A v \in Threads : tid'[v] = IF v = tgt[t] THEN v ELSE tid[v]
      BY DEF LifeTypeOK
    <3>3. \A v \in Threads : pc'[v] = IF v = t THEN "unlock" ELSE pc[v]
      BY DEF LifeTypeOK
    <3>4. \A v \in Threads \ {t} : pc[v] # "link"
      BY DEF LockOK, Holding
    <3> QED BY <3>1, <3>2, <3>3, <3>4 DEF TidOK, Committed, CallOK, Early
  <2>5. \A v \in Threads : CreateOK(v)'
    BY DEF LifeTypeOK, CreateOK, CallOK, LockOK, Holding, Early, SleepOK
  <2>6. SleepOK'
    BY DEF LifeTypeOK, SleepOK, CallOK, CreateOK
  <2> QED BY <2>1, <2>2, <2>3, <2>4, <2>5, <2>6
<1>12. ASSUME NEW t \in Threads, Start(t) PROVE CoreInv'
  <2> USE <1>12 DEF Start, Goto, desc, list, lockVars, rest, CoreInv
  <2>1. LifeTypeOK'
    BY DEF LifeTypeOK, PcLabels, Holding, Early
  <2>2. LockOK'
    BY DEF LifeTypeOK, LockOK, Holding, TidOK, Committed, CallOK, SleepOK
  <2>3. CreateApart' /\ \A v \in Threads : CallOK(v)'
    BY DEF LifeTypeOK, CreateApart, CallOK, CreateOK, SleepOK
  <2>4. \A v \in Threads : TidOK(v)'
    BY DEF LifeTypeOK, TidOK, Committed, CallOK, CreateOK, LockOK, Holding, SleepOK
  <2>5. \A v \in Threads : CreateOK(v)'
    BY DEF LifeTypeOK, CreateOK, CallOK, LockOK, Holding, Early, SleepOK
  <2>6. SleepOK'
    BY DEF LifeTypeOK, SleepOK, CallOK, CreateOK
  <2> QED BY <2>1, <2>2, <2>3, <2>4, <2>5, <2>6
<1>13. ASSUME NEW t \in Threads, LastThread(t) PROVE CoreInv'
  <2> USE <1>13 DEF LastThread, Goto, desc, list, lockVars, rest, CoreInv
  <2>1. LifeTypeOK'
    BY DEF LifeTypeOK, PcLabels, Holding, Early
  <2>2. LockOK'
    BY DEF LifeTypeOK, LockOK, Holding, TidOK, Committed, CallOK, SleepOK
  <2>3. CreateApart' /\ \A v \in Threads : CallOK(v)'
    BY DEF LifeTypeOK, CreateApart, CallOK, CreateOK, SleepOK
  <2>4. \A v \in Threads : TidOK(v)'
    BY DEF LifeTypeOK, TidOK, Committed, CallOK, CreateOK, LockOK, Holding, SleepOK
  <2>5. \A v \in Threads : CreateOK(v)'
    BY DEF LifeTypeOK, CreateOK, CallOK, LockOK, Holding, Early, SleepOK
  <2>6. SleepOK'
    BY DEF LifeTypeOK, SleepOK, CallOK, CreateOK
  <2> QED BY <2>1, <2>2, <2>3, <2>4, <2>5, <2>6
<1>14. ASSUME NEW t \in Threads, RestoreDetach(t) PROVE CoreInv'
  <2> USE <1>14 DEF RestoreDetach, Goto, desc, list, lockVars, rest, CoreInv
  <2>1. LifeTypeOK'
    BY DEF LifeTypeOK, PcLabels, Holding, Early
  <2>2. LockOK'
    BY DEF LifeTypeOK, LockOK, Holding, TidOK, Committed, CallOK, SleepOK
  <2>3. CreateApart' /\ \A v \in Threads : CallOK(v)'
    BY DEF LifeTypeOK, CreateApart, CallOK, CreateOK, SleepOK
  <2>4. \A v \in Threads : TidOK(v)'
    BY DEF LifeTypeOK, TidOK, Committed, CallOK, CreateOK, LockOK, Holding, SleepOK
  <2>5. \A v \in Threads : CreateOK(v)'
    BY DEF LifeTypeOK, CreateOK, CallOK, LockOK, Holding, Early, SleepOK
  <2>6. SleepOK'
    BY DEF LifeTypeOK, SleepOK, CallOK, CreateOK
  <2> QED BY <2>1, <2>2, <2>3, <2>4, <2>5, <2>6
<1>15. ASSUME NEW t \in Threads, Unlink(t) PROVE CoreInv'
  <2> USE <1>15 DEF Unlink, Goto, desc, list, lockVars, rest, CoreInv
  <2>1. LifeTypeOK'
    BY DEF LifeTypeOK, PcLabels, Holding, Early
  <2>2. LockOK'
    BY DEF LifeTypeOK, LockOK, Holding, TidOK, Committed, CallOK, SleepOK
  <2>3. CreateApart' /\ \A v \in Threads : CallOK(v)'
    BY DEF LifeTypeOK, CreateApart, CallOK, CreateOK, SleepOK
  <2>4. \A v \in Threads : TidOK(v)'
    BY DEF LifeTypeOK, TidOK, Committed, CallOK, CreateOK, LockOK, Holding, SleepOK
  <2>5. \A v \in Threads : CreateOK(v)'
    BY DEF LifeTypeOK, CreateOK, CallOK, LockOK, Holding, Early, SleepOK
  <2>6. SleepOK'
    BY DEF LifeTypeOK, SleepOK, CallOK, CreateOK
  <2> QED BY <2>1, <2>2, <2>3, <2>4, <2>5, <2>6
<1>16. ASSUME NEW t \in Threads, StoreExited(t) PROVE CoreInv'
  <2> USE <1>16 DEF StoreExited, Goto, desc, list, lockVars, rest, CoreInv
  <2>1. LifeTypeOK'
    BY DEF LifeTypeOK, PcLabels, Holding, Early
  <2>2. LockOK'
    BY DEF LifeTypeOK, LockOK, Holding, TidOK, Committed, CallOK, SleepOK
  <2>3. CreateApart' /\ \A v \in Threads : CallOK(v)'
    BY DEF LifeTypeOK, CreateApart, CallOK, CreateOK, SleepOK
  <2>4. \A v \in Threads : TidOK(v)'
    BY DEF LifeTypeOK, TidOK, Committed, CallOK, CreateOK, LockOK, Holding, SleepOK
  <2>5. \A v \in Threads : CreateOK(v)'
    BY DEF LifeTypeOK, CreateOK, CallOK, LockOK, Holding, Early, SleepOK
  <2>6. SleepOK'
    BY DEF LifeTypeOK, SleepOK, CallOK, CreateOK
  <2> QED BY <2>1, <2>2, <2>3, <2>4, <2>5, <2>6
<1>17. ASSUME NEW t \in Threads, WakeJoiner(t) PROVE CoreInv'
  <2> USE <1>17 DEF WakeJoiner, Wake, Goto, desc, list, lockVars, rest, CoreInv
  <2>1. LifeTypeOK'
    BY DEF LifeTypeOK, PcLabels, Holding, Early
  <2>2. LockOK'
    BY DEF LifeTypeOK, LockOK, Holding, TidOK, Committed, CallOK, SleepOK
  <2>3. CreateApart' /\ \A v \in Threads : CallOK(v)'
    BY DEF LifeTypeOK, CreateApart, CallOK, CreateOK, SleepOK
  <2>4. \A v \in Threads : TidOK(v)'
    BY DEF LifeTypeOK, TidOK, Committed, CallOK, CreateOK, LockOK, Holding, SleepOK
  <2>5. \A v \in Threads : CreateOK(v)'
    BY DEF LifeTypeOK, CreateOK, CallOK, LockOK, Holding, Early, SleepOK
  <2>6. SleepOK'
    BY DEF LifeTypeOK, SleepOK, CallOK, CreateOK
  <2> QED BY <2>1, <2>2, <2>3, <2>4, <2>5, <2>6
<1>18. ASSUME NEW t \in Threads, FreeSelf(t) PROVE CoreInv'
  <2> USE <1>18 DEF FreeSelf, Goto, desc, list, lockVars, rest, CoreInv
  <2>1. LifeTypeOK'
    BY DEF LifeTypeOK, PcLabels, Holding, Early
  <2>2. LockOK'
    BY DEF LifeTypeOK, LockOK, Holding, TidOK, Committed, CallOK, SleepOK
  <2>3. CreateApart' /\ \A v \in Threads : CallOK(v)'
    BY DEF LifeTypeOK, CreateApart, CallOK, CreateOK, SleepOK
  <2>4. \A v \in Threads : TidOK(v)'
    BY DEF LifeTypeOK, TidOK, Committed, CallOK, CreateOK, LockOK, Holding, SleepOK
  <2>5. \A v \in Threads : CreateOK(v)'
    BY DEF LifeTypeOK, CreateOK, CallOK, LockOK, Holding, Early, SleepOK
  <2>6. SleepOK'
    BY DEF LifeTypeOK, SleepOK, CallOK, CreateOK
  <2> QED BY <2>1, <2>2, <2>3, <2>4, <2>5, <2>6
<1>19. ASSUME NEW t \in Threads, HostExit(t) PROVE CoreInv'
  <2> USE <1>19 DEF HostExit, Goto, desc, list, lockVars, rest, CoreInv
  <2>1. LifeTypeOK'
    BY DEF LifeTypeOK, PcLabels, Holding, Early
  <2>2. LockOK'
    BY DEF LifeTypeOK, LockOK, Holding, TidOK, Committed, CallOK, SleepOK
  <2>3. CreateApart' /\ \A v \in Threads : CallOK(v)'
    BY DEF LifeTypeOK, CreateApart, CallOK, CreateOK, SleepOK
  <2>4. \A v \in Threads : TidOK(v)'
    BY DEF LifeTypeOK, TidOK, Committed, CallOK, CreateOK, LockOK, Holding, SleepOK
  <2>5. \A v \in Threads : CreateOK(v)'
    BY DEF LifeTypeOK, CreateOK, CallOK, LockOK, Holding, Early, SleepOK
  <2>6. SleepOK'
    BY DEF LifeTypeOK, SleepOK, CallOK, CreateOK
  <2> QED BY <2>1, <2>2, <2>3, <2>4, <2>5, <2>6
<1>20. ASSUME NEW t \in Threads, JoinLoad(t) PROVE CoreInv'
  <2> USE <1>20 DEF JoinLoad, Goto, desc, list, lockVars, rest, CoreInv
  <2>1. LifeTypeOK'
    BY DEF LifeTypeOK, PcLabels, Holding, Early
  <2>2. LockOK'
    BY DEF LifeTypeOK, LockOK, Holding, TidOK, Committed, CallOK, SleepOK
  <2>3. CreateApart' /\ \A v \in Threads : CallOK(v)'
    BY DEF LifeTypeOK, CreateApart, CallOK, CreateOK, SleepOK
  <2>4. \A v \in Threads : TidOK(v)'
    BY DEF LifeTypeOK, TidOK, Committed, CallOK, CreateOK, LockOK, Holding, SleepOK
  <2>5. \A v \in Threads : CreateOK(v)'
    BY DEF LifeTypeOK, CreateOK, CallOK, LockOK, Holding, Early, SleepOK
  <2>6. SleepOK'
    BY DEF LifeTypeOK, SleepOK, CallOK, CreateOK
  <2> QED BY <2>1, <2>2, <2>3, <2>4, <2>5, <2>6
<1>21. ASSUME NEW t \in Threads, JoinWait(t) PROVE CoreInv'
  <2> USE <1>21 DEF JoinWait, Goto, desc, list, lockVars, rest, CoreInv
  <2>1. LifeTypeOK'
    BY DEF LifeTypeOK, PcLabels, Holding, Early
  <2>2. LockOK'
    BY DEF LifeTypeOK, LockOK, Holding, TidOK, Committed, CallOK, SleepOK
  <2>3. CreateApart' /\ \A v \in Threads : CallOK(v)'
    BY DEF LifeTypeOK, CreateApart, CallOK, CreateOK, SleepOK
  <2>4. \A v \in Threads : TidOK(v)'
    BY DEF LifeTypeOK, TidOK, Committed, CallOK, CreateOK, LockOK, Holding, SleepOK
  <2>5. \A v \in Threads : CreateOK(v)'
    BY DEF LifeTypeOK, CreateOK, CallOK, LockOK, Holding, Early, SleepOK
  <2>6. SleepOK'
    BY DEF LifeTypeOK, SleepOK, CallOK, CreateOK
  <2> QED BY <2>1, <2>2, <2>3, <2>4, <2>5, <2>6
<1>22. ASSUME NEW t \in Threads, JoinWoken(t) PROVE CoreInv'
  <2> USE <1>22 DEF JoinWoken, Goto, desc, list, lockVars, rest, CoreInv
  <2>1. LifeTypeOK'
    BY DEF LifeTypeOK, PcLabels, Holding, Early
  <2>2. LockOK'
    BY DEF LifeTypeOK, LockOK, Holding, TidOK, Committed, CallOK, SleepOK
  <2>3. CreateApart' /\ \A v \in Threads : CallOK(v)'
    BY DEF LifeTypeOK, CreateApart, CallOK, CreateOK, SleepOK
  <2>4. \A v \in Threads : TidOK(v)'
    BY DEF LifeTypeOK, TidOK, Committed, CallOK, CreateOK, LockOK, Holding, SleepOK
  <2>5. \A v \in Threads : CreateOK(v)'
    BY DEF LifeTypeOK, CreateOK, CallOK, LockOK, Holding, Early, SleepOK
  <2>6. SleepOK'
    BY DEF LifeTypeOK, SleepOK, CallOK, CreateOK
  <2> QED BY <2>1, <2>2, <2>3, <2>4, <2>5, <2>6
<1>23. ASSUME NEW t \in Threads, TlSync(t) PROVE CoreInv'
  <2> USE <1>23 DEF TlSync, Goto, desc, list, lockVars, rest, CoreInv
  <2>1. LifeTypeOK'
    BY DEF LifeTypeOK, PcLabels, Holding, Early
  <2>2. LockOK'
    BY DEF LifeTypeOK, LockOK, Holding, TidOK, Committed, CallOK, SleepOK
  <2>3. CreateApart' /\ \A v \in Threads : CallOK(v)'
    BY DEF LifeTypeOK, CreateApart, CallOK, CreateOK, SleepOK
  <2>4. \A v \in Threads : TidOK(v)'
    BY DEF LifeTypeOK, TidOK, Committed, CallOK, CreateOK, LockOK, Holding, SleepOK
  <2>5. \A v \in Threads : CreateOK(v)'
    BY DEF LifeTypeOK, CreateOK, CallOK, LockOK, Holding, Early, SleepOK
  <2>6. SleepOK'
    BY DEF LifeTypeOK, SleepOK, CallOK, CreateOK
  <2> QED BY <2>1, <2>2, <2>3, <2>4, <2>5, <2>6
<1>24. ASSUME NEW t \in Threads, TlSyncPass(t) PROVE CoreInv'
  <2> USE <1>24 DEF TlSyncPass, Wake, Goto, desc, list, lockVars, rest, CoreInv
  <2>1. LifeTypeOK'
    BY DEF LifeTypeOK, PcLabels, Holding, Early
  <2>2. LockOK'
    BY DEF LifeTypeOK, LockOK, Holding, TidOK, Committed, CallOK, SleepOK
  <2>3. CreateApart' /\ \A v \in Threads : CallOK(v)'
    BY DEF LifeTypeOK, CreateApart, CallOK, CreateOK, SleepOK
  <2>4. \A v \in Threads : TidOK(v)'
    BY DEF LifeTypeOK, TidOK, Committed, CallOK, CreateOK, LockOK, Holding, SleepOK
  <2>5. \A v \in Threads : CreateOK(v)'
    BY DEF LifeTypeOK, CreateOK, CallOK, LockOK, Holding, Early, SleepOK
  <2>6. SleepOK'
    BY DEF LifeTypeOK, SleepOK, CallOK, CreateOK
  <2> QED BY <2>1, <2>2, <2>3, <2>4, <2>5, <2>6
<1>25. ASSUME NEW t \in Threads, JoinFree(t) PROVE CoreInv'
  <2> USE <1>25 DEF JoinFree, Return, Goto, desc, list, lockVars, rest, CoreInv
  <2>1. LifeTypeOK'
    BY DEF LifeTypeOK, PcLabels, Holding, Early
  <2>2. LockOK'
    BY DEF LifeTypeOK, LockOK, Holding, TidOK, Committed, CallOK, SleepOK
  <2>3. CreateApart' /\ \A v \in Threads : CallOK(v)'
    BY DEF LifeTypeOK, CreateApart, CallOK, CreateOK, SleepOK
  <2>4. \A v \in Threads : TidOK(v)'
    BY DEF LifeTypeOK, TidOK, Committed, CallOK, CreateOK, LockOK, Holding, SleepOK
  <2>5. \A v \in Threads : CreateOK(v)'
    BY DEF LifeTypeOK, CreateOK, CallOK, LockOK, Holding, Early, SleepOK
  <2>6. SleepOK'
    BY DEF LifeTypeOK, SleepOK, CallOK, CreateOK
  <2> QED BY <2>1, <2>2, <2>3, <2>4, <2>5, <2>6
<1>26. ASSUME NEW t \in Threads, HostSignal(t) PROVE CoreInv'
  <2> USE <1>26 DEF HostSignal, Return, Goto, desc, list, lockVars, rest, CoreInv
  <2>1. LifeTypeOK'
    BY DEF LifeTypeOK, PcLabels, Holding, Early
  <2>2. LockOK'
    BY DEF LifeTypeOK, LockOK, Holding, TidOK, Committed, CallOK, SleepOK
  <2>3. CreateApart' /\ \A v \in Threads : CallOK(v)'
    BY DEF LifeTypeOK, CreateApart, CallOK, CreateOK, SleepOK
  <2>4. \A v \in Threads : TidOK(v)'
    BY DEF LifeTypeOK, TidOK, Committed, CallOK, CreateOK, LockOK, Holding, SleepOK
  <2>5. \A v \in Threads : CreateOK(v)'
    BY DEF LifeTypeOK, CreateOK, CallOK, LockOK, Holding, Early, SleepOK
  <2>6. SleepOK'
    BY DEF LifeTypeOK, SleepOK, CallOK, CreateOK
  <2> QED BY <2>1, <2>2, <2>3, <2>4, <2>5, <2>6
<1>27. ASSUME NEW t \in Threads, TlSpurious(t) PROVE CoreInv'
  <2> USE <1>27 DEF TlSpurious, Goto, desc, list, lockVars, rest, CoreInv
  <2>1. LifeTypeOK'
    BY DEF LifeTypeOK, PcLabels, Holding, Early
  <2>2. LockOK'
    BY DEF LifeTypeOK, LockOK, Holding, TidOK, Committed, CallOK, SleepOK
  <2>3. CreateApart' /\ \A v \in Threads : CallOK(v)'
    BY DEF LifeTypeOK, CreateApart, CallOK, CreateOK, SleepOK
  <2>4. \A v \in Threads : TidOK(v)'
    BY DEF LifeTypeOK, TidOK, Committed, CallOK, CreateOK, LockOK, Holding, SleepOK
  <2>5. \A v \in Threads : CreateOK(v)'
    BY DEF LifeTypeOK, CreateOK, CallOK, LockOK, Holding, Early, SleepOK
  <2>6. SleepOK'
    BY DEF LifeTypeOK, SleepOK, CallOK, CreateOK
  <2> QED BY <2>1, <2>2, <2>3, <2>4, <2>5, <2>6
<1>28. ASSUME NEW t \in Threads, CallExit(t) PROVE CoreInv'
  <2> USE <1>28 DEF CallExit, Goto, desc, list, lockVars, rest, CoreInv
  <2>1. LifeTypeOK'
    BY DEF LifeTypeOK, PcLabels, Holding, Early
  <2>2. LockOK'
    BY DEF LifeTypeOK, LockOK, Holding, TidOK, Committed, CallOK, SleepOK
  <2>3. CreateApart' /\ \A v \in Threads : CallOK(v)'
    BY DEF LifeTypeOK, CreateApart, CallOK, CreateOK, SleepOK
  <2>4. \A v \in Threads : TidOK(v)'
    BY DEF LifeTypeOK, TidOK, Committed, CallOK, CreateOK, LockOK, Holding, SleepOK
  <2>5. \A v \in Threads : CreateOK(v)'
    BY DEF LifeTypeOK, CreateOK, CallOK, LockOK, Holding, Early, SleepOK
  <2>6. SleepOK'
    BY DEF LifeTypeOK, SleepOK, CallOK, CreateOK
  <2> QED BY <2>1, <2>2, <2>3, <2>4, <2>5, <2>6
<1>29. ASSUME NEW t \in Threads, JoinTimeout(t) PROVE CoreInv'
  <2> USE <1>29 DEF JoinTimeout, Return, Goto, desc, list, lockVars, rest, CoreInv
  <2>1. LifeTypeOK'
    BY DEF LifeTypeOK, PcLabels, Holding, Early
  <2>2. LockOK'
    BY DEF LifeTypeOK, LockOK, Holding, TidOK, Committed, CallOK, SleepOK
  <2>3. CreateApart' /\ \A v \in Threads : CallOK(v)'
    BY DEF LifeTypeOK, CreateApart, CallOK, CreateOK, SleepOK
  <2>4. \A v \in Threads : TidOK(v)'
    BY DEF LifeTypeOK, TidOK, Committed, CallOK, CreateOK, LockOK, Holding, SleepOK
  <2>5. \A v \in Threads : CreateOK(v)'
    BY DEF LifeTypeOK, CreateOK, CallOK, LockOK, Holding, Early, SleepOK
  <2>6. SleepOK'
    BY DEF LifeTypeOK, SleepOK, CallOK, CreateOK
  <2> QED BY <2>1, <2>2, <2>3, <2>4, <2>5, <2>6
<1>30. ASSUME NEW t \in Threads, NEW u \in Threads, NEW d \in {DT_JOINABLE, DT_DETACHED}, CallCreate(t, u, d) PROVE CoreInv'
  <2> USE <1>30 DEF CallCreate, Goto, desc, list, lockVars, rest, CoreInv
  <2>1. LifeTypeOK'
    BY DEF LifeTypeOK, PcLabels, Holding, Early
  <2>2. LockOK'
    BY DEF LifeTypeOK, LockOK, Holding, TidOK, Committed, CallOK, SleepOK
  <2>3. CreateApart' /\ \A v \in Threads : CallOK(v)'
    BY DEF LifeTypeOK, CreateApart, CallOK, CreateOK, SleepOK
  <2>4. \A v \in Threads : TidOK(v)'
    BY DEF LifeTypeOK, TidOK, Committed, CallOK, CreateOK, LockOK, Holding, SleepOK
  <2>5. \A v \in Threads : CreateOK(v)'
    BY DEF LifeTypeOK, CreateOK, CallOK, LockOK, Holding, Early, SleepOK
  <2>6. SleepOK'
    BY DEF LifeTypeOK, SleepOK, CallOK, CreateOK
  <2> QED BY <2>1, <2>2, <2>3, <2>4, <2>5, <2>6
<1>31. ASSUME NEW t \in Threads, NEW u \in Threads, CallJoin(t, u) PROVE CoreInv'
  <2> USE <1>31 DEF CallJoin, Goto, desc, list, lockVars, rest, CoreInv
  <2>1. LifeTypeOK'
    BY DEF LifeTypeOK, PcLabels, Holding, Early
  <2>2. LockOK'
    BY DEF LifeTypeOK, LockOK, Holding, TidOK, Committed, CallOK, SleepOK
  <2>3. CreateApart' /\ \A v \in Threads : CallOK(v)'
    BY DEF LifeTypeOK, CreateApart, CallOK, CreateOK, SleepOK
  <2>4. \A v \in Threads : TidOK(v)'
    BY DEF LifeTypeOK, TidOK, Committed, CallOK, CreateOK, LockOK, Holding, SleepOK
  <2>5. \A v \in Threads : CreateOK(v)'
    BY DEF LifeTypeOK, CreateOK, CallOK, LockOK, Holding, Early, SleepOK
  <2>6. SleepOK'
    BY DEF LifeTypeOK, SleepOK, CallOK, CreateOK
  <2> QED BY <2>1, <2>2, <2>3, <2>4, <2>5, <2>6
<1>32. ASSUME NEW t \in Threads, NEW u \in Threads, CallDetach(t, u) PROVE CoreInv'
  <2> USE <1>32 DEF CallDetach, Started, Goto, desc, list, lockVars, rest, CoreInv
  <2>1. LifeTypeOK'
    <3>1. CASE detach[u] = DT_JOINABLE
      BY <3>1 DEF LifeTypeOK
    <3>2. CASE detach[u] # DT_JOINABLE
      BY <3>2 DEF LifeTypeOK, PcLabels, Early
    <3> QED BY <3>1, <3>2
  <2>2. LockOK'
    BY DEF LifeTypeOK, LockOK, Holding, TidOK, Committed, CallOK, SleepOK
  <2>3. CreateApart' /\ \A v \in Threads : CallOK(v)'
    BY DEF LifeTypeOK, CreateApart, CallOK, CreateOK, SleepOK
  <2>4. \A v \in Threads : TidOK(v)'
    BY DEF LifeTypeOK, TidOK, Committed, CallOK, CreateOK, LockOK, Holding, SleepOK
  <2>5. \A v \in Threads : CreateOK(v)'
    BY DEF LifeTypeOK, CreateOK, CallOK, LockOK, Holding, Early, SleepOK
  <2>6. SleepOK'
    BY DEF LifeTypeOK, SleepOK, CallOK, CreateOK
  <2> QED BY <2>1, <2>2, <2>3, <2>4, <2>5, <2>6
<1>33. ASSUME NEW t \in Threads, NEW u \in Threads, CallKill(t, u) PROVE CoreInv'
  <2> USE <1>33 DEF CallKill, Goto, desc, list, lockVars, rest, CoreInv
  <2>1. LifeTypeOK'
    BY DEF LifeTypeOK, PcLabels, Holding, Early
  <2>2. LockOK'
    BY DEF LifeTypeOK, LockOK, Holding, TidOK, Committed, CallOK, SleepOK
  <2>3. CreateApart' /\ \A v \in Threads : CallOK(v)'
    BY DEF LifeTypeOK, CreateApart, CallOK, CreateOK, SleepOK
  <2>4. \A v \in Threads : TidOK(v)'
    BY DEF LifeTypeOK, TidOK, Committed, CallOK, CreateOK, LockOK, Holding, SleepOK
  <2>5. \A v \in Threads : CreateOK(v)'
    BY DEF LifeTypeOK, CreateOK, CallOK, LockOK, Holding, Early, SleepOK
  <2>6. SleepOK'
    BY DEF LifeTypeOK, SleepOK, CallOK, CreateOK
  <2> QED BY <2>1, <2>2, <2>3, <2>4, <2>5, <2>6
<1>34. CASE UNCHANGED vars
  BY <1>34 DEF vars, CoreInv, LifeTypeOK, LockOK, CreateApart, CallOK, TidOK, Committed, CreateOK, SleepOK
<1> QED
  BY <1>1, <1>2, <1>3, <1>4, <1>5, <1>6, <1>7, <1>8, <1>9, <1>10, <1>11, <1>12, <1>13, <1>14, <1>15, <1>16, <1>17, <1>18, <1>19, <1>20, <1>21, <1>22, <1>23, <1>24, <1>25, <1>26, <1>27, <1>28, <1>29, <1>30, <1>31, <1>32, <1>33, <1>34 DEF Next, Step, Over

-----------------------------------------------------------------------------
LEMMA FreeNext == CoreInv /\ CoreInv' /\ FreeInv /\ [Next]_vars => FreeInv'
<1> SUFFICES ASSUME CoreInv, CoreInv', FreeInv, [Next]_vars PROVE FreeInv'
  OBVIOUS
<1> USE LifeAssumption DEF LifeAssumption, DT_EXITED, DT_EXITING, DT_JOINABLE, DT_DETACHED, CoreInv, FreeInv
<1>1. ASSUME NEW t \in Threads, TlCas(t) PROVE FreeInv'
  <2> USE <1>1 DEF TlCas, AfterLock, Goto, desc, list, lockVars, rest
  <2>1. JoinApart'
    BY DEF LifeTypeOK, CallOK, JoinApart, JoinOK
  <2>2. \A v \in Threads : DetachOK(v)'
    BY DEF LifeTypeOK, CallOK, CreateOK, LockOK, Holding, DetachOK, JoinOK, Released
  <2>3. \A v \in Threads : JoinOK(v)'
    <3>1. CASE tl = NoTid
      BY <3>1 DEF LifeTypeOK, CallOK, JoinOK, Released
    <3>2. CASE tl # NoTid
      BY <3>2 DEF LifeTypeOK, CallOK, JoinOK, Released
    <3> QED BY <3>1, <3>2
  <2>4. \A v \in Threads : FreedOK(v)'
    BY DEF LifeTypeOK, CallOK, CreateOK, CreateApart, DetachOK, JoinOK, FreedOK, Released
  <2> QED BY <2>1, <2>2, <2>3, <2>4
<1>2. ASSUME NEW t \in Threads, TlSpin(t) PROVE FreeInv'
  <2> USE <1>2 DEF TlSpin, AfterWait, Goto, desc, list, lockVars, rest
  <2>1. JoinApart'
    BY DEF LifeTypeOK, CallOK, JoinApart, JoinOK
  <2>2. \A v \in Threads : DetachOK(v)'
    BY DEF LifeTypeOK, CallOK, CreateOK, LockOK, Holding, DetachOK, JoinOK, Released
  <2>3. \A v \in Threads : JoinOK(v)'
    BY DEF LifeTypeOK, CallOK, CreateOK, SleepOK, LockOK, Holding, DetachOK, JoinOK, JoinApart, FreedOK, Released
  <2>4. \A v \in Threads : FreedOK(v)'
    BY DEF LifeTypeOK, CallOK, CreateOK, CreateApart, DetachOK, JoinOK, FreedOK, Released
  <2> QED BY <2>1, <2>2, <2>3, <2>4
<1>3. ASSUME NEW t \in Threads, TlInc(t) PROVE FreeInv'
  <2> USE <1>3 DEF TlInc, Goto, desc, list, lockVars, rest
  <2>1. JoinApart'
    BY DEF LifeTypeOK, CallOK, JoinApart, JoinOK
  <2>2. \A v \in Threads : DetachOK(v)'
    BY DEF LifeTypeOK, CallOK, CreateOK, LockOK, Holding, DetachOK, JoinOK, Released
  <2>3. \A v \in Threads : JoinOK(v)'
    BY DEF LifeTypeOK, CallOK, CreateOK, SleepOK, LockOK, Holding, DetachOK, JoinOK, JoinApart, FreedOK, Released
  <2>4. \A v \in Threads : FreedOK(v)'
    BY DEF LifeTypeOK, CallOK, CreateOK, CreateApart, DetachOK, JoinOK, FreedOK, Released
  <2> QED BY <2>1, <2>2, <2>3, <2>4
<1>4. ASSUME NEW t \in Threads, TlCheck(t) PROVE FreeInv'
  <2> USE <1>4 DEF TlCheck, Goto, desc, list, lockVars, rest
  <2>1. JoinApart'
    BY DEF LifeTypeOK, CallOK, JoinApart, JoinOK
  <2>2. \A v \in Threads : DetachOK(v)'
    BY DEF LifeTypeOK, CallOK, CreateOK, LockOK, Holding, DetachOK, JoinOK, Released
  <2>3. \A v \in Threads : JoinOK(v)'
    BY DEF LifeTypeOK, CallOK, CreateOK, SleepOK, LockOK, Holding, DetachOK, JoinOK, JoinApart, FreedOK, Released
  <2>4. \A v \in Threads : FreedOK(v)'
    BY DEF LifeTypeOK, CallOK, CreateOK, CreateApart, DetachOK, JoinOK, FreedOK, Released
  <2> QED BY <2>1, <2>2, <2>3, <2>4
<1>5. ASSUME NEW t \in Threads, TlDec(t) PROVE FreeInv'
  <2> USE <1>5 DEF TlDec, AfterWait, Goto, desc, list, lockVars, rest
  <2>1. JoinApart'
    BY DEF LifeTypeOK, CallOK, JoinApart, JoinOK
  <2>2. \A v \in Threads : DetachOK(v)'
    BY DEF LifeTypeOK, CallOK, CreateOK, LockOK, Holding, DetachOK, JoinOK, Released
  <2>3. \A v \in Threads : JoinOK(v)'
    BY DEF LifeTypeOK, CallOK, CreateOK, SleepOK, LockOK, Holding, DetachOK, JoinOK, JoinApart, FreedOK, Released
  <2>4. \A v \in Threads : FreedOK(v)'
    BY DEF LifeTypeOK, CallOK, CreateOK, CreateApart, DetachOK, JoinOK, FreedOK, Released
  <2> QED BY <2>1, <2>2, <2>3, <2>4
<1>6. ASSUME NEW t \in Threads, TlStore(t) PROVE FreeInv'
  <2> USE <1>6 DEF TlStore, Goto, desc, list, lockVars, rest
  <2>1. JoinApart'
    BY DEF LifeTypeOK, CallOK, JoinApart, JoinOK
  <2>2. \A v \in Threads : DetachOK(v)'
    BY DEF LifeTypeOK, CallOK, CreateOK, LockOK, Holding, DetachOK, JoinOK, Released
  <2>3. \A v \in Threads : JoinOK(v)'
    BY DEF LifeTypeOK, CallOK, CreateOK, SleepOK, LockOK, Holding, DetachOK, JoinOK, JoinApart, FreedOK, Released
  <2>4. \A v \in Threads : FreedOK(v)'
    BY DEF LifeTypeOK, CallOK, CreateOK, CreateApart, DetachOK, JoinOK, FreedOK, Released
  <2> QED BY <2>1, <2>2, <2>3, <2>4
<1>7. ASSUME NEW t \in Threads, TlWake(t) PROVE FreeInv'
  <2>0. op[t] # "create" =>
          /\ AfterUnlock(t) \in {"freeself", "hostexit", "restore", "freemap"}
          /\ AfterUnlock(t) = "freemap" => op[t] = "failed"
          /\ AfterUnlock(t) = "restore" => op[t] = "exit0"
          /\ AfterUnlock(t) = "freeself" => op[t] = "exit" /\ saved[t] = DT_DETACHED
          /\ AfterUnlock(t) = "hostexit" => op[t] = "exit" /\ saved[t] # DT_DETACHED
    BY <1>7 DEF TlWake, AfterUnlock, CallOK
  <2>w. /\ pc[t] = "tlwake"
        /\ UNCHANGED <<tl, tid, detach, joinSleep, freed, claimed, saved>>
        /\ op[t] = "create" =>
              /\ pc' = [pc EXCEPT ![t] = "run"] /\ op' = [op EXCEPT ![t] = "none"]
              /\ tgt' = [tgt EXCEPT ![t] = t] /\ val' = [val EXCEPT ![t] = NoTid]
        /\ op[t] # "create" => pc' = [pc EXCEPT ![t] = AfterUnlock(t)] /\ UNCHANGED <<op, tgt, val>>
    BY <1>7 DEF TlWake, Return, Goto, desc, rest
  <2> USE <2>w
  <2>1. JoinApart'
    BY DEF LifeTypeOK, JoinApart
  <2>2. \A v \in Threads : DetachOK(v)'
    <3>1. CASE op[t] = "create"
      BY <3>1 DEF LifeTypeOK, CallOK, DetachOK
    <3>2. CASE op[t] # "create"
      BY <2>0, <3>2 DEF LifeTypeOK, CallOK, DetachOK
    <3> QED BY <3>1, <3>2
  <2>3. \A v \in Threads : JoinOK(v)'
    <3>1. CASE op[t] = "create"
      BY <3>1, SMTT(30) DEF LifeTypeOK, CallOK, JoinOK, Released
    <3>2. CASE op[t] # "create"
      <4>1. \A v \in Threads : pc'[v] = IF v = t THEN AfterUnlock(t) ELSE pc[v]
        BY <3>2 DEF LifeTypeOK
      <4>2. op[t] # "join"
        BY DEF CallOK
      <4>3. \A j \in Threads : op[j] = "join" /\ tgt[j] = t => AfterUnlock(t) # "freeself"
        BY <2>0, <3>2 DEF JoinOK, DetachOK
      <4>4. \A u \in Threads : Released(u) /\ (u = t => AfterUnlock(t) # "freeself") => Released(u)'
        BY <2>0, <3>2, <4>1 DEF Released
      <4> QED BY <2>0, <3>2, <4>1, <4>2, <4>3, <4>4 DEF JoinOK, LifeTypeOK
    <3> QED BY <3>1, <3>2
  <2>4. \A v \in Threads : FreedOK(v)'
    <3>1. CASE op[t] = "create"
      BY <3>1 DEF LifeTypeOK, CallOK, FreedOK, Released
    <3>2. CASE op[t] # "create"
      BY <2>0, <3>2 DEF LifeTypeOK, CallOK, FreedOK, Released
    <3> QED BY <3>1, <3>2
  <2> QED BY <2>1, <2>2, <2>3, <2>4
<1>8. ASSUME NEW t \in Threads, Spawn(t) PROVE FreeInv'
  <2> USE <1>8 DEF Spawn, Goto, desc, list, lockVars, rest
  <2>1. JoinApart'
    BY DEF LifeTypeOK, CallOK, JoinApart, JoinOK
  <2>2. \A v \in Threads : DetachOK(v)'
    BY DEF LifeTypeOK, CallOK, CreateOK, LockOK, Holding, DetachOK, JoinOK, Released
  <2>3. \A v \in Threads : JoinOK(v)'
    BY DEF LifeTypeOK, CallOK, CreateOK, SleepOK, LockOK, Holding, DetachOK, JoinOK, JoinApart, FreedOK, Released
  <2>4. \A v \in Threads : FreedOK(v)'
    BY DEF LifeTypeOK, CallOK, CreateOK, CreateApart, DetachOK, JoinOK, FreedOK, Released
  <2> QED BY <2>1, <2>2, <2>3, <2>4
<1>9. ASSUME NEW t \in Threads, SpawnFails(t) PROVE FreeInv'
  <2> USE <1>9 DEF SpawnFails, Goto, desc, list, lockVars, rest
  <2>1. JoinApart'
    BY DEF LifeTypeOK, CallOK, JoinApart, JoinOK
  <2>2. \A v \in Threads : DetachOK(v)'
    BY DEF LifeTypeOK, CallOK, CreateOK, LockOK, Holding, DetachOK, JoinOK, Released
  <2>3. \A v \in Threads : JoinOK(v)'
    BY DEF LifeTypeOK, CallOK, CreateOK, SleepOK, LockOK, Holding, DetachOK, JoinOK, JoinApart, FreedOK, Released
  <2>4. \A v \in Threads : FreedOK(v)'
    BY DEF LifeTypeOK, CallOK, CreateOK, CreateApart, DetachOK, JoinOK, FreedOK, Released
  <2> QED BY <2>1, <2>2, <2>3, <2>4
<1>10. ASSUME NEW t \in Threads, FreeMap(t) PROVE FreeInv'
  <2> USE <1>10 DEF FreeMap, Return, Goto, desc, list, lockVars, rest
  <2>1. JoinApart'
    BY DEF LifeTypeOK, CallOK, JoinApart, JoinOK
  <2>2. \A v \in Threads : DetachOK(v)'
    BY DEF LifeTypeOK, CallOK, CreateOK, LockOK, Holding, DetachOK, JoinOK, Released
  <2>3. \A v \in Threads : JoinOK(v)'
    BY DEF LifeTypeOK, CallOK, CreateOK, SleepOK, LockOK, Holding, DetachOK, JoinOK, JoinApart, FreedOK, Released
  <2>4. \A v \in Threads : FreedOK(v)'
    BY DEF LifeTypeOK, CallOK, CreateOK, CreateApart, DetachOK, JoinOK, FreedOK, Released
  <2> QED BY <2>1, <2>2, <2>3, <2>4
<1>11. ASSUME NEW t \in Threads, Link(t) PROVE FreeInv'
  <2> USE <1>11 DEF Link, Goto, desc, list, lockVars, rest
  <2>1. JoinApart'
    BY DEF LifeTypeOK, CallOK, JoinApart, JoinOK
  <2>2. \A v \in Threads : DetachOK(v)'
    BY DEF LifeTypeOK, CallOK, CreateOK, LockOK, Holding, DetachOK, JoinOK, Released
  <2>3. \A v \in Threads : JoinOK(v)'
    BY DEF LifeTypeOK, CallOK, CreateOK, SleepOK, LockOK, Holding, DetachOK, JoinOK, JoinApart, FreedOK, Released
  <2>4. \A v \in Threads : FreedOK(v)'
    BY DEF LifeTypeOK, CallOK, CreateOK, CreateApart, DetachOK, JoinOK, FreedOK, Released
  <2> QED BY <2>1, <2>2, <2>3, <2>4
<1>12. ASSUME NEW t \in Threads, Start(t) PROVE FreeInv'
  <2> USE <1>12 DEF Start, Goto, desc, list, lockVars, rest
  <2>1. JoinApart'
    BY DEF LifeTypeOK, CallOK, JoinApart, JoinOK
  <2>2. \A v \in Threads : DetachOK(v)'
    BY DEF LifeTypeOK, CallOK, CreateOK, LockOK, Holding, DetachOK, JoinOK, Released
  <2>3. \A v \in Threads : JoinOK(v)'
    BY DEF LifeTypeOK, CallOK, CreateOK, SleepOK, LockOK, Holding, DetachOK, JoinOK, JoinApart, FreedOK, Released
  <2>4. \A v \in Threads : FreedOK(v)'
    BY DEF LifeTypeOK, CallOK, CreateOK, CreateApart, DetachOK, JoinOK, FreedOK, Released
  <2> QED BY <2>1, <2>2, <2>3, <2>4
<1>13. ASSUME NEW t \in Threads, LastThread(t) PROVE FreeInv'
  <2> USE <1>13 DEF LastThread, Goto, desc, list, lockVars, rest
  <2>1. JoinApart'
    BY DEF LifeTypeOK, CallOK, JoinApart, JoinOK
  <2>2. \A v \in Threads : DetachOK(v)'
    BY DEF LifeTypeOK, CallOK, CreateOK, LockOK, Holding, DetachOK, JoinOK, Released
  <2>3. \A v \in Threads : JoinOK(v)'
    BY DEF LifeTypeOK, CallOK, CreateOK, SleepOK, LockOK, Holding, DetachOK, JoinOK, JoinApart, FreedOK, Released
  <2>4. \A v \in Threads : FreedOK(v)'
    BY DEF LifeTypeOK, CallOK, CreateOK, CreateApart, DetachOK, JoinOK, FreedOK, Released
  <2> QED BY <2>1, <2>2, <2>3, <2>4
<1>14. ASSUME NEW t \in Threads, RestoreDetach(t) PROVE FreeInv'
  <2> USE <1>14 DEF RestoreDetach, Goto, desc, list, lockVars, rest
  <2>1. JoinApart'
    BY DEF LifeTypeOK, CallOK, JoinApart, JoinOK
  <2>2. \A v \in Threads : DetachOK(v)'
    BY DEF LifeTypeOK, CallOK, CreateOK, LockOK, Holding, DetachOK, JoinOK, Released
  <2>3. \A v \in Threads : JoinOK(v)'
    BY DEF LifeTypeOK, CallOK, CreateOK, SleepOK, LockOK, Holding, DetachOK, JoinOK, JoinApart, FreedOK, Released
  <2>4. \A v \in Threads : FreedOK(v)'
    BY DEF LifeTypeOK, CallOK, CreateOK, CreateApart, DetachOK, JoinOK, FreedOK, Released
  <2> QED BY <2>1, <2>2, <2>3, <2>4
<1>15. ASSUME NEW t \in Threads, Unlink(t) PROVE FreeInv'
  <2> USE <1>15 DEF Unlink, Goto, desc, list, lockVars, rest
  <2>1. JoinApart'
    BY DEF LifeTypeOK, CallOK, JoinApart, JoinOK
  <2>2. \A v \in Threads : DetachOK(v)'
    BY DEF LifeTypeOK, CallOK, CreateOK, LockOK, Holding, DetachOK, JoinOK, Released
  <2>3. \A v \in Threads : JoinOK(v)'
    BY DEF LifeTypeOK, CallOK, CreateOK, SleepOK, LockOK, Holding, DetachOK, JoinOK, JoinApart, FreedOK, Released
  <2>4. \A v \in Threads : FreedOK(v)'
    BY DEF LifeTypeOK, CallOK, CreateOK, CreateApart, DetachOK, JoinOK, FreedOK, Released
  <2> QED BY <2>1, <2>2, <2>3, <2>4
<1>16. ASSUME NEW t \in Threads, StoreExited(t) PROVE FreeInv'
  <2> USE <1>16 DEF StoreExited, Goto, desc, list, lockVars, rest
  <2>1. JoinApart'
    BY DEF LifeTypeOK, CallOK, JoinApart, JoinOK
  <2>2. \A v \in Threads : DetachOK(v)'
    BY DEF LifeTypeOK, CallOK, CreateOK, LockOK, Holding, DetachOK, JoinOK, Released
  <2>3. \A v \in Threads : JoinOK(v)'
    BY DEF LifeTypeOK, CallOK, CreateOK, SleepOK, LockOK, Holding, DetachOK, JoinOK, JoinApart, FreedOK, Released
  <2>4. \A v \in Threads : FreedOK(v)'
    BY DEF LifeTypeOK, CallOK, CreateOK, CreateApart, DetachOK, JoinOK, FreedOK, Released
  <2> QED BY <2>1, <2>2, <2>3, <2>4
<1>17. ASSUME NEW t \in Threads, WakeJoiner(t) PROVE FreeInv'
  <2> USE <1>17 DEF WakeJoiner, Wake, Goto, desc, list, lockVars, rest
  <2>1. JoinApart'
    BY DEF LifeTypeOK, CallOK, JoinApart, JoinOK
  <2>2. \A v \in Threads : DetachOK(v)'
    BY DEF LifeTypeOK, CallOK, CreateOK, LockOK, Holding, DetachOK, JoinOK, Released
  <2>3. \A v \in Threads : JoinOK(v)'
    BY DEF LifeTypeOK, CallOK, CreateOK, SleepOK, LockOK, Holding, DetachOK, JoinOK, JoinApart, FreedOK, Released
  <2>4. \A v \in Threads : FreedOK(v)'
    BY DEF LifeTypeOK, CallOK, CreateOK, CreateApart, DetachOK, JoinOK, FreedOK, Released
  <2> QED BY <2>1, <2>2, <2>3, <2>4
<1>18. ASSUME NEW t \in Threads, FreeSelf(t) PROVE FreeInv'
  <2> USE <1>18 DEF FreeSelf, Goto, desc, list, lockVars, rest
  <2>1. JoinApart'
    BY DEF LifeTypeOK, CallOK, JoinApart, JoinOK
  <2>2. \A v \in Threads : DetachOK(v)'
    BY DEF LifeTypeOK, CallOK, CreateOK, LockOK, Holding, DetachOK, JoinOK, Released
  <2>3. \A v \in Threads : JoinOK(v)'
    BY DEF LifeTypeOK, CallOK, CreateOK, SleepOK, LockOK, Holding, DetachOK, JoinOK, JoinApart, FreedOK, Released
  <2>4. \A v \in Threads : FreedOK(v)'
    BY DEF LifeTypeOK, CallOK, CreateOK, CreateApart, DetachOK, JoinOK, FreedOK, Released
  <2> QED BY <2>1, <2>2, <2>3, <2>4
<1>19. ASSUME NEW t \in Threads, HostExit(t) PROVE FreeInv'
  <2> USE <1>19 DEF HostExit, Goto, desc, list, lockVars, rest
  <2>1. JoinApart'
    BY DEF LifeTypeOK, CallOK, JoinApart, JoinOK
  <2>2. \A v \in Threads : DetachOK(v)'
    BY DEF LifeTypeOK, CallOK, CreateOK, LockOK, Holding, DetachOK, JoinOK, Released
  <2>3. \A v \in Threads : JoinOK(v)'
    BY DEF LifeTypeOK, CallOK, CreateOK, SleepOK, LockOK, Holding, DetachOK, JoinOK, JoinApart, FreedOK, Released
  <2>4. \A v \in Threads : FreedOK(v)'
    BY DEF LifeTypeOK, CallOK, CreateOK, CreateApart, DetachOK, JoinOK, FreedOK, Released
  <2> QED BY <2>1, <2>2, <2>3, <2>4
<1>20. ASSUME NEW t \in Threads, JoinLoad(t) PROVE FreeInv'
  <2> USE <1>20 DEF JoinLoad, Goto, desc, list, lockVars, rest
  <2>1. JoinApart'
    BY DEF LifeTypeOK, CallOK, JoinApart, JoinOK
  <2>2. \A v \in Threads : DetachOK(v)'
    BY DEF LifeTypeOK, CallOK, CreateOK, LockOK, Holding, DetachOK, JoinOK, Released
  <2>3. \A v \in Threads : JoinOK(v)'
    BY DEF LifeTypeOK, CallOK, CreateOK, SleepOK, LockOK, Holding, DetachOK, JoinOK, JoinApart, FreedOK, Released
  <2>4. \A v \in Threads : FreedOK(v)'
    BY DEF LifeTypeOK, CallOK, CreateOK, CreateApart, DetachOK, JoinOK, FreedOK, Released
  <2> QED BY <2>1, <2>2, <2>3, <2>4
<1>21. ASSUME NEW t \in Threads, JoinWait(t) PROVE FreeInv'
  <2> USE <1>21 DEF JoinWait, Goto, desc, list, lockVars, rest
  <2>1. JoinApart'
    BY DEF LifeTypeOK, CallOK, JoinApart, JoinOK
  <2>2. \A v \in Threads : DetachOK(v)'
    BY DEF LifeTypeOK, CallOK, CreateOK, LockOK, Holding, DetachOK, JoinOK, Released
  <2>3. \A v \in Threads : JoinOK(v)'
    BY DEF LifeTypeOK, CallOK, CreateOK, SleepOK, LockOK, Holding, DetachOK, JoinOK, JoinApart, FreedOK, Released
  <2>4. \A v \in Threads : FreedOK(v)'
    BY DEF LifeTypeOK, CallOK, CreateOK, CreateApart, DetachOK, JoinOK, FreedOK, Released
  <2> QED BY <2>1, <2>2, <2>3, <2>4
<1>22. ASSUME NEW t \in Threads, JoinWoken(t) PROVE FreeInv'
  <2> USE <1>22 DEF JoinWoken, Goto, desc, list, lockVars, rest
  <2>1. JoinApart'
    BY DEF LifeTypeOK, CallOK, JoinApart, JoinOK
  <2>2. \A v \in Threads : DetachOK(v)'
    BY DEF LifeTypeOK, CallOK, CreateOK, LockOK, Holding, DetachOK, JoinOK, Released
  <2>3. \A v \in Threads : JoinOK(v)'
    BY DEF LifeTypeOK, CallOK, CreateOK, SleepOK, LockOK, Holding, DetachOK, JoinOK, JoinApart, FreedOK, Released
  <2>4. \A v \in Threads : FreedOK(v)'
    BY DEF LifeTypeOK, CallOK, CreateOK, CreateApart, DetachOK, JoinOK, FreedOK, Released
  <2> QED BY <2>1, <2>2, <2>3, <2>4
<1>23. ASSUME NEW t \in Threads, TlSync(t) PROVE FreeInv'
  <2> USE <1>23 DEF TlSync, Goto, desc, list, lockVars, rest
  <2>1. JoinApart'
    BY DEF LifeTypeOK, CallOK, JoinApart, JoinOK
  <2>2. \A v \in Threads : DetachOK(v)'
    BY DEF LifeTypeOK, CallOK, CreateOK, LockOK, Holding, DetachOK, JoinOK, Released
  <2>3. \A v \in Threads : JoinOK(v)'
    BY DEF LifeTypeOK, CallOK, CreateOK, SleepOK, LockOK, Holding, DetachOK, JoinOK, JoinApart, FreedOK, Released
  <2>4. \A v \in Threads : FreedOK(v)'
    BY DEF LifeTypeOK, CallOK, CreateOK, CreateApart, DetachOK, JoinOK, FreedOK, Released
  <2> QED BY <2>1, <2>2, <2>3, <2>4
<1>24. ASSUME NEW t \in Threads, TlSyncPass(t) PROVE FreeInv'
  <2> USE <1>24 DEF TlSyncPass, Wake, Goto, desc, list, lockVars, rest
  <2>1. JoinApart'
    BY DEF LifeTypeOK, CallOK, JoinApart, JoinOK
  <2>2. \A v \in Threads : DetachOK(v)'
    BY DEF LifeTypeOK, CallOK, CreateOK, LockOK, Holding, DetachOK, JoinOK, Released
  <2>3. \A v \in Threads : JoinOK(v)'
    BY DEF LifeTypeOK, CallOK, CreateOK, SleepOK, LockOK, Holding, DetachOK, JoinOK, JoinApart, FreedOK, Released
  <2>4. \A v \in Threads : FreedOK(v)'
    BY DEF LifeTypeOK, CallOK, CreateOK, CreateApart, DetachOK, JoinOK, FreedOK, Released
  <2> QED BY <2>1, <2>2, <2>3, <2>4
<1>25. ASSUME NEW t \in Threads, JoinFree(t) PROVE FreeInv'
  <2> USE <1>25 DEF JoinFree, Return, Goto, desc, list, lockVars, rest
  <2>1. JoinApart'
    BY DEF LifeTypeOK, CallOK, JoinApart, JoinOK
  <2>2. \A v \in Threads : DetachOK(v)'
    BY DEF LifeTypeOK, CallOK, CreateOK, LockOK, Holding, DetachOK, JoinOK, Released
  <2>3. \A v \in Threads : JoinOK(v)'
    BY DEF LifeTypeOK, CallOK, CreateOK, SleepOK, LockOK, Holding, DetachOK, JoinOK, JoinApart, FreedOK, Released
  <2>4. \A v \in Threads : FreedOK(v)'
    BY DEF LifeTypeOK, CallOK, CreateOK, CreateApart, DetachOK, JoinOK, FreedOK, Released
  <2> QED BY <2>1, <2>2, <2>3, <2>4
<1>26. ASSUME NEW t \in Threads, HostSignal(t) PROVE FreeInv'
  <2> USE <1>26 DEF HostSignal, Return, Goto, desc, list, lockVars, rest
  <2>1. JoinApart'
    BY DEF LifeTypeOK, CallOK, JoinApart, JoinOK
  <2>2. \A v \in Threads : DetachOK(v)'
    BY DEF LifeTypeOK, CallOK, CreateOK, LockOK, Holding, DetachOK, JoinOK, Released
  <2>3. \A v \in Threads : JoinOK(v)'
    BY DEF LifeTypeOK, CallOK, CreateOK, SleepOK, LockOK, Holding, DetachOK, JoinOK, JoinApart, FreedOK, Released
  <2>4. \A v \in Threads : FreedOK(v)'
    BY DEF LifeTypeOK, CallOK, CreateOK, CreateApart, DetachOK, JoinOK, FreedOK, Released
  <2> QED BY <2>1, <2>2, <2>3, <2>4
<1>27. ASSUME NEW t \in Threads, TlSpurious(t) PROVE FreeInv'
  <2> USE <1>27 DEF TlSpurious, Goto, desc, list, lockVars, rest
  <2>1. JoinApart'
    BY DEF LifeTypeOK, CallOK, JoinApart, JoinOK
  <2>2. \A v \in Threads : DetachOK(v)'
    BY DEF LifeTypeOK, CallOK, CreateOK, LockOK, Holding, DetachOK, JoinOK, Released
  <2>3. \A v \in Threads : JoinOK(v)'
    BY DEF LifeTypeOK, CallOK, CreateOK, SleepOK, LockOK, Holding, DetachOK, JoinOK, JoinApart, FreedOK, Released
  <2>4. \A v \in Threads : FreedOK(v)'
    BY DEF LifeTypeOK, CallOK, CreateOK, CreateApart, DetachOK, JoinOK, FreedOK, Released
  <2> QED BY <2>1, <2>2, <2>3, <2>4
<1>28. ASSUME NEW t \in Threads, CallExit(t) PROVE FreeInv'
  <2> USE <1>28 DEF CallExit, Goto, desc, list, lockVars, rest
  <2>1. JoinApart'
    BY DEF LifeTypeOK, CallOK, JoinApart, JoinOK
  <2>2. \A v \in Threads : DetachOK(v)'
    BY DEF LifeTypeOK, CallOK, CreateOK, LockOK, Holding, DetachOK, JoinOK, Released
  <2>3. \A v \in Threads : JoinOK(v)'
    BY DEF LifeTypeOK, CallOK, CreateOK, SleepOK, LockOK, Holding, DetachOK, JoinOK, JoinApart, FreedOK, Released
  <2>4. \A v \in Threads : FreedOK(v)'
    BY DEF LifeTypeOK, CallOK, CreateOK, CreateApart, DetachOK, JoinOK, FreedOK, Released
  <2> QED BY <2>1, <2>2, <2>3, <2>4
<1>29. ASSUME NEW t \in Threads, JoinTimeout(t) PROVE FreeInv'
  <2> USE <1>29 DEF JoinTimeout, Return, Goto, desc, list, lockVars, rest
  <2>1. JoinApart'
    BY DEF LifeTypeOK, CallOK, JoinApart, JoinOK
  <2>2. \A v \in Threads : DetachOK(v)'
    <3>1. op[t] = "join" /\ detach[tgt[t]] # DT_DETACHED
      BY DEF SleepOK, CallOK, JoinOK, LifeTypeOK
    <3> QED BY <3>1 DEF LifeTypeOK, CallOK, DetachOK, SleepOK
  <2>3. \A v \in Threads : JoinOK(v)'
    BY DEF LifeTypeOK, CallOK, CreateOK, SleepOK, LockOK, Holding, DetachOK, JoinOK, JoinApart, FreedOK, Released
  <2>4. \A v \in Threads : FreedOK(v)'
    BY DEF LifeTypeOK, SleepOK, CallOK, FreedOK, Released
  <2> QED BY <2>1, <2>2, <2>3, <2>4
<1>30. ASSUME NEW t \in Threads, NEW u \in Threads, NEW d \in {DT_JOINABLE, DT_DETACHED}, CallCreate(t, u, d) PROVE FreeInv'
  <2> USE <1>30 DEF CallCreate, Goto, desc, list, lockVars, rest
  <2>1. JoinApart'
    BY DEF LifeTypeOK, CallOK, JoinApart, JoinOK
  <2>2. \A v \in Threads : DetachOK(v)'
    BY DEF LifeTypeOK, CallOK, CreateOK, LockOK, Holding, DetachOK, JoinOK, Released
  <2>3. \A v \in Threads : JoinOK(v)'
    BY DEF LifeTypeOK, CallOK, CreateOK, SleepOK, LockOK, Holding, DetachOK, JoinOK, JoinApart, FreedOK, Released
  <2>4. \A v \in Threads : FreedOK(v)'
    BY DEF LifeTypeOK, CallOK, CreateOK, CreateApart, DetachOK, JoinOK, FreedOK, Released
  <2> QED BY <2>1, <2>2, <2>3, <2>4
<1>31. ASSUME NEW t \in Threads, NEW u \in Threads, CallJoin(t, u) PROVE FreeInv'
  <2> USE <1>31 DEF CallJoin, Started, Goto, desc, list, lockVars, rest
  <2>1. JoinApart'
    BY DEF LifeTypeOK, CallOK, JoinApart, JoinOK
  <2>2. \A v \in Threads : DetachOK(v)'
    BY DEF LifeTypeOK, CallOK, CreateOK, LockOK, Holding, DetachOK, JoinOK, Released
  <2>3. \A v \in Threads : JoinOK(v)'
    BY DEF LifeTypeOK, CallOK, CreateOK, SleepOK, LockOK, Holding, DetachOK, JoinOK, JoinApart, FreedOK, Released
  <2>4. \A v \in Threads : FreedOK(v)'
    BY DEF LifeTypeOK, CallOK, CreateOK, CreateApart, DetachOK, JoinOK, FreedOK, Released
  <2> QED BY <2>1, <2>2, <2>3, <2>4
<1>32. ASSUME NEW t \in Threads, NEW u \in Threads, CallDetach(t, u) PROVE FreeInv'
  <2> USE <1>32 DEF CallDetach, Started, Goto, desc, list, lockVars, rest
  <2>1. JoinApart'
    BY DEF LifeTypeOK, CallOK, JoinApart, JoinOK
  <2>2. \A v \in Threads : DetachOK(v)'
    BY DEF LifeTypeOK, CallOK, CreateOK, LockOK, Holding, DetachOK, JoinOK, Released
  <2>3. \A v \in Threads : JoinOK(v)'
    BY DEF LifeTypeOK, CallOK, CreateOK, SleepOK, LockOK, Holding, DetachOK, JoinOK, JoinApart, FreedOK, Released
  <2>4. \A v \in Threads : FreedOK(v)'
    BY DEF LifeTypeOK, CallOK, CreateOK, CreateApart, DetachOK, JoinOK, FreedOK, Released
  <2> QED BY <2>1, <2>2, <2>3, <2>4
<1>33. ASSUME NEW t \in Threads, NEW u \in Threads, CallKill(t, u) PROVE FreeInv'
  <2> USE <1>33 DEF CallKill, Started, Goto, desc, list, lockVars, rest
  <2>1. JoinApart'
    BY DEF LifeTypeOK, CallOK, JoinApart, JoinOK
  <2>2. \A v \in Threads : DetachOK(v)'
    BY DEF LifeTypeOK, CallOK, CreateOK, LockOK, Holding, DetachOK, JoinOK, Released
  <2>3. \A v \in Threads : JoinOK(v)'
    BY DEF LifeTypeOK, CallOK, CreateOK, SleepOK, LockOK, Holding, DetachOK, JoinOK, JoinApart, FreedOK, Released
  <2>4. \A v \in Threads : FreedOK(v)'
    BY DEF LifeTypeOK, CallOK, CreateOK, CreateApart, DetachOK, JoinOK, FreedOK, Released
  <2> QED BY <2>1, <2>2, <2>3, <2>4
<1>34. CASE UNCHANGED vars
  BY <1>34 DEF vars, JoinApart, DetachOK, JoinOK, FreedOK, Released
<1> QED
  BY <1>1, <1>2, <1>3, <1>4, <1>5, <1>6, <1>7, <1>8, <1>9, <1>10, <1>11, <1>12, <1>13,
     <1>14, <1>15, <1>16, <1>17, <1>18, <1>19, <1>20, <1>21, <1>22, <1>23, <1>24, <1>25,
     <1>26, <1>27, <1>28, <1>29, <1>30, <1>31, <1>32, <1>33, <1>34
  DEF Next, Step, Over


-----------------------------------------------------------------------------
LEMMA LifeInit == Init => CoreInv /\ FreeInv /\ RingInv
<1> SUFFICES ASSUME Init PROVE CoreInv /\ FreeInv /\ RingInv
  OBVIOUS
<1> USE LifeAssumption DEF LifeAssumption, Init, DT_EXITED, DT_EXITING, DT_JOINABLE, DT_DETACHED
<1>1. CoreInv
  <2>1. LifeTypeOK
    BY DEF LifeTypeOK, PcLabels, Early
  <2>2. LockOK /\ SleepOK /\ CreateApart
    BY DEF LockOK, Holding, SleepOK, CreateApart
  <2>3. \A t \in Threads : CallOK(t) /\ TidOK(t) /\ CreateOK(t)
    BY DEF CallOK, TidOK, Committed, CreateOK
  <2> QED BY <2>1, <2>2, <2>3 DEF CoreInv
<1>2. FreeInv
  BY DEF FreeInv, JoinApart, DetachOK, JoinOK, FreedOK
<1>3. RingInv
  <2>1. Linked = {Main}
    BY DEF Linked, Active, Unlinked
  <2>2. RingOK
    BY <2>1 DEF RingOK, OneRing
  <2>3. CountOK
    <3>1. Cardinality(Linked) = 1 /\ ~ \E p \in Threads : pc[p] = "link"
      BY <2>1, FS_Singleton
    <3>2. (needLocks = 1) = (tmin1 > 0)
      OBVIOUS
    <3> QED BY <3>1, <3>2 DEF CountOK
  <2>4. AloneOK
    BY DEF AloneOK
  <2> QED BY <2>2, <2>3, <2>4 DEF RingInv
<1> QED BY <1>1, <1>2, <1>3

\* What the ring says of a thread outside it, and of the neighbours of one in it.
LEMMA Neighbours ==
  ASSUME CoreInv, RingOK
  PROVE  /\ IsFiniteSet(Linked) /\ Linked \subseteq Threads /\ Cardinality(Linked) \in Nat
         /\ \A t \in Threads \ Linked : next[t] = t /\ prev[t] = t
         /\ \A t \in Linked : next[t] \in Linked /\ prev[t] \in Linked
         /\ \A x, y \in Threads : next[x] = next[y] => x = y
<1> USE LifeAssumption DEF LifeAssumption, CoreInv, LifeTypeOK, RingOK
<1>1. Linked \subseteq Threads
  BY DEF Linked, Active
<1>2. IsFiniteSet(Linked) /\ Cardinality(Linked) \in Nat
  BY <1>1, FS_Subset, FS_CardinalityType
<1>3. \A t \in Threads \ Linked : next[t] = t /\ prev[t] = t
  OBVIOUS
<1>4. \A x, y \in Threads : next[x] = next[y] => x = y
  OBVIOUS
<1>5. \A t \in Linked : next[t] \in Linked /\ prev[t] \in Linked
  BY <1>1, <1>3
<1> QED BY <1>1, <1>2, <1>3, <1>4, <1>5

\* Whoever holds the list lock before it commits to termination is linked,
\* and everybody else is where it has no use for the list.
LEMMA HolderLinked ==
  ASSUME CoreInv, NEW t \in Threads, pc[t] \in {"spawn", "link", "last"}
  PROVE  /\ t \in Linked
         /\ pc[t] # "link" => Unlinked = {} /\ Linked = Active
         /\ pc[t] = "link" => Unlinked = {tgt[t]}
         /\ \A v \in Threads \ {t} : pc[v] \notin Holding
<1> USE DEF CoreInv
<1>1. tid[t] = t
  BY DEF TidOK, Committed, CallOK
<1>2. \A v \in Threads \ {t} : pc[v] \notin Holding
  BY DEF LockOK, Holding
<1>3. \A v \in Threads \ {t} : pc[v] # "link"
  BY <1>2 DEF Holding
<1>4. pc[t] # "link" => Unlinked = {}
  BY <1>3 DEF Unlinked
<1>5. pc[t] = "link" => Unlinked = {tgt[t]} /\ tgt[t] # t
  BY <1>3 DEF Unlinked, LifeTypeOK, CreateOK, CallOK
<1> QED BY <1>1, <1>2, <1>4, <1>5 DEF Linked, Active

\* A step that touches neither the links nor who is linked.
LEMMA RingKept ==
  ASSUME RingOK, UNCHANGED <<next, prev>>, Linked' = Linked
  PROVE  RingOK'
BY DEF RingOK, OneRing

LEMMA RingCountKept ==
  ASSUME RingOK, CountOK, UNCHANGED <<next, prev, tmin1, needLocks>>, Active' = Active,
         \A p \in Threads : pc[p] = "link" \/ pc'[p] = "link" => pc'[p] = pc[p] /\ tgt'[p] = tgt[p]
  PROVE  RingOK' /\ CountOK'
<1>1. Unlinked' = Unlinked /\ (\E p \in Threads : pc'[p] = "link") = (\E p \in Threads : pc[p] = "link")
  BY DEF Unlinked
<1>2. Linked' = Linked
  BY <1>1 DEF Linked
<1>3. RingOK'
  BY <1>2, RingKept
<1>4. CountOK'
  BY <1>1, <1>2 DEF CountOK
<1> QED BY <1>3, <1>4

LEMMA SpawnRing ==
  ASSUME CoreInv, CoreInv', RingInv, NEW t \in Threads, Spawn(t)
  PROVE  RingOK' /\ CountOK'
<1> USE LifeAssumption DEF LifeAssumption, CoreInv, RingInv
<1>1. /\ pc[t] = "spawn" /\ tmin1' = tmin1 + 1 /\ needLocks' = IF tmin1 = 0 THEN 1 ELSE needLocks
      /\ pc' = [pc EXCEPT ![t] = "link", ![tgt[t]] = "start"]
      /\ UNCHANGED <<next, prev, tid, tgt>>
  BY DEF Spawn, desc
<1>2. /\ pc[tgt[t]] = "none" /\ tgt[t] # t /\ tgt[t] \in Threads
      /\ tid[tgt[t]] = NoTid /\ tgt[t] \notin Active
  BY <1>1 DEF LifeTypeOK, CallOK, CreateOK, TidOK, Active
<1>3. t \in Linked /\ Unlinked = {} /\ Linked = Active /\ \A v \in Threads \ {t} : pc[v] \notin Holding
  BY <1>1, HolderLinked
<1>4. pc'[t] = "link"
  BY <1>1, <1>2 DEF LifeTypeOK
<1>5. Unlinked' = {tgt[t]} /\ Active' = Active
  BY <1>1, <1>4, HolderLinked DEF Unlinked, Active, CoreInv, LifeTypeOK, LockOK, Holding
<1>6. Linked' = Linked
  BY <1>2, <1>3, <1>5 DEF Linked
<1>7. RingOK'
  BY <1>1, <1>6, RingKept
<1>8. IsFiniteSet(Linked) /\ Cardinality(Linked) \in Nat
  BY Neighbours
<1>9. Cardinality(Linked) > 0
  BY <1>3, <1>8, FS_EmptySet
<1>10. ~ \E p \in Threads : pc[p] = "link"
  BY <1>1, <1>3 DEF Holding
<1>11. tmin1 = Cardinality(Linked) - 1
  BY <1>10 DEF CountOK
<1>12. CountOK'
  <2>1. tmin1' = Cardinality(Linked')
    BY <1>1, <1>6, <1>8, <1>11
  <2>2. (needLocks' = 1) = (tmin1' > 0)
    BY <1>1, <1>8, <1>9, <1>11 DEF CountOK
  <2> QED BY <2>1, <2>2, <1>4, <1>6, <1>8 DEF CountOK
<1> QED BY <1>7, <1>12

\* The new thread becomes the neighbour of its creator in the same ring.
LEMMA LinkRing ==
  ASSUME CoreInv, CoreInv', RingInv, NEW t \in Threads, Link(t)
  PROVE  RingOK' /\ CountOK'
<1> USE LifeAssumption DEF LifeAssumption, CoreInv, RingInv
<1> DEFINE u == tgt[t]
<1>1. /\ pc[t] = "link" /\ tid' = [tid EXCEPT ![u] = u]
      /\ next' = [next EXCEPT ![u] = next[t], ![t] = u]
      /\ prev' = [prev EXCEPT ![u] = t, ![next[t]] = u]
      /\ pc' = [pc EXCEPT ![t] = "unlock"]
      /\ UNCHANGED <<tmin1, needLocks, tgt>>
  BY DEF Link, Goto
<1>2. u \in Threads /\ u # t
  BY <1>1 DEF LifeTypeOK, CallOK, CreateOK
<1>3. t \in Linked /\ Unlinked = {u} /\ \A v \in Threads \ {t} : pc[v] \notin Holding
  BY <1>1, HolderLinked
<1>4. /\ IsFiniteSet(Linked) /\ Linked \subseteq Threads /\ Cardinality(Linked) \in Nat
      /\ u \notin Linked /\ next[u] = u /\ prev[u] = u
      /\ \A x \in Linked : next[x] \in Linked /\ prev[x] \in Linked
      /\ \A x, y \in Threads : next[x] = next[y] => x = y
  BY <1>2, <1>3, Neighbours DEF Linked
<1>5. \A x \in Threads : /\ next'[x] = IF x = t THEN u ELSE IF x = u THEN next[t] ELSE next[x]
                         /\ prev'[x] = IF x = next[t] THEN u ELSE IF x = u THEN t ELSE prev[x]
  BY <1>1, <1>2, <1>3, <1>4 DEF LifeTypeOK
<1>6. Unlinked' = {} /\ ~ \E p \in Threads : pc'[p] = "link"
  BY <1>1, <1>3 DEF Unlinked, Holding, LifeTypeOK
<1>7. Active' = Active \cup {u}
  BY <1>1, <1>2 DEF Active, LifeTypeOK
<1>8. Linked' = Linked \cup {u}
  BY <1>3, <1>6, <1>7 DEF Linked
<1>9. \A x \in Threads : next'[prev'[x]] = x /\ prev'[next'[x]] = x
  <2>1. next[t] \in Linked /\ next[t] # u /\ prev[next[t]] = t
    BY <1>3, <1>4 DEF RingOK
  <2>2. \A x \in Threads : next[x] \in Threads /\ prev[x] \in Threads
    BY DEF LifeTypeOK
  <2>3. \A x \in Threads : next'[prev'[x]] = x
    BY <1>2, <1>3, <1>4, <1>5, <2>1, <2>2 DEF RingOK
  <2>4. \A x \in Threads : prev'[next'[x]] = x
    BY <1>2, <1>3, <1>4, <1>5, <2>1, <2>2 DEF RingOK
  <2> QED BY <2>3, <2>4
<1>10. \A x \in Threads \ Linked' : next'[x] = x
  BY <1>2, <1>3, <1>4, <1>5, <1>8 DEF RingOK
<1>11. OneRing'
  <2> SUFFICES ASSUME NEW S \in SUBSET Linked', S # {}, \A x \in S : next'[x] \in S
               PROVE  S = Linked'
    BY DEF OneRing
  <2> DEFINE T == S \ {u}
  <2>1. T # {}
    BY <1>2, <1>3, <1>4, <1>5
  <2>2. \A x \in T : next[x] \in T
    BY <1>2, <1>3, <1>4, <1>5, <1>8
  <2>3. T = Linked
    BY <1>8, <2>1, <2>2 DEF RingOK, OneRing
  <2>4. u \in S
    BY <1>3, <1>4, <1>5, <2>3
  <2> QED BY <1>8, <2>3, <2>4
<1>12. CountOK'
  <2>1. tmin1 = Cardinality(Linked)
    BY <1>1, <1>4 DEF CountOK
  <2>2. Cardinality(Linked') = Cardinality(Linked) + 1
    BY <1>4, <1>8, FS_AddElement
  <2> QED BY <1>1, <1>4, <1>6, <2>1, <2>2 DEF CountOK
<1> QED BY <1>9, <1>10, <1>11, <1>12 DEF RingOK

\* The thread that leaves closes the ring behind it.
LEMMA UnlinkRing ==
  ASSUME CoreInv, CoreInv', RingInv, NEW t \in Threads, Unlink(t)
  PROVE  RingOK' /\ CountOK'
<1> USE LifeAssumption DEF LifeAssumption, CoreInv, RingInv
<1> DEFINE a == prev[t]
           b == next[t]
<1>1. /\ pc[t] = "last" /\ b # t /\ tid' = [tid EXCEPT ![t] = NoTid]
      /\ next' = [next EXCEPT ![a] = b, ![t] = t]
      /\ prev' = [prev EXCEPT ![b] = a, ![t] = t]
      /\ tmin1' = tmin1 - 1 /\ needLocks' = IF tmin1 = 1 THEN -1 ELSE needLocks
      /\ UNCHANGED tgt
  BY DEF Unlink
<1>2. pc' = [pc EXCEPT ![t] = IF saved[t] = DT_DETACHED THEN "unlock" ELSE "exited"]
  BY DEF Unlink, Goto
<1>3. t \in Linked /\ Unlinked = {} /\ Linked = Active /\ \A v \in Threads \ {t} : pc[v] \notin Holding
  BY <1>1, HolderLinked
<1>4. /\ IsFiniteSet(Linked) /\ Linked \subseteq Threads /\ Cardinality(Linked) \in Nat
      /\ a \in Linked /\ b \in Linked /\ next[a] = t /\ prev[b] = t /\ a # t
      /\ \A x, y \in Threads : next[x] = next[y] => x = y
  BY <1>1, <1>3, Neighbours DEF RingOK
<1>5. \A x \in Threads : /\ next'[x] = IF x = t THEN t ELSE IF x = a THEN b ELSE next[x]
                         /\ prev'[x] = IF x = t THEN t ELSE IF x = b THEN a ELSE prev[x]
  BY <1>1, <1>4 DEF LifeTypeOK
<1>6. Unlinked' = {} /\ ~ \E p \in Threads : pc'[p] = "link"
  BY <1>2, <1>3 DEF Unlinked, Holding, LifeTypeOK
<1>7. Active' = Active \ {t}
  BY <1>1 DEF Active, LifeTypeOK
<1>8. Linked' = Linked \ {t}
  BY <1>3, <1>6, <1>7 DEF Linked
<1>9. \A x \in Threads : next'[prev'[x]] = x /\ prev'[next'[x]] = x
  BY <1>1, <1>4, <1>5 DEF RingOK, LifeTypeOK
<1>10. \A x \in Threads \ Linked' : next'[x] = x
  BY <1>3, <1>4, <1>5, <1>8 DEF RingOK
<1>11. OneRing'
  <2> SUFFICES ASSUME NEW S \in SUBSET Linked', S # {}, \A x \in S : next'[x] \in S
               PROVE  S = Linked'
    BY DEF OneRing
  <2>1. CASE a \in S
    <3> DEFINE T == S \cup {t}
    <3>1. \A x \in T : next[x] \in T
      BY <1>4, <1>5, <1>8, <2>1
    <3>2. T \in SUBSET Linked /\ T # {}
      BY <1>3, <1>8
    <3>3. T = Linked
      BY <3>1, <3>2 DEF RingOK, OneRing
    <3> QED BY <1>8, <3>3
  <2>2. CASE a \notin S
    <3>1. \A x \in S : next[x] \in S
      BY <1>4, <1>5, <1>8, <2>2
    <3>2. S = Linked
      BY <1>8, <3>1 DEF RingOK, OneRing
    <3> QED BY <1>3, <1>8, <3>2
  <2> QED BY <2>1, <2>2
<1>12. CountOK'
  <2>1. tmin1 = Cardinality(Linked) - 1 /\ (needLocks = 1) = (tmin1 > 0)
    BY <1>1, <1>3 DEF CountOK, Holding
  <2>2. Cardinality(Linked') = Cardinality(Linked) - 1
    BY <1>3, <1>4, <1>8, FS_RemoveElement
  <2>3. IsFiniteSet(Linked') /\ Cardinality(Linked') > 0
    <3>1. IsFiniteSet(Linked') /\ b \in Linked'
      BY <1>1, <1>4, <1>8, FS_RemoveElement
    <3> HIDE DEF b
    <3>2. Cardinality(Linked') \in Nat /\ Cardinality(Linked') # 0
      BY <3>1, FS_EmptySet, FS_CardinalityType
    <3> QED BY <3>1, <3>2
  <2>4. tmin1 > 0 /\ needLocks = 1
    BY <1>4, <2>1, <2>2, <2>3
  <2>5. tmin1' = Cardinality(Linked') - 1
    BY <1>1, <1>4, <2>1, <2>2
  <2>6. (needLocks' = 1) = (tmin1' > 0)
    BY <1>1, <1>4, <2>1, <2>4
  <2> QED BY <1>6, <2>5, <2>6 DEF CountOK
<1> QED BY <1>9, <1>10, <1>11, <1>12 DEF RingOK

LEMMA RingNext == CoreInv /\ CoreInv' /\ RingInv /\ [Next]_vars => RingInv'
<1> SUFFICES ASSUME CoreInv, CoreInv', RingInv, [Next]_vars PROVE RingInv'
  OBVIOUS
<1> USE LifeAssumption DEF LifeAssumption, CoreInv, RingInv
<1>1. ASSUME NEW t \in Threads, TlCas(t) PROVE RingInv'
  <2>1. RingOK' /\ CountOK'
    BY <1>1, RingCountKept DEF Active, LifeTypeOK, CallOK, SleepOK, TlCas, AfterLock, Goto, desc, list, rest
  <2>2. AloneOK'
    <3>1. pc[t] = "tlcas" /\ UNCHANGED <<op, tid>> /\ \A v \in Threads \ {t} : pc'[v] = pc[v]
      BY <1>1 DEF TlCas, Goto, desc, LifeTypeOK
    <3> QED BY <3>1 DEF AloneOK, CallOK
  <2> QED BY <2>1, <2>2
<1>2. ASSUME NEW t \in Threads, TlSpin(t) PROVE RingInv'
  <2>1. RingOK' /\ CountOK'
    BY <1>2, RingCountKept DEF Active, LifeTypeOK, CallOK, SleepOK, TlSpin, AfterWait, Goto, desc, list, rest
  <2>2. AloneOK'
    BY <1>2 DEF AloneOK, LifeTypeOK, CallOK, SleepOK, TidOK, Committed, TlSpin, AfterWait, Goto, desc, rest
  <2> QED BY <2>1, <2>2
<1>3. ASSUME NEW t \in Threads, TlInc(t) PROVE RingInv'
  <2>1. RingOK' /\ CountOK'
    BY <1>3, RingCountKept DEF Active, LifeTypeOK, CallOK, SleepOK, TlInc, Goto, desc, list, rest
  <2>2. AloneOK'
    BY <1>3 DEF AloneOK, LifeTypeOK, CallOK, SleepOK, TidOK, Committed, TlInc, Goto, desc, rest
  <2> QED BY <2>1, <2>2
<1>4. ASSUME NEW t \in Threads, TlCheck(t) PROVE RingInv'
  <2>1. RingOK' /\ CountOK'
    BY <1>4, RingCountKept DEF Active, LifeTypeOK, CallOK, SleepOK, TlCheck, Goto, desc, list, rest
  <2>2. AloneOK'
    BY <1>4 DEF AloneOK, LifeTypeOK, CallOK, SleepOK, TidOK, Committed, TlCheck, Goto, desc, rest
  <2> QED BY <2>1, <2>2
<1>5. ASSUME NEW t \in Threads, TlDec(t) PROVE RingInv'
  <2>1. RingOK' /\ CountOK'
    BY <1>5, RingCountKept DEF Active, LifeTypeOK, CallOK, SleepOK, TlDec, AfterWait, Goto, desc, list, rest
  <2>2. AloneOK'
    BY <1>5 DEF AloneOK, LifeTypeOK, CallOK, SleepOK, TidOK, Committed, TlDec, AfterWait, Goto, desc, rest
  <2> QED BY <2>1, <2>2
<1>6. ASSUME NEW t \in Threads, TlStore(t) PROVE RingInv'
  <2>1. RingOK' /\ CountOK'
    BY <1>6, RingCountKept DEF Active, LifeTypeOK, CallOK, SleepOK, TlStore, Goto, desc, list, rest
  <2>2. AloneOK'
    BY <1>6 DEF AloneOK, LifeTypeOK, CallOK, SleepOK, TidOK, Committed, TlStore, Goto, desc, rest
  <2> QED BY <2>1, <2>2
<1>7. ASSUME NEW t \in Threads, TlWake(t) PROVE RingInv'
  <2>1. RingOK' /\ CountOK'
    BY <1>7, RingCountKept DEF Active, LifeTypeOK, CallOK, SleepOK, TlWake, Wake, AfterUnlock, Return, Goto, desc, list, rest
  <2>2. AloneOK'
    <3>1. pc[t] = "tlwake" /\ tid[t] \in {t, NoTid} /\ (tid[t] = NoTid => op[t] = "exit")
      BY <1>7 DEF TlWake, TidOK, Committed
    <3>2. CASE op[t] = "create"
      BY <1>7, <3>1, <3>2 DEF TlWake, Return, Goto, desc, AloneOK, LifeTypeOK
    <3>3. CASE op[t] # "create"
      <4>1. pc' = [pc EXCEPT ![t] = AfterUnlock(t)] /\ UNCHANGED <<op, tid>>
        BY <1>7, <3>3 DEF TlWake, Goto, desc
      <4>2. op[t] = "exit" => AfterUnlock(t) \in {"freeself", "hostexit"}
        BY DEF AfterUnlock
      <4> QED BY <3>1, <4>1, <4>2 DEF AloneOK, LifeTypeOK
    <3> QED BY <3>2, <3>3
  <2> QED BY <2>1, <2>2
<1>8. ASSUME NEW t \in Threads, Spawn(t) PROVE RingInv'
  <2>1. RingOK' /\ CountOK'
    BY <1>8, SpawnRing
  <2>2. AloneOK'
    BY <1>8 DEF AloneOK, LifeTypeOK, CallOK, SleepOK, TidOK, Committed, Spawn, Goto, desc, rest
  <2> QED BY <2>1, <2>2
<1>9. ASSUME NEW t \in Threads, SpawnFails(t) PROVE RingInv'
  <2>0. /\ pc[t] = "spawn" /\ UNCHANGED <<next, prev, tmin1, tid>>
        /\ needLocks' = IF tmin1 = 0 THEN 0 ELSE needLocks
        /\ \A p \in Threads : pc[p] # "link" /\ pc'[p] # "link"
    BY <1>9, HolderLinked DEF SpawnFails, desc, LifeTypeOK, Holding
  <2>1. RingOK' /\ CountOK'
    <3>1. Linked' = Linked
      BY <2>0 DEF Linked, Active, Unlinked
    <3>2. RingOK'
      BY <2>0, <3>1, RingKept
    <3>3. (needLocks' = 1) = (tmin1' > 0)
      BY <2>0 DEF CountOK
    <3>4. CountOK'
      BY <2>0, <3>1, <3>3 DEF CountOK
    <3> QED BY <3>2, <3>4
  <2>2. AloneOK'
    BY <1>9 DEF AloneOK, LifeTypeOK, CallOK, SleepOK, TidOK, Committed, SpawnFails, Goto, desc, rest
  <2> QED BY <2>1, <2>2
<1>10. ASSUME NEW t \in Threads, FreeMap(t) PROVE RingInv'
  <2>1. RingOK' /\ CountOK'
    BY <1>10, RingCountKept DEF Active, LifeTypeOK, CallOK, SleepOK, FreeMap, Return, Goto, desc, list, rest
  <2>2. AloneOK'
    BY <1>10 DEF AloneOK, LifeTypeOK, CallOK, SleepOK, TidOK, Committed, FreeMap, Return, Goto, desc, rest
  <2> QED BY <2>1, <2>2
<1>11. ASSUME NEW t \in Threads, Link(t) PROVE RingInv'
  <2>1. RingOK' /\ CountOK'
    BY <1>11, LinkRing
  <2>2. AloneOK'
    BY <1>11 DEF AloneOK, LifeTypeOK, CallOK, SleepOK, TidOK, Committed, Link, Goto, desc, rest
  <2> QED BY <2>1, <2>2
<1>12. ASSUME NEW t \in Threads, Start(t) PROVE RingInv'
  <2>1. RingOK' /\ CountOK'
    <3>1. /\ pc[t] = "start" /\ pc' = [pc EXCEPT ![t] = "run"]
          /\ tid' = [tid EXCEPT ![t] = t] /\ UNCHANGED <<next, prev, tmin1, needLocks, tgt>>
      BY <1>12 DEF Start, Goto, list
    <3>2. t \in Active \/ t \in Unlinked
      BY <3>1 DEF TidOK, Active, Unlinked, Committed, CallOK
    <3>3. /\ Unlinked' = Unlinked /\ Active' = Active \cup {t}
          /\ (\E p \in Threads : pc'[p] = "link") = (\E p \in Threads : pc[p] = "link")
      BY <3>1 DEF Unlinked, Active, LifeTypeOK
    <3>4. Linked' = Linked
      BY <3>2, <3>3 DEF Linked
    <3> QED BY <3>1, <3>3, <3>4, RingKept DEF CountOK
  <2>2. AloneOK'
    BY <1>12 DEF AloneOK, LifeTypeOK, CallOK, SleepOK, TidOK, Committed, Start, Goto, desc, rest
  <2> QED BY <2>1, <2>2
<1>13. ASSUME NEW t \in Threads, LastThread(t) PROVE RingInv'
  <2>1. RingOK' /\ CountOK'
    BY <1>13, RingCountKept DEF Active, LifeTypeOK, CallOK, SleepOK, LastThread, Goto, desc, list, rest
  <2>2. AloneOK'
    <3>1. pc[t] = "last" /\ next[t] = t /\ op' = [op EXCEPT ![t] = "exit0"] /\ pc' = [pc EXCEPT ![t] = "unlock"] /\ UNCHANGED tid
      BY <1>13 DEF LastThread, Goto, desc
    <3>2. t \in Linked /\ Linked = Active /\ Unlinked = {} /\ \A v \in Threads \ {t} : pc[v] \notin Holding
      BY <3>1, HolderLinked
    <3>a. {t} \in SUBSET Linked /\ {t} # {} /\ \A x \in {t} : next[x] \in {t}
      BY <3>1, <3>2
    <3>3. Active = {t}
      BY <3>2, <3>a DEF RingOK, OneRing
    <3>4. \A v \in Threads \ {t} : tid[v] = NoTid
      BY <3>3 DEF Active, TidOK
    <3>5. \A v \in Threads \ {t} : pc[v] \in {"none", "tlwake", "freeself", "hostexit", "gone"}
      BY <3>2, <3>4 DEF TidOK, Committed, Holding, Unlinked
    <3>6. \A v \in Threads \ {t} : op[v] # "exit0"
      BY <3>1, <3>2 DEF AloneOK, Linked, Active
    <3> QED BY <3>1, <3>4, <3>5, <3>6 DEF AloneOK, LifeTypeOK
  <2> QED BY <2>1, <2>2
<1>14. ASSUME NEW t \in Threads, RestoreDetach(t) PROVE RingInv'
  <2>1. RingOK' /\ CountOK'
    BY <1>14, RingCountKept DEF Active, LifeTypeOK, CallOK, SleepOK, RestoreDetach, Goto, desc, list, rest
  <2>2. AloneOK'
    BY <1>14 DEF AloneOK, LifeTypeOK, CallOK, SleepOK, TidOK, Committed, RestoreDetach, Goto, desc, rest
  <2> QED BY <2>1, <2>2
<1>15. ASSUME NEW t \in Threads, Unlink(t) PROVE RingInv'
  <2>1. RingOK' /\ CountOK'
    BY <1>15, UnlinkRing
  <2>2. AloneOK'
    BY <1>15 DEF AloneOK, LifeTypeOK, CallOK, SleepOK, TidOK, Committed, Unlink, Goto, desc, rest
  <2> QED BY <2>1, <2>2
<1>16. ASSUME NEW t \in Threads, StoreExited(t) PROVE RingInv'
  <2>1. RingOK' /\ CountOK'
    BY <1>16, RingCountKept DEF Active, LifeTypeOK, CallOK, SleepOK, StoreExited, Goto, desc, list, rest
  <2>2. AloneOK'
    BY <1>16 DEF AloneOK, LifeTypeOK, CallOK, SleepOK, TidOK, Committed, StoreExited, Goto, desc, rest
  <2> QED BY <2>1, <2>2
<1>17. ASSUME NEW t \in Threads, WakeJoiner(t) PROVE RingInv'
  <2>1. RingOK' /\ CountOK'
    BY <1>17, RingCountKept DEF Active, LifeTypeOK, CallOK, SleepOK, WakeJoiner, Wake, Goto, desc, list, rest
  <2>2. AloneOK'
    BY <1>17 DEF AloneOK, LifeTypeOK, CallOK, SleepOK, TidOK, Committed, WakeJoiner, Wake, Goto, desc, rest
  <2> QED BY <2>1, <2>2
<1>18. ASSUME NEW t \in Threads, FreeSelf(t) PROVE RingInv'
  <2>1. RingOK' /\ CountOK'
    BY <1>18, RingCountKept DEF Active, LifeTypeOK, CallOK, SleepOK, FreeSelf, Goto, desc, list, rest
  <2>2. AloneOK'
    BY <1>18 DEF AloneOK, LifeTypeOK, CallOK, SleepOK, TidOK, Committed, FreeSelf, Goto, desc, rest
  <2> QED BY <2>1, <2>2
<1>19. ASSUME NEW t \in Threads, HostExit(t) PROVE RingInv'
  <2>1. RingOK' /\ CountOK'
    BY <1>19, RingCountKept DEF Active, LifeTypeOK, CallOK, SleepOK, HostExit, Goto, desc, list, rest
  <2>2. AloneOK'
    BY <1>19 DEF AloneOK, LifeTypeOK, CallOK, SleepOK, TidOK, Committed, HostExit, Goto, desc, rest
  <2> QED BY <2>1, <2>2
<1>20. ASSUME NEW t \in Threads, JoinLoad(t) PROVE RingInv'
  <2>1. RingOK' /\ CountOK'
    BY <1>20, RingCountKept DEF Active, LifeTypeOK, CallOK, SleepOK, JoinLoad, Goto, desc, list, rest
  <2>2. AloneOK'
    BY <1>20, SMTT(30) DEF AloneOK, LifeTypeOK, CallOK, SleepOK, TidOK, Committed, JoinLoad, Goto, desc, rest
  <2> QED BY <2>1, <2>2
<1>21. ASSUME NEW t \in Threads, JoinWait(t) PROVE RingInv'
  <2>1. RingOK' /\ CountOK'
    BY <1>21, RingCountKept DEF Active, LifeTypeOK, CallOK, SleepOK, JoinWait, Goto, desc, list, rest
  <2>2. AloneOK'
    BY <1>21 DEF AloneOK, LifeTypeOK, CallOK, SleepOK, TidOK, Committed, JoinWait, Goto, desc, rest
  <2> QED BY <2>1, <2>2
<1>22. ASSUME NEW t \in Threads, JoinWoken(t) PROVE RingInv'
  <2>1. RingOK' /\ CountOK'
    BY <1>22, RingCountKept DEF Active, LifeTypeOK, CallOK, SleepOK, JoinWoken, Goto, desc, list, rest
  <2>2. AloneOK'
    BY <1>22 DEF AloneOK, LifeTypeOK, CallOK, SleepOK, TidOK, Committed, JoinWoken, Goto, desc, rest
  <2> QED BY <2>1, <2>2
<1>23. ASSUME NEW t \in Threads, TlSync(t) PROVE RingInv'
  <2>1. RingOK' /\ CountOK'
    BY <1>23, RingCountKept DEF Active, LifeTypeOK, CallOK, SleepOK, TlSync, Goto, desc, list, rest
  <2>2. AloneOK'
    BY <1>23 DEF AloneOK, LifeTypeOK, CallOK, SleepOK, TidOK, Committed, TlSync, Goto, desc, rest
  <2> QED BY <2>1, <2>2
<1>24. ASSUME NEW t \in Threads, TlSyncPass(t) PROVE RingInv'
  <2>1. RingOK' /\ CountOK'
    BY <1>24, RingCountKept DEF Active, LifeTypeOK, CallOK, SleepOK, TlSyncPass, Wake, Goto, desc, list, rest
  <2>2. AloneOK'
    BY <1>24 DEF AloneOK, LifeTypeOK, CallOK, SleepOK, TidOK, Committed, TlSyncPass, Wake, Goto, desc, rest
  <2> QED BY <2>1, <2>2
<1>25. ASSUME NEW t \in Threads, JoinFree(t) PROVE RingInv'
  <2>1. RingOK' /\ CountOK'
    BY <1>25, RingCountKept DEF Active, LifeTypeOK, CallOK, SleepOK, JoinFree, Return, Goto, desc, list, rest
  <2>2. AloneOK'
    BY <1>25 DEF AloneOK, LifeTypeOK, CallOK, SleepOK, TidOK, Committed, JoinFree, Return, Goto, desc, rest
  <2> QED BY <2>1, <2>2
<1>26. ASSUME NEW t \in Threads, HostSignal(t) PROVE RingInv'
  <2>1. RingOK' /\ CountOK'
    BY <1>26, RingCountKept DEF Active, LifeTypeOK, CallOK, SleepOK, HostSignal, Return, Goto, desc, list, rest
  <2>2. AloneOK'
    BY <1>26 DEF AloneOK, LifeTypeOK, CallOK, SleepOK, TidOK, Committed, HostSignal, Return, Goto, desc, rest
  <2> QED BY <2>1, <2>2
<1>27. ASSUME NEW t \in Threads, TlSpurious(t) PROVE RingInv'
  <2>1. RingOK' /\ CountOK'
    BY <1>27, RingCountKept DEF Active, LifeTypeOK, CallOK, SleepOK, TlSpurious, Goto, desc, list, rest
  <2>2. AloneOK'
    BY <1>27 DEF AloneOK, LifeTypeOK, CallOK, SleepOK, TidOK, Committed, TlSpurious, Goto, desc, rest
  <2> QED BY <2>1, <2>2
<1>28. ASSUME NEW t \in Threads, CallExit(t) PROVE RingInv'
  <2>1. RingOK' /\ CountOK'
    BY <1>28, RingCountKept DEF Active, LifeTypeOK, CallOK, SleepOK, CallExit, Goto, desc, list, rest
  <2>2. AloneOK'
    BY <1>28 DEF AloneOK, LifeTypeOK, CallOK, SleepOK, TidOK, Committed, CallExit, Goto, desc, rest
  <2> QED BY <2>1, <2>2
<1>29. ASSUME NEW t \in Threads, JoinTimeout(t) PROVE RingInv'
  <2>1. RingOK' /\ CountOK'
    BY <1>29, RingCountKept DEF Active, LifeTypeOK, CallOK, SleepOK, JoinTimeout, Return, Goto, desc, list, rest
  <2>2. AloneOK'
    BY <1>29 DEF AloneOK, LifeTypeOK, CallOK, SleepOK, TidOK, Committed, JoinTimeout, Return, Goto, desc, rest
  <2> QED BY <2>1, <2>2
<1>30. ASSUME NEW t \in Threads, NEW u \in Threads, NEW d \in {DT_JOINABLE, DT_DETACHED}, CallCreate(t, u, d) PROVE RingInv'
  <2>1. RingOK' /\ CountOK'
    BY <1>30, RingCountKept DEF Active, LifeTypeOK, CallOK, SleepOK, CallCreate, Goto, desc, list, rest
  <2>2. AloneOK'
    BY <1>30 DEF AloneOK, LifeTypeOK, CallOK, SleepOK, TidOK, Committed, CallCreate, Goto, desc, rest
  <2> QED BY <2>1, <2>2
<1>31. ASSUME NEW t \in Threads, NEW u \in Threads, CallJoin(t, u) PROVE RingInv'
  <2>1. RingOK' /\ CountOK'
    BY <1>31, RingCountKept DEF Active, LifeTypeOK, CallOK, SleepOK, CallJoin, Started, Goto, desc, list, rest
  <2>2. AloneOK'
    BY <1>31 DEF AloneOK, LifeTypeOK, CallOK, SleepOK, TidOK, Committed, CallJoin, Started, Goto, desc, rest
  <2> QED BY <2>1, <2>2
<1>32. ASSUME NEW t \in Threads, NEW u \in Threads, CallDetach(t, u) PROVE RingInv'
  <2>1. RingOK' /\ CountOK'
    BY <1>32, RingCountKept DEF Active, LifeTypeOK, CallOK, SleepOK, CallDetach, Started, Goto, desc, list, rest
  <2>2. AloneOK'
    BY <1>32 DEF AloneOK, LifeTypeOK, CallOK, SleepOK, TidOK, Committed, CallDetach, Started, Goto, desc, rest
  <2> QED BY <2>1, <2>2
<1>33. ASSUME NEW t \in Threads, NEW u \in Threads, CallKill(t, u) PROVE RingInv'
  <2>1. RingOK' /\ CountOK'
    BY <1>33, RingCountKept DEF Active, LifeTypeOK, CallOK, SleepOK, CallKill, Started, Goto, desc, list, rest
  <2>2. AloneOK'
    BY <1>33 DEF AloneOK, LifeTypeOK, CallOK, SleepOK, TidOK, Committed, CallKill, Started, Goto, desc, rest
  <2> QED BY <2>1, <2>2
<1>34. CASE UNCHANGED vars
  <2>1. RingOK' /\ CountOK'
    BY <1>34, RingCountKept DEF vars, Active
  <2>2. AloneOK'
    BY <1>34 DEF AloneOK, vars
  <2> QED BY <2>1, <2>2
<1> QED
  BY <1>1, <1>2, <1>3, <1>4, <1>5, <1>6, <1>7, <1>8, <1>9, <1>10, <1>11, <1>12, <1>13,
     <1>14, <1>15, <1>16, <1>17, <1>18, <1>19, <1>20, <1>21, <1>22, <1>23, <1>24, <1>25,
     <1>26, <1>27, <1>28, <1>29, <1>30, <1>31, <1>32, <1>33, <1>34
  DEF Next, Step, Over

-----------------------------------------------------------------------------
LEMMA LifeInvariance == Spec => [](CoreInv /\ FreeInv /\ RingInv)
<1>1. CoreInv /\ FreeInv /\ RingInv /\ [Next]_vars => (CoreInv /\ FreeInv /\ RingInv)'
  BY CoreNext, FreeNext, RingNext
<1> QED BY <1>1, LifeInit, PTL DEF Spec

\* pthread_exit, pthread_join, pthread_detach and the error path of
\* pthread_create never free an allocation twice between them.
THEOREM FreedAtMostOnce == Spec => []FreedOnce
<1>1. FreeInv => FreedOnce
  BY DEF FreeInv, FreedOK, FreedOnce
<1> QED BY <1>1, LifeInvariance, PTL

\* The joiner's __tl_sync does its work: the thread that holds the list lock
\* still has its stack.
THEOREM ListOwnerHasStack == Spec => []ListLockOwnerAlive
<1>1. CoreInv /\ FreeInv => ListLockOwnerAlive
  <2> SUFFICES ASSUME CoreInv, FreeInv, NEW t \in Threads, tl = t PROVE freed[t] = 0
    BY DEF ListLockOwnerAlive
  <2>1. pc[t] \in Holding
    BY DEF CoreInv, LockOK
  <2> QED BY <2>1 DEF FreeInv, FreedOK, Released, Holding
<1> QED BY <1>1, LifeInvariance, PTL

\* The ring, the counter and need_locks agree with the running threads
\* whenever __thread_list_lock is free.
THEOREM ListAlwaysConsistent == Spec => []ListConsistent
<1>1. CoreInv /\ RingInv => ListConsistent
  <2> SUFFICES ASSUME CoreInv, RingInv PROVE ListConsistent
    OBVIOUS
  <2> USE LifeAssumption DEF LifeAssumption, CoreInv, RingInv
  <2>1. \A t \in Threads : next[prev[t]] = t /\ prev[next[t]] = t
    BY DEF RingOK
  <2>2. ASSUME tl = NoTid
        PROVE  /\ tmin1 = Cardinality(Active) - 1
               /\ {t \in Threads : next[t] # t} = IF tmin1 = 0 THEN {} ELSE Active
               /\ (needLocks = 1) = (tmin1 > 0)
    <3>1. ~ \E p \in Threads : pc[p] = "link"
      BY <2>2 DEF LockOK, Holding
    <3>2. Linked = Active
      BY <3>1 DEF Linked, Unlinked
    <3>3. tmin1 = Cardinality(Active) - 1
      BY <3>1, <3>2 DEF CountOK
    <3>4. /\ IsFiniteSet(Active) /\ Active \subseteq Threads
          /\ \A t \in Threads \ Active : next[t] = t
          /\ \A t \in Active : next[t] \in Active
      BY <3>2, Neighbours
    <3>5. CASE tmin1 = 0
      <4>1. Cardinality(Active) = 1
        BY <3>3, <3>4, <3>5, FS_CardinalityType
      <4>2. PICK x : Active = {x}
        BY <3>4, <4>1, FS_Singleton
      <4>3. next[x] = x
        BY <3>4, <4>2
      <4>4. {t \in Threads : next[t] # t} = {}
        BY <3>4, <4>2, <4>3
      <4> QED BY <3>3, <3>5, <4>4 DEF CountOK
    <3>6. CASE tmin1 # 0
      <4>1. ASSUME NEW x \in Active, next[x] = x PROVE FALSE
        <5>1. {x} \in SUBSET Linked /\ {x} # {} /\ \A y \in {x} : next[y] \in {x}
          BY <3>2, <4>1
        <5>2. Active = {x}
          BY <3>2, <5>1 DEF RingOK, OneRing
        <5> QED BY <3>3, <3>6, <5>2, FS_Singleton
      <4> QED BY <3>3, <3>4, <3>6, <4>1 DEF CountOK
    <3> QED BY <3>5, <3>6
  <2> QED BY <2>1, <2>2 DEF ListConsistent
<1> QED BY <1>1, LifeInvariance, PTL

\* A thread that calls exit(0) because it is the last is the last.
THEOREM ExitIsAlone == Spec => []ExitsAlone
<1>1. CoreInv /\ RingInv => ExitsAlone
  BY LifeAssumption DEF LifeAssumption, CoreInv, CallOK, RingInv, AloneOK, ExitsAlone, Active
<1> QED BY <1>1, LifeInvariance, PTL
=============================================================================
