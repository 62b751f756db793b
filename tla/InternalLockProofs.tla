------------------------- MODULE InternalLockProofs -------------------------
(***************************************************************************)
(* Proofs about InternalLock.  Mutual exclusion is not inductive because   *)
(* of the switch need_locks: a thread that skipped the lock is alone, and  *)
(* stays alone until it has left its critical section (SkippedAlone).      *)
(***************************************************************************)
EXTENDS InternalLock, FiniteSetTheorems, TLAPS

OnlyOne == \A t, u \in live : t = u

\* Only running threads are inside __lock or __unlock.
ActiveLive == \A t \in Threads : pc[t] # "idle" => t \in live

OffAlone == needLocks # 1 => OnlyOne

\* A critical section without the lock flag belongs to a single thread.
SkippedAlone == \A t \in Threads : pc[t] = "cs" /\ ~ word.held => OnlyOne

\* In the main loop, the value to compare with is that of an open lock.
CasOpen == \A t \in Threads : pc[t] = "cas" => ~ current[t].held

IInv ==
  /\ TypeOK
  /\ ActiveLive
  /\ OffAlone
  /\ SkippedAlone
  /\ CasOpen
  /\ MutualExclusion

-----------------------------------------------------------------------------
LEMMA WordFields ==
  /\ \A n \in Int : Open(n) \in Word /\ ~ Open(n).held /\ Open(n).cong = n
  /\ \A n \in Int : Shut(n) \in Word /\ Shut(n).held /\ Shut(n).cong = n
BY DEF Open, Shut, Word

LEMMA WithoutHolderOpen ==
  ASSUME NEW c \in Word
  PROVE  /\ WithoutHolder(c) \in Word
         /\ ~ WithoutHolder(c).held
BY WordFields DEF WithoutHolder, Word

\* Nobody is in a critical section when another thread finds the lock open.
LEMMA OpenMeansEmpty ==
  ASSUME IInv, NEW t \in Threads, pc[t] \notin {"idle", "cs"}, ~ word.held
  PROVE  \A u \in Threads : pc[u] # "cs"
BY DEF IInv, ActiveLive, SkippedAlone, OnlyOne

LEMMA EnterTyped ==
  ASSUME TypeOK, NEW t \in Threads, EnterCS(t)
  PROVE  /\ pc' \in [Threads -> Labels]
         /\ current' \in [Threads -> Word]
         /\ turn' \in [Threads -> 0 .. SpinMax]
BY WordFields, LockAssumption DEF LockAssumption, TypeOK, EnterCS, Goto, Labels

LEMMA InitIInv == Init => IInv
BY WordFields, LockAssumption
DEF LockAssumption, Init, IInv, TypeOK, ActiveLive, OffAlone, SkippedAlone, CasOpen,
    MutualExclusion, OnlyOne, Labels

\* Steps that acquire the lock with the flag set.
LEMMA AcquireIInv ==
  ASSUME IInv, NEW t \in Threads, pc[t] \notin {"idle", "cs"}, ~ word.held,
         word' \in Word, word'.held, EnterCS(t),
         UNCHANGED <<live, sleepers, left>>, needLocks' \in {-1, 0, 1},
         needLocks' # 1 => needLocks # 1
  PROVE  IInv'
<1>1. \A u \in Threads : pc[u] # "cs"
  BY OpenMeansEmpty
<1>2. TypeOK'
  BY EnterTyped DEF IInv, TypeOK
<1>3. QED
  BY <1>1, <1>2
  DEF IInv, TypeOK, ActiveLive, OffAlone, SkippedAlone, CasOpen, MutualExclusion,
      OnlyOne, EnterCS, Goto

\* Steps inside __lock that enter no critical section.
LEMMA QuietIInv ==
  ASSUME IInv, TypeOK', NEW t \in Threads, NEW l, l # "cs",
         pc' = [pc EXCEPT ![t] = l], l # "idle" => t \in live,
         l = "cas" => ~ current'[t].held,
         \A u \in Threads \ {t} : current'[u] = current[u],
         pc[t] # "cs" => (word'.held <=> word.held),
         UNCHANGED live, needLocks' # 1 => needLocks # 1
  PROVE  IInv'
BY DEF IInv, TypeOK, ActiveLive, OffAlone, SkippedAlone, CasOpen, MutualExclusion, OnlyOne

LEMMA StepIInv ==
  ASSUME IInv, NEW t \in Threads, Step(t)
  PROVE  IInv'
<1> USE LockAssumption DEF LockAssumption
<1>1. CASE FastPath(t)
  <2>1. CASE word = Open(0)
    <3>1. word' \in Word /\ word'.held /\ ~ word.held
      BY <1>1, <2>1, WordFields DEF FastPath
    <3>2. needLocks' \in {-1, 0, 1} /\ (needLocks' # 1 => needLocks # 1)
      BY <1>1 DEF FastPath, IInv, TypeOK
    <3>3. QED
      BY <1>1, <2>1, <3>1, <3>2, AcquireIInv DEF FastPath
  <2>2. CASE word # Open(0)
    <3>1. TypeOK'
      BY <1>1, <2>2 DEF IInv, TypeOK, FastPath, Goto, Labels
    <3>2. QED
      BY <1>1, <2>2, <3>1, QuietIInv DEF IInv, TypeOK, ActiveLive, FastPath, Goto
  <2>3. QED
    BY <2>1, <2>2
<1>2. CASE SpinTurn(t)
  <2> DEFINE c == WithoutHolder(current[t])
  <2>1. c \in Word /\ ~ c.held
    BY WithoutHolderOpen DEF IInv, TypeOK
  <2>2. CASE word = c
    <3>1. word' = Shut(c.cong + 1) /\ EnterCS(t)
      BY <1>2, <2>2 DEF SpinTurn
    <3>2. word' \in Word /\ word'.held /\ ~ word.held
      BY <2>1, <2>2, <3>1, WordFields DEF Word
    <3>3. needLocks' = needLocks /\ needLocks \in {-1, 0, 1}
      BY <1>2 DEF SpinTurn, IInv, TypeOK
    <3>4. QED
      BY <1>2, <3>1, <3>2, <3>3, AcquireIInv DEF SpinTurn
  <2>3. CASE word # c
    <3>1. TypeOK'
      BY <1>2, <2>3 DEF IInv, TypeOK, SpinTurn
    <3>2. QED
      BY <1>2, <2>3, <3>1
      DEF IInv, TypeOK, ActiveLive, OffAlone, SkippedAlone, CasOpen, MutualExclusion,
          OnlyOne, SpinTurn
  <2>4. QED
    BY <2>2, <2>3
<1>3. CASE Commit(t)
  <2>1. /\ [word EXCEPT !.cong = @ + 1] \in Word
        /\ [word EXCEPT !.cong = @ + 1].held = word.held
    BY DEF IInv, TypeOK, Word
  <2>2. TypeOK'
    BY <1>3, <2>1 DEF IInv, TypeOK, Commit, Goto, Labels
  <2>3. QED
    BY <1>3, <2>1, <2>2, QuietIInv DEF IInv, TypeOK, ActiveLive, Commit, Goto
<1>4. CASE MainLoop(t)
  <2>1. TypeOK'
    BY <1>4 DEF IInv, TypeOK, MainLoop, Goto, Labels
  <2>2. QED
    BY <1>4, <2>1, QuietIInv DEF IInv, ActiveLive, MainLoop, Goto
<1>5. CASE FutexWait(t)
  <2>1. /\ WithoutHolder(current[t]) \in Word
        /\ ~ WithoutHolder(current[t]).held
    BY WithoutHolderOpen DEF IInv, TypeOK
  <2>2. TypeOK'
    BY <1>5, <2>1 DEF IInv, TypeOK, FutexWait, Goto, Labels
  <2>3. CASE word = current[t]
    BY <1>5, <2>2, <2>3, QuietIInv DEF IInv, ActiveLive, FutexWait, Goto
  <2>4. CASE word # current[t]
    BY <1>5, <2>1, <2>2, <2>4, QuietIInv DEF IInv, TypeOK, ActiveLive, FutexWait, Goto
  <2>5. QED
    BY <2>3, <2>4
<1>6. CASE Woken(t)
  <2>1. TypeOK'
    BY <1>6 DEF IInv, TypeOK, Woken, Goto, Labels
  <2>2. QED
    BY <1>6, <2>1, QuietIInv DEF IInv, ActiveLive, Woken, Goto
<1>7. CASE MainCas(t)
  <2>1. CASE word = current[t]
    <3>1. ~ word.held /\ word.cong \in Int
      BY <1>7, <2>1 DEF IInv, TypeOK, CasOpen, MainCas, Word
    <3>2. word' \in Word /\ word'.held
      BY <1>7, <2>1, <3>1, WordFields DEF MainCas
    <3>3. needLocks' = needLocks /\ needLocks \in {-1, 0, 1}
      BY <1>7 DEF MainCas, IInv, TypeOK
    <3>4. QED
      BY <1>7, <2>1, <3>1, <3>2, <3>3, AcquireIInv DEF MainCas
  <2>2. CASE word # current[t]
    <3>1. TypeOK'
      BY <1>7, <2>2 DEF IInv, TypeOK, MainCas, Goto, Labels
    <3>2. QED
      BY <1>7, <2>2, <3>1, QuietIInv DEF IInv, TypeOK, ActiveLive, MainCas, Goto
  <2>3. QED
    BY <2>1, <2>2
<1>8. CASE Unlock(t)
  <2>1. TypeOK'
    <3>1. word.cong - 1 \in Int
      BY DEF IInv, TypeOK, Word
    <3>2. Open(word.cong - 1) \in Word
      BY <3>1, WordFields
    <3>3. QED
      BY <1>8, <3>2 DEF IInv, TypeOK, Unlock, Goto, Labels
  <2>2. QED
    BY <1>8, <2>1, QuietIInv DEF IInv, ActiveLive, Unlock, Goto
<1>9. CASE WakeOne(t)
  <2>1. TypeOK'
    BY <1>9 DEF IInv, TypeOK, WakeOne, Wake, Goto, Labels
  <2>2. QED
    BY <1>9, <2>1, QuietIInv DEF IInv, ActiveLive, WakeOne, Goto
<1>10. QED
  BY <1>1, <1>2, <1>3, <1>4, <1>5, <1>6, <1>7, <1>8, <1>9 DEF Step

\* Of two threads one exits: the other is alone.
LEMMA TwoMinusOne ==
  ASSUME NEW S, IsFiniteSet(S), Cardinality(S) = 2, NEW t \in S
  PROVE  \A u, v \in S \ {t} : u = v
<1>1. IsFiniteSet(S \ {t}) /\ Cardinality(S \ {t}) = 1
  BY FS_RemoveElement
<1>2. \E x : S \ {t} = {x}
  BY <1>1, FS_Singleton
<1>3. QED
  BY <1>2

LEMMA NextIInv == IInv /\ [Next]_vars => IInv'
<1> SUFFICES ASSUME IInv, [Next]_vars PROVE IInv'
  OBVIOUS
<1> USE LockAssumption DEF LockAssumption
<1>1. ASSUME NEW t \in Threads, Step(t) PROVE IInv'
  BY <1>1, StepIInv
<1>2. ASSUME NEW t \in Threads, CallLock(t) PROVE IInv'
  <2>1. left' \in [Threads -> Nat]
    BY <1>2 DEF IInv, TypeOK, CallLock
  <2>2. TypeOK'
    <3>1. CASE needLocks = 0
      BY <1>2, <2>1, <3>1, EnterTyped DEF IInv, TypeOK, CallLock
    <3>2. CASE needLocks # 0
      BY <1>2, <2>1, <3>2 DEF IInv, TypeOK, CallLock, Goto, Labels
    <3>3. QED
      BY <3>1, <3>2
  <2>3. CASE needLocks = 0
    <3>1. OnlyOne /\ t \in live
      BY <1>2, <2>3 DEF IInv, OffAlone, CallLock
    <3>2. \A u \in Threads \ {t} : pc[u] = "idle"
      BY <3>1 DEF IInv, ActiveLive, OnlyOne
    <3>3. /\ pc'[t] = "cs" /\ \A u \in Threads \ {t} : pc'[u] = "idle"
          /\ live' = live /\ OnlyOne'
      BY <1>2, <2>3, <3>1, <3>2 DEF IInv, TypeOK, CallLock, EnterCS, Goto, OnlyOne
    <3>4. QED
      BY <2>2, <3>1, <3>3
      DEF IInv, ActiveLive, OffAlone, SkippedAlone, CasOpen, MutualExclusion
  <2>4. CASE needLocks # 0
    BY <1>2, <2>2, <2>4, QuietIInv DEF CallLock, Goto
  <2>5. QED
    BY <2>3, <2>4
<1>3. ASSUME NEW t \in Threads, SpuriousWake(t) PROVE IInv'
  BY <1>3 DEF IInv, TypeOK, ActiveLive, OffAlone, SkippedAlone, CasOpen,
              MutualExclusion, OnlyOne, SpuriousWake
<1>4. ASSUME NEW t \in Threads, SpawnFails(t) PROVE IInv'
  BY <1>4 DEF IInv, TypeOK, ActiveLive, OffAlone, SkippedAlone, CasOpen,
              MutualExclusion, OnlyOne, SpawnFails
<1>5. ASSUME NEW t \in Threads, ThreadExit(t) PROVE IInv'
  <2>1. IsFiniteSet(live)
    BY FS_Subset DEF IInv, TypeOK
  <2>2. needLocks' # 1 => \A u, v \in live' : u = v
    BY <1>5, <2>1, TwoMinusOne DEF IInv, OffAlone, OnlyOne, ThreadExit
  <2>3. \A u \in Threads : pc'[u] = pc[u]
    BY <1>5 DEF ThreadExit
  <2>4. QED
    BY <1>5, <2>2, <2>3
    DEF IInv, TypeOK, ActiveLive, OffAlone, SkippedAlone, CasOpen, MutualExclusion,
        OnlyOne, ThreadExit
<1>6. ASSUME NEW t \in Threads, NEW u \in Threads, Spawn(t, u) PROVE IInv'
  <2>1. needLocks' = 1 \/ (needLocks' = needLocks /\ live # {t})
    BY <1>6 DEF Spawn
  <2>2. CASE \A v \in Threads : pc[v] # "cs" \/ word.held
    BY <1>6, <2>1, <2>2
    DEF IInv, TypeOK, ActiveLive, OffAlone, SkippedAlone, CasOpen, MutualExclusion,
        OnlyOne, Spawn
  <2>3. ASSUME NEW v \in Threads, pc[v] = "cs", ~ word.held PROVE FALSE
    BY <1>6, <2>3 DEF IInv, ActiveLive, SkippedAlone, OnlyOne, Spawn
  <2>4. QED
    BY <2>2, <2>3
<1>7. CASE UNCHANGED vars
  BY <1>7 DEF IInv, TypeOK, ActiveLive, OffAlone, SkippedAlone, CasOpen,
              MutualExclusion, OnlyOne, vars
<1>8. QED
  BY <1>1, <1>2, <1>3, <1>4, <1>5, <1>6, <1>7 DEF Next

-----------------------------------------------------------------------------
\* The inductive invariant holds in every reachable state.
THEOREM Invariance == Spec => []IInv
BY InitIInv, NextIInv, PTL DEF Spec

\* One thread at a time in an internal critical section, whatever the number
\* of threads and however often locking is switched on and off.
THEOREM LockSafe == Spec => []MutualExclusion
<1>1. IInv => MutualExclusion
  BY DEF IInv
<1>2. QED
  BY <1>1, Invariance, PTL

-----------------------------------------------------------------------------
(***************************************************************************)
(* The congestion count.  It has to be known that whoever skips the lock   *)
(* finds the flag clear: the flag is set only by a thread that is inside   *)
(* its critical section, and a thread that skips is alone.                 *)
(***************************************************************************)

HeldInside == word.held => \E t \in Threads : pc[t] = "cs"

CongInv == IInv /\ HeldInside /\ CongestionExact

LEMMA CountedFinite == IsFiniteSet(Counted) /\ Cardinality(Counted) \in Nat
BY LockAssumption, FS_Subset, FS_CardinalityType DEF LockAssumption, Counted

\* A step that counts or discounts nobody.
LEMMA SameCong ==
  ASSUME CongInv, IInv', Counted' = Counted, word'.cong = word.cong,
         HeldInside'
  PROVE  CongInv'
BY DEF CongInv, CongestionExact

\* A thread that was not counted adds itself.
LEMMA OneMoreCong ==
  ASSUME CongInv, IInv', NEW t \in Threads, t \notin Counted,
         Counted' = Counted \cup {t}, word'.cong = word.cong + 1, HeldInside'
  PROVE  CongInv'
<1>1. Cardinality(Counted \cup {t}) = Cardinality(Counted) + 1
  BY CountedFinite, FS_AddElement
<1>2. QED
  BY <1>1 DEF CongInv, CongestionExact

\* The holder takes itself out.
LEMMA OneLessCong ==
  ASSUME CongInv, IInv', NEW t \in Counted,
         Counted' = Counted \ {t}, word'.cong = word.cong - 1, HeldInside'
  PROVE  CongInv'
<1>1. Cardinality(Counted \ {t}) = Cardinality(Counted) - 1
  BY CountedFinite, FS_RemoveElement
<1>2. QED
  BY <1>1 DEF CongInv, CongestionExact

\* A step of t that neither enters nor leaves a critical section, nor the set
\* of threads that are committed to wait.
LEMMA UncountedStep ==
  ASSUME CongInv, IInv', NEW t \in Threads, NEW l,
         pc' = [pc EXCEPT ![t] = l], word' = word,
         pc[t] # "cs", l # "cs",
         pc[t] \in {"main", "wait", "sleep", "cas"} <=> l \in {"main", "wait", "sleep", "cas"}
  PROVE  CongInv'
<1>1. Counted' = Counted /\ HeldInside'
  BY DEF CongInv, IInv, TypeOK, Counted, HeldInside
<1>2. QED
  BY <1>1, SameCong

\* t acquires the lock, which it found open: Counted grows by t, unless t had
\* been committed to wait.
LEMMA AcquireCounted ==
  ASSUME CongInv, NEW t \in Threads, pc[t] \notin {"idle", "cs"}, ~ word.held,
         word'.held, EnterCS(t)
  PROVE  Counted' = Counted \cup {t} /\ HeldInside'
<1>1. \A u \in Threads : pc[u] # "cs"
  BY OpenMeansEmpty DEF CongInv
<1>2. pc'[t] = "cs" /\ \A u \in Threads \ {t} : pc'[u] = pc[u]
  BY DEF EnterCS, Goto, CongInv, IInv, TypeOK
<1>3. QED
  BY <1>1, <1>2 DEF Counted, HeldInside

LEMMA StepCong ==
  ASSUME CongInv, NEW t \in Threads, Step(t)
  PROVE  CongInv'
<1>0. IInv' /\ IInv /\ word \in Word /\ word.cong \in Int
  BY StepIInv DEF CongInv, IInv, TypeOK, Word
<1>1. CASE FastPath(t)
  <2>1. CASE word = Open(0)
    <3>1. ~ word.held /\ word'.held /\ word'.cong = word.cong + 1 /\ EnterCS(t)
      BY <1>1, <2>1, WordFields DEF FastPath
    <3>2. t \notin Counted
      BY <1>1 DEF FastPath, Counted
    <3>3. QED
      BY <1>0, <1>1, <3>1, <3>2, AcquireCounted, OneMoreCong DEF FastPath
  <2>2. CASE word # Open(0)
    BY <1>0, <1>1, <2>2, UncountedStep DEF FastPath, Goto
  <2>3. QED
    BY <2>1, <2>2
<1>2. CASE SpinTurn(t)
  <2> DEFINE c == WithoutHolder(current[t])
  <2>1. c \in Word /\ ~ c.held /\ c.cong \in Int
    BY <1>0, WithoutHolderOpen DEF IInv, TypeOK, Word
  <2>2. CASE word = c
    <3>1. word' = Shut(c.cong + 1) /\ EnterCS(t)
      BY <1>2, <2>2 DEF SpinTurn
    <3>2. ~ word.held /\ word'.held /\ word'.cong = word.cong + 1
      BY <2>1, <2>2, <3>1, WordFields
    <3>3. t \notin Counted
      BY <1>2 DEF SpinTurn, Counted
    <3>4. QED
      BY <1>0, <1>2, <3>1, <3>2, <3>3, AcquireCounted, OneMoreCong DEF SpinTurn
  <2>3. CASE word # c
    <3>1. UNCHANGED <<word, pc>>
      BY <1>2, <2>3 DEF SpinTurn
    <3>2. Counted' = Counted /\ HeldInside'
      BY <3>1 DEF Counted, CongInv, HeldInside
    <3>3. QED
      BY <1>0, <3>1, <3>2, SameCong
  <2>4. QED
    BY <2>2, <2>3
<1>3. CASE Commit(t)
  <2>1. word'.held = word.held /\ word'.cong = word.cong + 1
    BY <1>0, <1>3 DEF Commit, Word
  <2>2. /\ pc[t] = "spin" /\ pc'[t] = "main"
        /\ \A u \in Threads \ {t} : pc'[u] = pc[u]
    BY <1>0, <1>3 DEF Commit, Goto, IInv, TypeOK
  <2>3. Counted' = Counted \cup {t} /\ t \notin Counted
    BY <2>1, <2>2 DEF Counted
  <2>4. HeldInside'
    BY <2>1, <2>2 DEF CongInv, HeldInside
  <2>5. QED
    BY <1>0, <2>1, <2>3, <2>4, OneMoreCong
<1>4. CASE MainLoop(t)
  BY <1>0, <1>4, UncountedStep DEF MainLoop, Goto
<1>5. CASE FutexWait(t)
  BY <1>0, <1>5, UncountedStep DEF FutexWait, Goto
<1>6. CASE Woken(t)
  BY <1>0, <1>6, UncountedStep DEF Woken, Goto
<1>7. CASE MainCas(t)
  <2>1. CASE word = current[t]
    <3>1. ~ word.held /\ word' = Shut(word.cong) /\ EnterCS(t)
      BY <1>0, <1>7, <2>1 DEF MainCas, IInv, CasOpen
    <3>2. word'.held /\ word'.cong = word.cong
      BY <1>0, <3>1, WordFields
    <3>3. Counted' = Counted \cup {t} /\ HeldInside' /\ t \in Counted
      BY <1>7, <3>1, <3>2, AcquireCounted DEF MainCas, Counted
    <3>4. Counted' = Counted
      BY <3>3
    <3>5. QED
      BY <1>0, <3>2, <3>3, <3>4, SameCong
  <2>2. CASE word # current[t]
    BY <1>0, <1>7, <2>2, UncountedStep DEF MainCas, Goto
  <2>3. QED
    BY <2>1, <2>2
<1>8. CASE Unlock(t)
  <2>1. /\ pc[t] = "cs" /\ pc'[t] \in {"idle", "wake"}
        /\ \A u \in Threads \ {t} : pc'[u] = pc[u] /\ pc[u] # "cs"
    BY <1>0, <1>8 DEF Unlock, Goto, IInv, TypeOK, MutualExclusion
  <2>2. CASE word.held
    <3>1. ~ word'.held /\ word'.cong = word.cong - 1
      BY <1>0, <1>8, <2>2, WordFields DEF Unlock
    <3>2. Counted' = Counted \ {t} /\ t \in Counted /\ HeldInside'
      BY <2>1, <2>2, <3>1 DEF Counted, HeldInside
    <3>3. QED
      BY <1>0, <3>1, <3>2, OneLessCong
  <2>3. CASE ~ word.held
    <3>1. word' = word
      BY <1>8, <2>3 DEF Unlock
    <3>2. Counted' = Counted /\ HeldInside'
      BY <2>1, <2>3, <3>1 DEF Counted, HeldInside
    <3>3. QED
      BY <1>0, <3>1, <3>2, SameCong
  <2>4. QED
    BY <2>2, <2>3
<1>9. CASE WakeOne(t)
  BY <1>0, <1>9, UncountedStep DEF WakeOne, Goto
<1>10. QED
  BY <1>1, <1>2, <1>3, <1>4, <1>5, <1>6, <1>7, <1>8, <1>9 DEF Step

LEMMA NextCong == CongInv /\ [Next]_vars => CongInv'
<1> SUFFICES ASSUME CongInv, [Next]_vars PROVE CongInv'
  OBVIOUS
<1>0. IInv /\ IInv'
  BY NextIInv DEF CongInv
<1>1. CASE UNCHANGED <<word, pc>>
  <2>1. Counted' = Counted /\ HeldInside'
    BY <1>1 DEF Counted, CongInv, HeldInside
  <2>2. QED
    BY <1>0, <1>1, <2>1, SameCong
<1>2. ASSUME NEW t \in Threads, CallLock(t) PROVE CongInv'
  <2>1. CASE needLocks = 0
    <3>1. \A u \in Threads : pc[u] = "idle"
      BY <1>0, <1>2, <2>1 DEF IInv, ActiveLive, OffAlone, OnlyOne, CallLock
    <3>2. ~ word.held /\ word' = word
      BY <1>2, <3>1 DEF CongInv, HeldInside, CallLock
    <3>3. pc'[t] = "cs" /\ \A u \in Threads \ {t} : pc'[u] = pc[u]
      BY <1>0, <1>2, <2>1 DEF CallLock, EnterCS, Goto, IInv, TypeOK
    <3>4. Counted' = Counted /\ HeldInside'
      BY <3>1, <3>2, <3>3 DEF Counted, HeldInside
    <3>5. QED
      BY <1>0, <3>2, <3>4, SameCong
  <2>2. CASE needLocks # 0
    BY <1>0, <1>2, <2>2, UncountedStep DEF CallLock, Goto
  <2>3. QED
    BY <2>1, <2>2
<1>3. ASSUME NEW t \in Threads, SpuriousWake(t) \/ SpawnFails(t) \/ ThreadExit(t)
      PROVE  UNCHANGED <<word, pc>>
  BY <1>3 DEF SpuriousWake, SpawnFails, ThreadExit
<1>4. ASSUME NEW t \in Threads, NEW u \in Threads, Spawn(t, u) PROVE UNCHANGED <<word, pc>>
  BY <1>4 DEF Spawn
<1>5. QED
  BY <1>1, <1>2, <1>3, <1>4, StepCong DEF Next, vars

\* The count in the lock word is exact for any number of threads, also when
\* locking is switched on and off: __unlock, which wakes nobody if the count
\* says it was alone, never leaves out a thread that is committed to wait.
THEOREM CongestionCorrect == Spec => []CongestionExact
<1>1. Init => CongInv
  <2> SUFFICES ASSUME Init PROVE CongInv
    OBVIOUS
  <2>1. word.cong = 0 /\ ~ word.held /\ Counted = {}
    BY WordFields DEF Init, Counted
  <2>2. QED
    BY <2>1, InitIInv, FS_EmptySet DEF CongInv, HeldInside, CongestionExact
<1>2. CongInv => CongestionExact
  BY DEF CongInv
<1>3. QED
  BY <1>1, <1>2, NextCong, PTL DEF Spec

-----------------------------------------------------------------------------
\* Every step of __lock and __unlock is a step of the abstract lock or none.
LEMMA StepRefines ==
  ASSUME IInv, NEW t \in Threads, Step(t)
  PROVE  [AL!AbsNext]_(AL!absVars)
<1> DEFINE W == {u \in Threads : pc[u] \notin {"idle", "cs", "wake"}}
           H == {u \in Threads : pc[u] = "cs"}
<1> USE DEF AL!AbsNext, AL!absVars
<1>1. ASSUME pc[t] \notin {"idle", "cs", "wake"}, ~ word.held, EnterCS(t)
      PROVE  AL!Acquire(t)
  <2>1. H = {}
    BY <1>1, OpenMeansEmpty
  <2>2. H' = {t} /\ W' = W \ {t} /\ t \in W
    BY <1>1, <2>1 DEF EnterCS, Goto, IInv, TypeOK
  <2>3. QED
    BY <2>1, <2>2 DEF AL!Acquire
<1>2. ASSUME NEW l, pc' = [pc EXCEPT ![t] = l],
             pc[t] \in {"idle", "wake"} <=> l \in {"idle", "wake"},
             pc[t] # "cs", l # "cs"
      PROVE  UNCHANGED AL!absVars
  BY <1>2 DEF IInv, TypeOK
<1>3. CASE FastPath(t)
  BY <1>1, <1>2, <1>3, WordFields DEF FastPath, Goto, Word
<1>4. CASE SpinTurn(t)
  <2>1. ~ WithoutHolder(current[t]).held
    BY WithoutHolderOpen DEF IInv, TypeOK
  <2>2. QED
    BY <1>1, <1>4, <2>1 DEF SpinTurn
<1>5. CASE Commit(t)
  BY <1>2, <1>5 DEF Commit, Goto
<1>6. CASE MainLoop(t)
  BY <1>2, <1>6 DEF MainLoop, Goto
<1>7. CASE FutexWait(t)
  BY <1>2, <1>7 DEF FutexWait, Goto
<1>8. CASE Woken(t)
  BY <1>2, <1>8 DEF Woken, Goto
<1>9. CASE MainCas(t)
  BY <1>1, <1>2, <1>9 DEF MainCas, Goto, IInv, CasOpen
<1>10. CASE Unlock(t)
  <2>1. W' = W /\ H' = H \ {t} /\ t \in H
    BY <1>10 DEF Unlock, Goto, IInv, TypeOK
  <2>2. QED
    BY <2>1 DEF AL!Release
<1>11. CASE WakeOne(t)
  BY <1>2, <1>11 DEF WakeOne, Goto
<1>12. QED
  BY <1>3, <1>4, <1>5, <1>6, <1>7, <1>8, <1>9, <1>10, <1>11 DEF Step

LEMMA CallRefines ==
  ASSUME IInv, NEW t \in Threads, CallLock(t)
  PROVE  [AL!AbsNext]_(AL!absVars)
<1> DEFINE W == {u \in Threads : pc[u] \notin {"idle", "cs", "wake"}}
           H == {u \in Threads : pc[u] = "cs"}
<1> USE DEF AL!AbsNext, AL!absVars
<1>1. CASE needLocks = 0
  <2>1. \A u \in Threads \ {t} : pc[u] = "idle"
    BY <1>1 DEF IInv, ActiveLive, OffAlone, OnlyOne, CallLock
  <2>2. H = {} /\ H' = {t} /\ W' = W /\ t \notin W
    BY <1>1, <2>1 DEF CallLock, EnterCS, Goto, IInv, TypeOK
  <2>3. QED
    BY <2>2 DEF AL!Enter
<1>2. CASE needLocks # 0
  <2>1. H' = H /\ W' = W \cup {t} /\ t \notin W \cup H
    BY <1>2 DEF CallLock, Goto, IInv, TypeOK
  <2>2. QED
    BY <2>1 DEF AL!Request
<1>3. QED
  BY <1>1, <1>2

\* __lock and __unlock implement the abstract lock (its safety part): a thread
\* that returns from __lock has acquired it when nobody else was holding it.
THEOREM LockRefines == Spec => AL!AbsSafety
<1>1. Init => AL!AbsInit
  BY DEF Init, AL!AbsInit
<1>2. IInv /\ [Next]_vars => [AL!AbsNext]_(AL!absVars)
  <2> SUFFICES ASSUME IInv, [Next]_vars PROVE [AL!AbsNext]_(AL!absVars)
    OBVIOUS
  <2>1. CASE UNCHANGED pc
    BY <2>1 DEF AL!absVars
  <2>2. ASSUME NEW t \in Threads, SpuriousWake(t) \/ SpawnFails(t) \/ ThreadExit(t)
        PROVE  UNCHANGED pc
    BY <2>2 DEF SpuriousWake, SpawnFails, ThreadExit
  <2>3. ASSUME NEW t \in Threads, NEW u \in Threads, Spawn(t, u) PROVE UNCHANGED pc
    BY <2>3 DEF Spawn
  <2>4. QED
    BY <2>1, <2>2, <2>3, StepRefines, CallRefines DEF Next, vars
<1>3. QED
  BY <1>1, <1>2, Invariance, PTL DEF Spec, AL!AbsSafety

=============================================================================
