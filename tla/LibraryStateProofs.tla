------------------------- MODULE LibraryStateProofs -------------------------
(***************************************************************************)
(* Proofs about TsdKeys, Signals, ExitHandlers, TimedWait and PathLookup,  *)
(* which share no state, for any number of threads, keys, signals and      *)
(* functions, and any pre-opened directories and paths.                    *)
(***************************************************************************)
EXTENDS TsdKeys, Signals, ExitHandlers, TimedWait, PathLookup, SequenceTheorems, WellFoundedInduction, TLAPS

(***************************************************************************)
(* Thread-specific data.  A value that is stored belongs to the key that   *)
(* is in its slot now; and as long as a thread has stored nothing since    *)
(* its round began, the slots the round has gone through are empty.        *)
(***************************************************************************)

TsdCallOK ==
  call \in [TsdThreads -> [slot : Slots, val : Nat, dtor : [gen : Nat, dtor : BOOLEAN]]]

\* Values are of the key that exists.
OwnGeneration ==
  \A t \in TsdThreads : \A k \in Slots :
    tsdpc[t] # "done" /\ tsd[t][k] # 0 => tsd[t][k] = keys[k].gen

\* The slots of t that are known to be empty while it has stored nothing.
Passed(t, k) ==
  \/ tsdpc[t] \in {"run", "round"}
  \/ tsdpc[t] = "scan" /\ k < call[t].slot
  \/ tsdpc[t] = "dtor" /\ k <= call[t].slot

SweptSlots ==
  \A t \in TsdThreads : \A k \in Slots :
    ~tsdused[t] /\ Passed(t, k) => tsd[t][k] = 0

RoundsLeft ==
  \A t \in TsdThreads : tsdpc[t] \in {"scan", "dtor"} => round[t] < ITERATIONS

TsdIInv ==
  /\ TsdTypeOK /\ TsdCallOK
  /\ OwnGeneration /\ SweptSlots /\ RoundsLeft
  /\ TsdDestroyed

LEMMA TsdInitIInv == TsdInit => TsdIInv
BY TsdAssumption
DEF TsdAssumption, TsdInit, TsdIInv, TsdTypeOK, TsdCallOK, OwnGeneration, SweptSlots, RoundsLeft,
    TsdDestroyed, Slots, NoKey, NoCall

\* The step of the loop that goes on to the next slot, once this one is empty.
LEMMA TsdNextSlot ==
  ASSUME TsdIInv, NEW t \in TsdThreads, NextSlot(t), tsdpc[t] \in {"scan", "dtor"},
         UNCHANGED <<keys, nextkey, keygen, tsdused, stores>>,
         tsd' \in [TsdThreads -> [Slots -> Nat]],
         \A u \in TsdThreads \ {t} : tsd'[u] = tsd[u],
         \A k \in Slots : tsd'[t][k] \in {0, tsd[t][k]},
         \A k \in Slots : ~tsdused[t] /\ k <= call[t].slot => tsd'[t][k] = 0
  PROVE  TsdIInv'
<1>0. /\ call[t].slot \in Slots /\ 0 \in Slots /\ Slots \subseteq Nat
      /\ call[t].slot + 1 < KEYS_MAX => call[t].slot + 1 \in Slots
      /\ call[t].slot + 1 < KEYS_MAX \/ \A k \in Slots : k <= call[t].slot
  BY TsdAssumption DEF TsdIInv, TsdCallOK, TsdAssumption, Slots
<1>1. CASE call[t].slot + 1 < KEYS_MAX
  <2>1. /\ call' = [call EXCEPT ![t] = [NoCall EXCEPT !.slot = call[t].slot + 1]]
        /\ tsdpc' = [tsdpc EXCEPT ![t] = "scan"] /\ round' = round
    BY <1>1 DEF NextSlot
  <2>2. TsdTypeOK' /\ TsdCallOK'
    BY <1>0, <1>1, <2>1 DEF TsdIInv, TsdTypeOK, TsdCallOK, NoCall, NoKey
  <2>3. OwnGeneration' /\ RoundsLeft'
    BY <2>1 DEF TsdIInv, TsdTypeOK, OwnGeneration, RoundsLeft
  <2>4. call'[t].slot = call[t].slot + 1
    BY <2>1 DEF TsdIInv, TsdCallOK, NoCall
  <2>5. SweptSlots'
    BY <1>0, <2>1, <2>4 DEF TsdIInv, TsdTypeOK, TsdCallOK, SweptSlots, Passed
  <2>6. TsdDestroyed'
    BY <2>1 DEF TsdIInv, TsdTypeOK, TsdCallOK, TsdDestroyed
  <2> QED BY <2>2, <2>3, <2>5, <2>6 DEF TsdIInv
<1>2. CASE ~ (call[t].slot + 1 < KEYS_MAX)
  <2>1. /\ call' = [call EXCEPT ![t] = NoCall]
        /\ tsdpc' = [tsdpc EXCEPT ![t] = "round"]
        /\ round' = [round EXCEPT ![t] = @ + 1]
    BY <1>2 DEF NextSlot
  <2>2. TsdTypeOK' /\ TsdCallOK'
    <3>1. round[t] + 1 \in 0 .. ITERATIONS
      BY TsdAssumption DEF TsdAssumption, TsdIInv, TsdTypeOK, RoundsLeft
    <3> QED BY <1>0, <2>1, <3>1 DEF TsdIInv, TsdTypeOK, TsdCallOK, NoCall, NoKey
  <2>3. OwnGeneration' /\ RoundsLeft'
    BY <2>1 DEF TsdIInv, TsdTypeOK, OwnGeneration, RoundsLeft
  <2>4. \A k \in Slots : k <= call[t].slot
    BY <1>0, <1>2
  <2>5. SweptSlots'
    BY <1>0, <2>1, <2>4 DEF TsdIInv, TsdTypeOK, TsdCallOK, SweptSlots, Passed
  <2>6. TsdDestroyed'
    BY <2>1 DEF TsdIInv, TsdTypeOK, TsdCallOK, TsdDestroyed
  <2> QED BY <2>2, <2>3, <2>5, <2>6 DEF TsdIInv
<1> QED BY <1>1, <1>2

LEMMA TsdNextIInv == TsdIInv /\ [TsdNext]_tsdVars => TsdIInv'
<1> SUFFICES ASSUME TsdIInv, [TsdNext]_tsdVars PROVE TsdIInv'
  OBVIOUS
<1> USE TsdAssumption DEF TsdAssumption
<1>1. ASSUME NEW t \in TsdThreads, TsdExit(t) PROVE TsdIInv'
  BY <1>1
  DEF TsdExit, TsdIInv, TsdTypeOK, TsdCallOK, OwnGeneration, SweptSlots, Passed, RoundsLeft, TsdDestroyed
<1>2. ASSUME NEW t \in TsdThreads, DtorRound(t) PROVE TsdIInv'
  <2>1. CASE tsdused[t] /\ round[t] < ITERATIONS
    <3>1. /\ tsdused' = [tsdused EXCEPT ![t] = FALSE]
          /\ call' = [call EXCEPT ![t] = NoCall]
          /\ tsdpc' = [tsdpc EXCEPT ![t] = "scan"]
          /\ UNCHANGED <<keys, nextkey, keygen, tsd, round, stores>>
      BY <1>2, <2>1 DEF DtorRound
    <3>2. TsdTypeOK' /\ TsdCallOK'
      <4>1. 0 \in Slots
        BY DEF Slots
      <4> QED BY <3>1, <4>1 DEF TsdIInv, TsdTypeOK, TsdCallOK, NoCall, NoKey
    <3>3. call'[t].slot = 0 /\ \A k \in Slots : ~(k < 0)
      BY <3>1 DEF TsdIInv, TsdCallOK, NoCall, Slots
    <3>4. OwnGeneration' /\ RoundsLeft' /\ TsdDestroyed'
      BY <2>1, <3>1 DEF TsdIInv, TsdTypeOK, TsdCallOK, OwnGeneration, RoundsLeft, TsdDestroyed
    <3>5. SweptSlots'
      BY <3>1, <3>3 DEF TsdIInv, TsdTypeOK, TsdCallOK, SweptSlots, Passed
    <3> QED BY <3>2, <3>4, <3>5 DEF TsdIInv
  <2>2. CASE ~ (tsdused[t] /\ round[t] < ITERATIONS)
    <3>1. /\ tsdpc[t] = "round" /\ tsdpc' = [tsdpc EXCEPT ![t] = "done"]
          /\ UNCHANGED <<keys, nextkey, keygen, tsd, tsdused, call, round, stores>>
      BY <1>2, <2>2 DEF DtorRound
    <3>2. TsdTypeOK' /\ TsdCallOK' /\ OwnGeneration' /\ RoundsLeft' /\ SweptSlots'
      BY <3>1 DEF TsdIInv, TsdTypeOK, TsdCallOK, OwnGeneration, RoundsLeft, SweptSlots, Passed
    <3>3. TsdDestroyed'
      BY <2>2, <3>1 DEF TsdIInv, TsdTypeOK, TsdDestroyed, SweptSlots, Passed
    <3> QED BY <3>2, <3>3 DEF TsdIInv
  <2> QED BY <2>1, <2>2
<1>3. ASSUME NEW t \in TsdThreads, DtorScan(t) PROVE TsdIInv'
  <2> DEFINE k == call[t].slot
             val == tsd[t][k]
  <2>1. /\ tsdpc[t] = "scan" /\ tsd' = [tsd EXCEPT ![t][k] = 0]
        /\ UNCHANGED <<keys, nextkey, keygen, tsdused, stores>>
    BY <1>3 DEF DtorScan
  <2>2. /\ k \in Slots /\ tsd' \in [TsdThreads -> [Slots -> Nat]]
        /\ \A u \in TsdThreads \ {t} : tsd'[u] = tsd[u]
        /\ \A i \in Slots : tsd'[t][i] = IF i = k THEN 0 ELSE tsd[t][i]
    BY <2>1 DEF TsdIInv, TsdTypeOK, TsdCallOK
  <2>3. \A i \in Slots : ~tsdused[t] /\ i <= k => tsd'[t][i] = 0
    BY <2>1, <2>2 DEF TsdIInv, SweptSlots, Passed, Slots
  <2>4. CASE val # 0 /\ keys[k].dtor
    <3>1. /\ call' = [call EXCEPT ![t] = [slot |-> k, val |-> val, dtor |-> keys[k]]]
          /\ tsdpc' = [tsdpc EXCEPT ![t] = "dtor"] /\ round' = round
      BY <1>3, <2>4 DEF DtorScan
    <3>2. TsdTypeOK' /\ TsdCallOK'
      BY <2>1, <2>2, <3>1 DEF TsdIInv, TsdTypeOK, TsdCallOK
    <3>3. call'[t].slot = k /\ call'[t].val = val /\ call'[t].dtor = keys[k]
      BY <3>1 DEF TsdIInv, TsdCallOK
    <3>4. val = keys[k].gen
      BY <2>1, <2>2, <2>4 DEF TsdIInv, OwnGeneration
    <3>5. OwnGeneration' /\ RoundsLeft'
      BY <2>1, <2>2, <3>1 DEF TsdIInv, TsdTypeOK, OwnGeneration, RoundsLeft
    <3>6. SweptSlots'
      BY <2>1, <2>2, <2>3, <3>1, <3>3 DEF TsdIInv, TsdTypeOK, TsdCallOK, SweptSlots, Passed
    <3>7. TsdDestroyed'
      BY <2>1, <2>2, <3>1, <3>3, <3>4 DEF TsdIInv, TsdTypeOK, TsdCallOK, TsdDestroyed
    <3> QED BY <3>2, <3>5, <3>6, <3>7 DEF TsdIInv
  <2>5. CASE ~ (val # 0 /\ keys[k].dtor)
    <3>1. NextSlot(t)
      BY <1>3, <2>5 DEF DtorScan
    <3> QED BY <2>1, <2>2, <2>3, <3>1, TsdNextSlot
  <2> QED BY <2>4, <2>5
<1>4. ASSUME NEW t \in TsdThreads, DtorReturns(t) PROVE TsdIInv'
  <2>1. \A k \in Slots : ~tsdused[t] /\ k <= call[t].slot => tsd'[t][k] = 0
    BY <1>4 DEF DtorReturns, TsdIInv, SweptSlots, Passed
  <2> QED BY <1>4, <2>1, TsdNextSlot DEF DtorReturns, TsdIInv, TsdTypeOK
<1>5. ASSUME NEW t \in TsdThreads, NEW dtor \in BOOLEAN, KeyCreate(t, dtor) PROVE TsdIInv'
  <2>1. PICK k \in Slots : /\ FreeSlot(k) /\ nextkey' = k
                           /\ keys' = [keys EXCEPT ![k] = [gen |-> keygen + 1, dtor |-> dtor]]
    BY <1>5 DEF KeyCreate
  <2>2. keygen' = keygen + 1 /\ UNCHANGED <<tsd, tsdused, tsdpc, round, call, stores>>
    BY <1>5 DEF KeyCreate
  <2>3. \A u \in TsdThreads : tsdpc[u] # "done" => tsd[u][k] = 0
    BY <2>1 DEF FreeSlot, NoKey, TsdIInv, OwnGeneration
  <2>4. TsdTypeOK' /\ TsdCallOK'
    BY <2>1, <2>2 DEF TsdIInv, TsdTypeOK, TsdCallOK
  <2>5. OwnGeneration'
    BY <2>1, <2>2, <2>3 DEF TsdIInv, TsdTypeOK, OwnGeneration
  <2>6. SweptSlots' /\ RoundsLeft' /\ TsdDestroyed'
    BY <2>2 DEF TsdIInv, SweptSlots, Passed, RoundsLeft, TsdDestroyed
  <2> QED BY <2>4, <2>5, <2>6 DEF TsdIInv
<1>6. ASSUME NEW t \in TsdThreads, NEW k \in Slots, KeyDelete(t, k) PROVE TsdIInv'
  <2>1. /\ tsd' = [u \in TsdThreads |-> IF tsdpc[u] = "done" THEN tsd[u] ELSE [tsd[u] EXCEPT ![k] = 0]]
        /\ keys' = [keys EXCEPT ![k] = NoKey]
        /\ UNCHANGED <<nextkey, keygen, tsdused, tsdpc, round, call, stores>>
    BY <1>6 DEF KeyDelete
  <2>2. TsdTypeOK' /\ TsdCallOK'
    BY <2>1 DEF TsdIInv, TsdTypeOK, TsdCallOK, NoKey
  <2>3. \A u \in TsdThreads : \A i \in Slots :
           tsd'[u][i] = IF tsdpc[u] # "done" /\ i = k THEN 0 ELSE tsd[u][i]
    BY <2>1 DEF TsdIInv, TsdTypeOK
  <2>4. OwnGeneration'
    BY <2>1, <2>3 DEF TsdIInv, TsdTypeOK, OwnGeneration
  <2>5. SweptSlots' /\ RoundsLeft' /\ TsdDestroyed'
    BY <2>1, <2>3 DEF TsdIInv, SweptSlots, Passed, RoundsLeft, TsdDestroyed
  <2> QED BY <2>2, <2>4, <2>5 DEF TsdIInv
<1>7. ASSUME NEW t \in TsdThreads, NEW k \in Slots, NEW x \in {0, keys[k].gen}, SetSpecific(t, k, x)
      PROVE  TsdIInv'
  <2>1. /\ Running(t) /\ tsd' = [tsd EXCEPT ![t][k] = x] /\ stores[t] < MaxStores
        /\ tsdused' = [tsdused EXCEPT ![t] = TRUE] /\ stores' = [stores EXCEPT ![t] = @ + 1]
        /\ UNCHANGED <<keys, nextkey, keygen, tsdpc, round, call>>
    BY <1>7 DEF SetSpecific
  <2>2. x \in Nat
    BY DEF TsdIInv, TsdTypeOK
  <2>3. TsdTypeOK' /\ TsdCallOK'
    BY <2>1, <2>2 DEF TsdIInv, TsdTypeOK, TsdCallOK
  <2>4. \A u \in TsdThreads : \A i \in Slots :
           tsd'[u][i] = IF u = t /\ i = k THEN x ELSE tsd[u][i]
    BY <2>1 DEF TsdIInv, TsdTypeOK
  <2>5. OwnGeneration'
    BY <2>1, <2>4 DEF TsdIInv, TsdTypeOK, OwnGeneration
  <2>6. SweptSlots' /\ RoundsLeft' /\ TsdDestroyed'
    BY <2>1, <2>4 DEF Running, TsdIInv, TsdTypeOK, SweptSlots, Passed, RoundsLeft, TsdDestroyed
  <2> QED BY <2>3, <2>5, <2>6 DEF TsdIInv
<1>8. CASE UNCHANGED tsdVars
  BY <1>8
  DEF tsdVars, TsdIInv, TsdTypeOK, TsdCallOK, OwnGeneration, SweptSlots, Passed, RoundsLeft, TsdDestroyed
<1> QED
  BY <1>1, <1>2, <1>3, <1>4, <1>5, <1>6, <1>7, <1>8 DEF TsdNext

\* For any number of threads and keys: a destructor is called with a value of
\* its own key, although keys are deleted and created again meanwhile, and a
\* thread that ends before its last round leaves no value behind.
THEOREM TsdSafe == TsdSpec => []TsdDestroyed
<1>1. TsdIInv => TsdDestroyed
  BY DEF TsdIInv
<1> QED BY <1>1, TsdInitIInv, TsdNextIInv, PTL DEF TsdSpec

-----------------------------------------------------------------------------
(***************************************************************************)
(* Signals.  The mask the application chose outside handlers is the one    *)
(* the outermost frame will restore, and a host that lost the callback in  *)
(* a fork gets it back before the stretch of blocked signals ends.         *)
(***************************************************************************)

Frame == [sig : Sigs \cup {0}, saved : SUBSET Sigs]

MaskKept ==
  /\ frames = <<>> => sigmask = appmask
  /\ frames # <<>> => frames[1].saved = appmask

CallbackComesBack == ~registered => sigmode = "app" /\ Blocked /\ sent = {}

NothingHeldBack == Outside => sigpending \subseteq sigmask

SigIInv ==
  /\ SignalsTypeOK
  /\ MaskKept /\ CallbackComesBack /\ NothingHeldBack
  /\ SigOneShot

\* The signal __sig_deliver_pending picks is one of those it looks at.
LEMMA MinOfNaturals ==
  ASSUME NEW S, S \subseteq Nat, S # {}
  PROVE  Min(S) \in S /\ \A y \in S : Min(S) <= y
<1>1. PICK x \in S : \A y \in S : ~ (<<y, x>> \in OpToRel(<, Nat))
  BY NatLessThanWellFounded, WFMin, Zenon
<1>2. \A y \in S : ~(y < x)
  BY <1>1 DEF OpToRel
<1>3. \A y \in S : x <= y
  BY <1>2
<1> QED BY <1>3, Zenon DEF Min

LEMMA FrontOfSeq ==
  ASSUME NEW S, NEW q \in Seq(S), q # <<>>
  PROVE  /\ SubSeq(q, 1, Len(q) - 1) \in Seq(S)
         /\ Len(SubSeq(q, 1, Len(q) - 1)) = Len(q) - 1
         /\ \A i \in 1 .. Len(q) - 1 : SubSeq(q, 1, Len(q) - 1)[i] = q[i]
<1>1. Len(q) \in Nat \ {0} /\ \A i \in 1 .. Len(q) : q[i] \in S
  BY EmptySeq, ElementOfSeq
<1> DEFINE m == Len(q) - 1
<1>2. m \in Nat /\ \A i \in 1 .. m : q[i] \in S
  BY <1>1
<1> HIDE DEF m
<1> SUFFICES /\ SubSeq(q, 1, m) \in Seq(S) /\ Len(SubSeq(q, 1, m)) = m
             /\ \A i \in 1 .. m : SubSeq(q, 1, m)[i] = q[i]
  BY DEF m
<1>3. /\ SubSeq(q, 1, m) \in Seq(S)
      /\ Len(SubSeq(q, 1, m)) = IF 1 <= m THEN m - 1 + 1 ELSE 0
      /\ \A i \in 1 .. m - 1 + 1 : SubSeq(q, 1, m)[i] = q[1 + i - 1]
  BY <1>2, SubSeqProperties
<1>4. m - 1 + 1 = m /\ \A i \in 1 .. m : 1 + i - 1 = i
  BY <1>2
<1> QED BY <1>2, <1>3, <1>4

LEMMA PopFrame ==
  ASSUME frames \in Seq(Frame), frames # <<>>
  PROVE  /\ Pop \in Seq(Frame) /\ Top.saved \subseteq Sigs
         /\ Pop = <<>> => Top = frames[1]
         /\ Pop # <<>> => Pop[1] = frames[1]
<1>1. Len(frames) \in Nat \ {0} /\ \A i \in 1 .. Len(frames) : frames[i] \in Frame
  BY EmptySeq, ElementOfSeq
<1>2. /\ Pop \in Seq(Frame) /\ Len(Pop) = Len(frames) - 1
      /\ \A i \in 1 .. Len(frames) - 1 : Pop[i] = frames[i]
  BY FrontOfSeq DEF Pop
<1>3. Top \in Frame
  BY <1>1 DEF Top
<1>4. Pop = <<>> => Len(frames) = 1
  <2>1. Pop = <<>> => Len(Pop) = 0
    BY EmptySeq
  <2> QED BY <1>1, <1>2, <2>1
<1>5. Pop # <<>> => Len(Pop) \in Nat \ {0}
  BY <1>2, EmptySeq
<1>6. Pop # <<>> => Pop[1] = frames[1]
  BY <1>1, <1>2, <1>5
<1> QED BY <1>2, <1>3, <1>4, <1>6 DEF Top, Frame

LEMMA PushFrame ==
  ASSUME frames \in Seq(Frame), NEW f \in Frame
  PROVE  /\ Append(frames, f) \in Seq(Frame) /\ Append(frames, f) # <<>>
         /\ frames = <<>> => Append(frames, f)[1] = f
         /\ frames # <<>> => Append(frames, f)[1] = frames[1]
<1>1. Len(frames) \in Nat /\ (frames = <<>> => Len(frames) = 0) /\ (frames # <<>> => Len(frames) > 0)
  BY EmptySeq, LenProperties
<1> QED BY <1>1, AppendProperties

\* SigIInv when the frames, the mask and the mode stay, or a frame is pushed.
LEMMA DispatchIInv ==
  ASSUME SigIInv, NEW s \in Sigs, Dispatch(s), registered, sigpending' \subseteq Sigs, sent' \subseteq Sigs,
         UNCHANGED <<defaultset, registered, appmask>>
  PROVE  SigIInv'
<1> USE SignalsAssumption DEF SignalsAssumption
<1>1. disposition[s] \in Disposition /\ Default \in Disposition
  BY DEF SigIInv, SignalsTypeOK, Disposition, Default
<1>2. disposition' \in [Sigs -> Disposition]
  BY <1>1 DEF Dispatch, Reset, SigIInv, SignalsTypeOK
<1>3. frames \in Seq(Frame)
  BY DEF SigIInv, SignalsTypeOK, Frame
<1>4. CASE disposition[s].handler = "function"
  <2> DEFINE f == [sig |-> s, saved |-> sigmask]
  <2>1. /\ frames' = Append(frames, f)
        /\ sigmask' = sigmask \cup disposition[s].mask \cup (IF disposition[s].nodefer THEN {} ELSE {s})
        /\ runs' = [runs EXCEPT ![s] = @ + 1]
        /\ sigmode' = "app" /\ disposition' = Reset(s)
    BY <1>4 DEF Dispatch
  <2>2. f \in Frame /\ f.saved = sigmask
    BY DEF Frame, SigIInv, SignalsTypeOK
  <2>3. sigmask' \subseteq Sigs
    BY <1>1, <2>1 DEF Disposition, SigIInv, SignalsTypeOK
  <2>4. frames' \in Seq(Frame) /\ frames' # <<>> /\ frames'[1].saved = appmask
    BY <1>3, <2>1, <2>2, PushFrame DEF SigIInv, MaskKept
  <2>5. SignalsTypeOK'
    BY <1>2, <2>1, <2>3, <2>4 DEF SigIInv, SignalsTypeOK, Frame
  <2>6. MaskKept' /\ CallbackComesBack' /\ NothingHeldBack'
    BY <2>4 DEF MaskKept, CallbackComesBack, NothingHeldBack, Outside
  <2>7. SigOneShot'
    <3>1. CASE disposition[s].resethand
      <4>1. disposition' = [disposition EXCEPT ![s] = Default]
        BY <1>4, <2>1, <3>1 DEF Reset
      <4> QED BY <2>1, <4>1 DEF SigIInv, SigOneShot, SignalsTypeOK, Default
    <3>2. CASE ~disposition[s].resethand
      <4>1. disposition' = disposition
        BY <2>1, <3>2 DEF Reset
      <4> QED BY <2>1, <3>2, <4>1 DEF SigIInv, SigOneShot, SignalsTypeOK
    <3> QED BY <3>1, <3>2
  <2> QED BY <2>5, <2>6, <2>7 DEF SigIInv
<1>5. CASE disposition[s].handler # "function"
  <2>1. /\ UNCHANGED <<frames, sigmask, runs>> /\ sigmode' \in {"deliver", "trapped", "dead"}
        /\ disposition' = Reset(s)
    BY <1>5 DEF Dispatch
  <2>2. SignalsTypeOK'
    BY <1>2, <2>1 DEF SigIInv, SignalsTypeOK
  <2>3. MaskKept' /\ CallbackComesBack' /\ NothingHeldBack'
    BY <2>1 DEF SigIInv, MaskKept, CallbackComesBack, NothingHeldBack, Outside
  <2>4. SigOneShot'
    BY <2>1 DEF Reset, Default, SigIInv, SigOneShot, SignalsTypeOK
  <2> QED BY <2>2, <2>3, <2>4 DEF SigIInv
<1> QED BY <1>4, <1>5

\* A frame is taken off and its mask restored: HandlerReturn and RestoreSigs.
LEMMA PopIInv ==
  ASSUME SigIInv, frames # <<>>, registered, sigmask' = Top.saved, frames' = Pop, sigmode' = "deliver",
         UNCHANGED <<sigpending, disposition, defaultset, registered, sent, sigHistory>>
  PROVE  SigIInv'
<1>1. frames \in Seq(Frame)
  BY DEF SigIInv, SignalsTypeOK, Frame
<1>2. /\ frames' \in Seq(Frame) /\ sigmask' \subseteq Sigs
      /\ frames' = <<>> => sigmask' = frames[1].saved
      /\ frames' # <<>> => frames'[1] = frames[1]
  BY <1>1, PopFrame
<1>3. SignalsTypeOK'
  BY <1>2 DEF SigIInv, SignalsTypeOK, sigHistory, Frame
<1>4. MaskKept' /\ CallbackComesBack' /\ NothingHeldBack' /\ SigOneShot'
  BY <1>2 DEF SigIInv, MaskKept, CallbackComesBack, NothingHeldBack, SigOneShot, Outside, sigHistory
<1> QED BY <1>3, <1>4 DEF SigIInv

LEMMA SigNextIInv == SigIInv /\ [SignalsNext]_sigVars => SigIInv'
<1> SUFFICES ASSUME SigIInv, [SignalsNext]_sigVars PROVE SigIInv'
  OBVIOUS
<1> USE SignalsAssumption DEF SignalsAssumption
<1>1. CASE HandlerReturn
  <2>1. registered
    BY <1>1 DEF HandlerReturn, InApp, SigIInv, CallbackComesBack, SignalsTypeOK
  <2> QED BY <1>1, <2>1, PopIInv DEF HandlerReturn
<1>2. CASE RestoreSigs
  BY <1>2, PopIInv DEF RestoreSigs, Blocked
<1>3. CASE DeliverPending
  <2>1. CASE sigpending \subseteq sigmask
    BY <1>3, <2>1
    DEF DeliverPending, SigIInv, SignalsTypeOK, MaskKept, CallbackComesBack, NothingHeldBack, SigOneShot
  <2>2. CASE ~(sigpending \subseteq sigmask)
    <3> DEFINE s == Min(sigpending \ sigmask)
    <3>1. s \in sigpending \ sigmask
      BY <2>2, MinOfNaturals DEF SigIInv, SignalsTypeOK
    <3>2. /\ sigpending' = sigpending \ {s} /\ Dispatch(s)
          /\ UNCHANGED <<defaultset, registered, sent, appmask>>
      BY <1>3, <2>2 DEF DeliverPending
    <3>3. registered
      BY <1>3 DEF DeliverPending, SigIInv, CallbackComesBack
    <3> HIDE DEF s
    <3> QED BY <3>1, <3>2, <3>3, DispatchIInv DEF SigIInv, SignalsTypeOK
  <2> QED BY <2>1, <2>2
<1>4. ASSUME NEW s \in Sigs, WasmSignal(s) PROVE SigIInv'
  <2>1. registered
    BY <1>4 DEF WasmSignal, SigIInv, CallbackComesBack
  <2>2. CASE s \in sigmask
    <3>1. /\ sigpending' = sigpending \cup {s} /\ sent' = sent \ {s}
          /\ UNCHANGED <<sigmask, disposition, frames, sigmode, runs, defaultset, registered, appmask>>
      BY <1>4, <2>2 DEF WasmSignal
    <3>2. SignalsTypeOK'
      BY <3>1 DEF SigIInv, SignalsTypeOK
    <3>3. MaskKept' /\ CallbackComesBack' /\ NothingHeldBack' /\ SigOneShot'
      BY <2>1, <2>2, <3>1
      DEF SigIInv, MaskKept, CallbackComesBack, NothingHeldBack, SigOneShot, Outside
    <3> QED BY <3>2, <3>3 DEF SigIInv
  <2>3. CASE s \notin sigmask
    BY <1>4, <2>1, <2>3, DispatchIInv DEF WasmSignal, SigIInv, SignalsTypeOK
  <2> QED BY <2>2, <2>3
<1>5. ASSUME NEW s \in Sigs, SendSignal(s) PROVE SigIInv'
  BY <1>5
  DEF SendSignal, SigIInv, SignalsTypeOK, MaskKept, CallbackComesBack, Blocked, Top, NothingHeldBack, SigOneShot, Outside
<1>6. ASSUME NEW s \in Sigs, NEW a \in SigActions, Sigaction(s, a) PROVE SigIInv'
  <2>1. a \in Disposition
    OBVIOUS
  <2>2. SignalsTypeOK'
    BY <1>6, <2>1 DEF Sigaction, SigIInv, SignalsTypeOK
  <2>3. MaskKept' /\ CallbackComesBack' /\ NothingHeldBack'
    BY <1>6 DEF Sigaction, SigIInv, MaskKept, CallbackComesBack, Blocked, Top, NothingHeldBack, Outside
  <2>4. SigOneShot'
    BY <1>6 DEF Sigaction, SigIInv, SignalsTypeOK, SigOneShot
  <2> QED BY <2>2, <2>3, <2>4 DEF SigIInv
<1>7. ASSUME NEW how \in {"SIG_BLOCK", "SIG_UNBLOCK", "SIG_SETMASK"}, NEW m \in SigMasks,
             PthreadSigmask(how, m)
      PROVE  SigIInv'
  <2>1. /\ InApp /\ sigmask' = NextMask(how, m) /\ appmask' = IF frames = <<>> THEN sigmask' ELSE appmask
        /\ sigmode' = IF how = "SIG_BLOCK" THEN "app" ELSE "deliver"
        /\ UNCHANGED <<sigpending, disposition, defaultset, registered, sent, frames, runs>>
    BY <1>7 DEF PthreadSigmask
  <2>2. sigmask' \subseteq Sigs /\ (how = "SIG_BLOCK" => sigmask \subseteq sigmask')
    BY <2>1 DEF NextMask, SigIInv, SignalsTypeOK
  <2>3. SignalsTypeOK'
    BY <2>1, <2>2 DEF SigIInv, SignalsTypeOK
  <2>4. MaskKept' /\ CallbackComesBack' /\ NothingHeldBack' /\ SigOneShot'
    BY <2>1, <2>2 DEF SigIInv, InApp, MaskKept, CallbackComesBack, NothingHeldBack, SigOneShot, Outside
  <2> QED BY <2>3, <2>4 DEF SigIInv
<1>8. CASE BlockAllSigs
  <2> DEFINE f == [sig |-> 0, saved |-> sigmask]
  <2>1. /\ InApp /\ frames' = Append(frames, f) /\ sigmask' = Sigs
        /\ UNCHANGED <<sigpending, disposition, defaultset, registered, sent, sigmode, sigHistory>>
    BY <1>8 DEF BlockAllSigs
  <2>2. f \in Frame /\ f.saved = sigmask /\ frames \in Seq(Frame)
    BY DEF Frame, SigIInv, SignalsTypeOK
  <2>3. frames' \in Seq(Frame) /\ frames' # <<>> /\ frames'[1].saved = appmask
    BY <2>1, <2>2, PushFrame DEF SigIInv, MaskKept
  <2>4. SignalsTypeOK'
    BY <2>1, <2>3 DEF SigIInv, SignalsTypeOK, Frame, sigHistory
  <2>5. MaskKept' /\ CallbackComesBack' /\ NothingHeldBack' /\ SigOneShot'
    BY <2>1, <2>3
    DEF SigIInv, InApp, MaskKept, CallbackComesBack, NothingHeldBack, SigOneShot, Outside, sigHistory
  <2> QED BY <2>4, <2>5 DEF SigIInv
<1>9. CASE HostFork \/ ForkChild \/ UNCHANGED sigVars
  <2>1. SignalsTypeOK' /\ SigOneShot'
    BY <1>9 DEF HostFork, ForkChild, sigVars, sigState, sigHistory, SigIInv, SignalsTypeOK, SigOneShot
  <2>2. MaskKept' /\ CallbackComesBack' /\ NothingHeldBack'
    BY <1>9 DEF HostFork, ForkChild, sigVars, sigState, sigHistory, SigIInv, MaskKept, CallbackComesBack,
                Blocked, Top, NothingHeldBack, Outside
  <2> QED BY <2>1, <2>2 DEF SigIInv
<1> QED
  BY <1>1, <1>2, <1>3, <1>4, <1>5, <1>6, <1>7, <1>8, <1>9 DEF SignalsNext

THEOREM SigInvariance == SignalsSpec => []SigIInv
<1>1. SignalsInit => SigIInv
  <2> SUFFICES ASSUME SignalsInit PROVE SigIInv
    OBVIOUS
  <2> USE SignalsAssumption DEF SignalsAssumption
  <2>1. Default \in Disposition
    BY DEF Default, Disposition
  <2>2. SignalsTypeOK
    BY <2>1, EmptySeq DEF SignalsInit, SignalsTypeOK
  <2> QED BY <2>2
    DEF SignalsInit, SigIInv, MaskKept, CallbackComesBack, NothingHeldBack, SigOneShot, Default
<1> QED BY <1>1, SigNextIInv, PTL DEF SignalsSpec

\* For any set of signals and any nesting of handlers, blocked stretches of the
\* library and forks: when the application goes on outside handlers nothing it
\* does not block is pending, its mask is its own and the host has the callback.
THEOREM SigSettledAlways == SignalsSpec => []SigSettled
<1>1. SigIInv => SigSettled
  BY DEF SigIInv, SignalsTypeOK, MaskKept, CallbackComesBack, Blocked, NothingHeldBack, Outside, SigSettled
<1> QED BY <1>1, SigInvariance, PTL

\* A handler installed with SA_RESETHAND runs at most once.
THEOREM SigOneShotAlways == SignalsSpec => []SigOneShot
<1>1. SigIInv => SigOneShot
  BY DEF SigIInv
<1> QED BY <1>1, SigInvariance, PTL

-----------------------------------------------------------------------------
(***************************************************************************)
(* Exit handlers.  The functions in the blocks are those that are pending, *)
(* the one at place o of the block that has n blocks behind it being the   *)
(* one registered as number n * COUNT + o of those still to run.           *)
(***************************************************************************)

Base(n) == n * COUNT
Places == 0 .. COUNT - 1
ExitBlocks == [Places -> Nat]

\* The blocks bs, filled up to place sl of the first one, hold q.
HoldsInOrder(bs, sl, q) ==
  /\ bs = <<>> => q = <<>>
  /\ bs # <<>> => Len(q) = Base(Len(bs) - 1) + sl
  /\ \A b \in 1 .. Len(bs) : \A o \in Places :
       b > 1 \/ o < sl => bs[b][o] = q[Base(Len(bs) - b) + o + 1]

ExitIInv ==
  /\ blocks \in Seq(ExitBlocks) /\ slot \in 0 .. COUNT
  /\ quick \in Seq(Nat) /\ pending \in [exit : Seq(Nat), quick : Seq(Nat)]
  /\ funcs \in Nat
  /\ exitpc \in {"main", "exit", "func", "quick", "quickfunc", "ended", "quickended"}
  /\ blocks = <<>> => slot = 0 \/ exitpc \in {"exit", "ended"}
  /\ HoldsInOrder(blocks, slot, pending.exit)
  /\ quick = pending.quick
  /\ ExitOrder

LEMMA BaseArithmetic ==
  /\ Base(0) = 0
  /\ \A n \in Nat : Base(n) \in Nat /\ Base(n + 1) = Base(n) + COUNT
  /\ \A a, b \in Nat : a < b => Base(a) + COUNT <= Base(b)
<1> USE ExitAssumption DEF ExitAssumption, Base
<1>1. Base(0) = 0
  OBVIOUS
<1>2. ASSUME NEW n \in Nat PROVE Base(n) \in Nat /\ Base(n + 1) = Base(n) + COUNT
  OBVIOUS
<1>3. ASSUME NEW a \in Nat, NEW b \in Nat, a < b PROVE Base(a) + COUNT <= Base(b)
  <2>1. PICK d \in Nat : b = a + 1 + d
    <3>1. b - a - 1 \in Nat /\ b = a + 1 + (b - a - 1)
      BY <1>3
    <3> QED BY <3>1
  <2>2. b * COUNT = a * COUNT + COUNT + d * COUNT
    BY <2>1
  <2>3. d * COUNT >= 0 /\ d * COUNT \in Nat /\ a * COUNT \in Nat
    OBVIOUS
  <2> QED BY <2>2, <2>3
<1> QED BY <1>1, <1>2, <1>3

\* The place of a function of a block behind the first, and of one in it.
LEMMA PlaceArithmetic ==
  ASSUME NEW x \in Nat, NEW y \in Nat, NEW o \in Nat, NEW m \in Nat, NEW l, l = y + m
  PROVE  /\ o < COUNT /\ x + COUNT <= y => x + o + 1 \in 1 .. l
         /\ o < m => y + o + 1 \in 1 .. l
BY ExitAssumption DEF ExitAssumption

LEMMA BlockTyped == Block \in ExitBlocks
BY DEF Block, ExitBlocks, Places, NoFunc

\* __cxa_atexit stores at the next place.
LEMMA StoreFunc ==
  ASSUME NEW bs \in Seq(ExitBlocks), bs # <<>>, NEW sl \in Places, NEW q \in Seq(Nat), NEW f \in Nat,
         HoldsInOrder(bs, sl, q)
  PROVE  /\ [bs EXCEPT ![1][sl] = f] \in Seq(ExitBlocks)
         /\ [bs EXCEPT ![1][sl] = f] # <<>>
         /\ HoldsInOrder([bs EXCEPT ![1][sl] = f], sl + 1, Append(q, f))
<1> DEFINE r == [bs[1] EXCEPT ![sl] = f]
           c == [bs EXCEPT ![1] = r]
<1>1. Len(bs) \in Nat \ {0} /\ \A b \in 1 .. Len(bs) : bs[b] \in ExitBlocks
  BY EmptySeq, ElementOfSeq
<1>2. 1 \in 1 .. Len(bs) /\ r \in ExitBlocks
  BY <1>1 DEF ExitBlocks
<1>3. /\ c \in Seq(ExitBlocks) /\ Len(c) = Len(bs)
      /\ \A b \in 1 .. Len(bs) : c[b] = IF b = 1 THEN r ELSE bs[b]
  BY <1>2, ExceptSeq
<1>4. c = [bs EXCEPT ![1][sl] = f]
  BY <1>1
<1>5. c # <<>>
  BY <1>1, <1>3, EmptySeq
<1>6. /\ Append(q, f) \in Seq(Nat) /\ Len(Append(q, f)) = Len(q) + 1
      /\ \A i \in 1 .. Len(q) : Append(q, f)[i] = q[i]
      /\ Append(q, f)[Len(q) + 1] = f
  BY AppendProperties
<1>7. Len(q) \in Nat /\ Len(q) = Base(Len(bs) - 1) + sl
  BY LenProperties DEF HoldsInOrder
<1>b. Base(Len(bs) - 1) \in Nat
  <2>1. Len(bs) - 1 \in Nat
    BY <1>1
  <2> QED BY <2>1, BaseArithmetic
<1>8. Places \subseteq Nat /\ \A o \in Places : o < COUNT
  BY ExitAssumption DEF Places, ExitAssumption
<1>9. ASSUME NEW b \in 1 .. Len(bs), NEW o \in Places, b > 1 \/ o < sl + 1
      PROVE  c[b][o] = Append(q, f)[Base(Len(bs) - b) + o + 1]
  <2>1. CASE b > 1
    <3>1. c[b] = bs[b] /\ bs[b][o] = q[Base(Len(bs) - b) + o + 1]
      BY <1>3, <2>1 DEF HoldsInOrder
    <3>2. Len(bs) - b \in Nat /\ Len(bs) - 1 \in Nat /\ Len(bs) - b < Len(bs) - 1
      BY <1>1, <2>1
    <3>3. /\ Base(Len(bs) - b) \in Nat /\ Base(Len(bs) - 1) \in Nat
          /\ Base(Len(bs) - b) + COUNT <= Base(Len(bs) - 1)
      BY <3>2, BaseArithmetic
    <3>4. Base(Len(bs) - b) + o + 1 \in 1 .. Len(q)
      BY <3>3, <1>7, <1>8, PlaceArithmetic
    <3> QED BY <3>1, <3>4, <1>6
  <2>2. CASE b = 1 /\ o < sl
    <3>1. Base(Len(bs) - b) + o + 1 \in 1 .. Len(q)
      BY <1>b, <2>2, <1>7, <1>8, PlaceArithmetic
    <3>2. bs[b][o] = q[Base(Len(bs) - b) + o + 1]
      BY <2>2 DEF HoldsInOrder
    <3>3. c[b] = r /\ o # sl
      BY <1>3, <1>8, <2>2
    <3>4. r[o] = bs[1][o]
      BY <1>1, <1>2, <3>3 DEF ExitBlocks
    <3> HIDE DEF r, c
    <3> QED BY <2>2, <3>1, <3>2, <3>3, <3>4, <1>6
  <2>3. CASE b = 1 /\ o = sl
    <3>1. c[b][o] = f
      BY <1>1, <1>2, <1>3, <2>3 DEF ExitBlocks
    <3> HIDE DEF r, c
    <3> QED BY <3>1, <2>3, <1>6, <1>7
  <2>4. b > 1 \/ (b = 1 /\ o < sl) \/ (b = 1 /\ o = sl)
    BY <1>1, <1>8, <1>9
  <2> HIDE DEF r, c
  <2> QED BY <2>1, <2>2, <2>3, <2>4
<1>10. HoldsInOrder(c, sl + 1, Append(q, f))
  <2>1. Len(Append(q, f)) = Base(Len(c) - 1) + (sl + 1)
    BY <1>b, <1>3, <1>6, <1>7, <1>8
  <2> HIDE DEF r, c
  <2>2. Len(c) = Len(bs)
    BY <1>3
  <2>3. \A b \in 1 .. Len(c) : \A o \in Places :
           b > 1 \/ o < sl + 1 => c[b][o] = Append(q, f)[Base(Len(c) - b) + o + 1]
    BY <1>9, <2>2, Zenon
  <2> QED BY <1>5, <2>1, <2>3, Zenon DEF HoldsInOrder
<1> QED BY <1>3, <1>4, <1>5, <1>10

\* The builtin block, and a new one in front of blocks that are full.
LEMMA NewBlock ==
  ASSUME NEW bs \in Seq(ExitBlocks), NEW q \in Seq(Nat),
         bs = <<>> \/ HoldsInOrder(bs, COUNT, q), bs = <<>> => q = <<>>
  PROVE  /\ <<Block>> \o bs \in Seq(ExitBlocks) /\ <<Block>> \o bs # <<>>
         /\ HoldsInOrder(<<Block>> \o bs, 0, q)
<1> DEFINE c == <<Block>> \o bs
<1>1. <<Block>> \in Seq(ExitBlocks) /\ Len(<<Block>>) = 1
  BY BlockTyped
<1>2. /\ c \in Seq(ExitBlocks) /\ Len(c) = 1 + Len(bs)
      /\ \A i \in 1 .. 1 + Len(bs) : c[i] = IF i <= 1 THEN <<Block>>[i] ELSE bs[i - 1]
  BY <1>1, ConcatProperties
<1>3. Len(bs) \in Nat /\ (bs # <<>> => Len(bs) > 0) /\ (bs = <<>> => Len(bs) = 0)
  BY EmptySeq, LenProperties
<1>4. c # <<>>
  BY <1>2, <1>3, EmptySeq
<1>5. Len(q) = Base(Len(c) - 1)
  <2>1. CASE bs = <<>>
    BY <1>2, <1>3, <2>1, BaseArithmetic, EmptySeq
  <2>2. CASE bs # <<>>
    <3>1. Len(bs) - 1 \in Nat /\ (Len(bs) - 1) + 1 = Len(bs) /\ Len(c) - 1 = Len(bs)
      BY <1>2, <1>3, <2>2
    <3>2. Base(Len(bs)) = Base(Len(bs) - 1) + COUNT
      BY <3>1, BaseArithmetic
    <3> QED BY <2>2, <3>1, <3>2 DEF HoldsInOrder
  <2> QED BY <2>1, <2>2
<1>6. ASSUME NEW b \in 1 .. Len(c), NEW o \in Places, b > 1 \/ o < 0
      PROVE  c[b][o] = q[Base(Len(c) - b) + o + 1]
  <2>1. b > 1 /\ o >= 0 /\ o < COUNT
    BY <1>6, ExitAssumption DEF ExitAssumption, Places
  <2>2. b - 1 \in 1 .. Len(bs) /\ c[b] = bs[b - 1] /\ Len(c) - b = Len(bs) - (b - 1) /\ bs # <<>>
    BY <1>2, <1>3, <2>1
  <2>3. bs[b - 1][o] = q[Base(Len(bs) - (b - 1)) + o + 1]
    BY <2>1, <2>2 DEF HoldsInOrder
  <2> QED BY <2>2, <2>3
<1>7. HoldsInOrder(c, 0, q)
  <2>1. Base(Len(c) - 1) + 0 = Base(Len(c) - 1)
    <3>1. Len(c) - 1 \in Nat
      BY <1>2, <1>3
    <3>2. Base(Len(c) - 1) \in Nat
      BY <3>1, BaseArithmetic
    <3> QED BY <3>2
  <2> HIDE DEF c
  <2> QED BY <1>4, <1>5, <1>6, <2>1 DEF HoldsInOrder
<1> QED BY <1>2, <1>4, <1>7

\* exit takes the newest function, ...
LEMMA TakeFunc ==
  ASSUME NEW bs \in Seq(ExitBlocks), bs # <<>>, NEW sl \in 0 .. COUNT, sl > 0, NEW q \in Seq(Nat),
         HoldsInOrder(bs, sl, q)
  PROVE  /\ q # <<>> /\ bs[1][sl - 1] = q[Len(q)]
         /\ Front(q) \in Seq(Nat) /\ HoldsInOrder(bs, sl - 1, Front(q))
<1>1. Len(bs) \in Nat \ {0}
  BY EmptySeq
<1>2. Len(q) \in Nat /\ Len(q) = Base(Len(bs) - 1) + sl
  BY LenProperties DEF HoldsInOrder
<1>3. Len(bs) - 1 \in Nat /\ Base(Len(bs) - 1) \in Nat
  <2>1. Len(bs) - 1 \in Nat
    BY <1>1
  <2> QED BY <2>1, BaseArithmetic
<1>4. q # <<>>
  BY <1>2, <1>3, EmptySeq
<1>5. Front(q) \in Seq(Nat) /\ Len(Front(q)) = Len(q) - 1 /\ \A i \in 1 .. Len(q) - 1 : Front(q)[i] = q[i]
  BY <1>4, FrontOfSeq DEF Front
<1>6. Places \subseteq Nat /\ sl - 1 \in Places /\ sl - 1 < sl /\ 1 \in 1 .. Len(bs) /\ \A o \in Places : o < COUNT
  BY <1>1, ExitAssumption DEF Places, ExitAssumption
<1>7. bs[1][sl - 1] = q[Len(q)]
  <2>1. bs[1][sl - 1] = q[Base(Len(bs) - 1) + (sl - 1) + 1]
    BY <1>6 DEF HoldsInOrder
  <2>2. Base(Len(bs) - 1) + (sl - 1) + 1 = Len(q)
    BY <1>2, <1>3
  <2> QED BY <2>1, <2>2
<1>8. ASSUME NEW b \in 1 .. Len(bs), NEW o \in Places, b > 1 \/ o < sl - 1
      PROVE  bs[b][o] = Front(q)[Base(Len(bs) - b) + o + 1]
  <2>0. o \in Nat /\ o < COUNT /\ sl - 1 \in Nat /\ Len(q) - 1 = Base(Len(bs) - 1) + (sl - 1)
    BY <1>2, <1>3, <1>6
  <2>1. bs[b][o] = q[Base(Len(bs) - b) + o + 1]
    <3>1. b > 1 \/ o < sl
      BY <1>6, <1>8
    <3> QED BY <3>1 DEF HoldsInOrder
  <2>2. Base(Len(bs) - b) + o + 1 \in 1 .. Len(q) - 1
    <3>1. CASE b > 1
      <4>1. Len(bs) - b \in Nat /\ Len(bs) - b < Len(bs) - 1
        BY <1>1, <3>1
      <4>2. Base(Len(bs) - b) \in Nat /\ Base(Len(bs) - b) + COUNT <= Base(Len(bs) - 1)
        BY <1>3, <4>1, BaseArithmetic
      <4> QED BY <4>2, <1>3, <1>6, <2>0, PlaceArithmetic
    <3>2. CASE b = 1 /\ o < sl - 1
      BY <3>2, <1>3, <1>6, <2>0, PlaceArithmetic
    <3> QED BY <1>8, <3>1, <3>2
  <2> QED BY <2>1, <2>2, <1>5
<1>9. Len(Front(q)) = Base(Len(bs) - 1) + (sl - 1)
  BY <1>2, <1>3, <1>5
<1> QED BY <1>4, <1>5, <1>7, <1>8, <1>9 DEF HoldsInOrder

\* ... and leaves a block that is done; the one behind it is full.
LEMMA DropBlock ==
  ASSUME NEW bs \in Seq(ExitBlocks), bs # <<>>, NEW q \in Seq(Nat), HoldsInOrder(bs, 0, q)
  PROVE  Tail(bs) \in Seq(ExitBlocks) /\ HoldsInOrder(Tail(bs), COUNT, q)
<1> DEFINE c == Tail(bs)
<1>1. Len(bs) \in Nat \ {0}
  BY EmptySeq
<1>2. c \in Seq(ExitBlocks) /\ Len(c) = Len(bs) - 1 /\ \A i \in 1 .. Len(c) : c[i] = bs[i + 1]
  BY HeadTailProperties
<1>3. Len(q) = Base(Len(bs) - 1)
  <2>1. Len(bs) - 1 \in Nat
    BY <1>1
  <2> QED BY <2>1, BaseArithmetic DEF HoldsInOrder
<1>4. c = <<>> => q = <<>>
  <2>1. ASSUME c = <<>> PROVE Len(q) = 0
    <3>1. Len(c) = 0
      BY <2>1, EmptySeq
    <3> QED BY <1>2, <1>3, <3>1, BaseArithmetic
  <2> QED BY <2>1, EmptySeq
<1>5. c # <<>> => Len(q) = Base(Len(c) - 1) + COUNT
  <2>1. c # <<>> => Len(c) - 1 \in Nat /\ (Len(c) - 1) + 1 = Len(bs) - 1
    BY <1>1, <1>2, EmptySeq
  <2> QED BY <1>3, <2>1, BaseArithmetic
<1>6. ASSUME NEW b \in 1 .. Len(c), NEW o \in Places
      PROVE  c[b][o] = q[Base(Len(c) - b) + o + 1]
  <2>1. b + 1 \in 1 .. Len(bs) /\ b + 1 > 1 /\ c[b] = bs[b + 1] /\ Len(bs) - (b + 1) = Len(c) - b
    BY <1>1, <1>2
  <2>2. bs[b + 1][o] = q[Base(Len(bs) - (b + 1)) + o + 1]
    BY <2>1 DEF HoldsInOrder
  <2> QED BY <2>1, <2>2
<1> HIDE DEF c
<1>7. HoldsInOrder(c, COUNT, q)
  BY <1>4, <1>5, <1>6 DEF HoldsInOrder
<1> QED BY <1>2, <1>7 DEF c

LEMMA CxaAtexitIInv == ExitIInv /\ CxaAtexit => ExitIInv'
<1> SUFFICES ASSUME ExitIInv, CxaAtexit PROVE ExitIInv'
  OBVIOUS
<1> USE ExitAssumption DEF ExitAssumption
<1> DEFINE list == IF blocks = <<>> THEN <<Block>> ELSE blocks
           base == IF slot = COUNT THEN <<Block>> \o list ELSE list
           place == IF slot = COUNT THEN 0 ELSE slot
           f == funcs + 1
           q == pending.exit
<1>1. /\ InProgram /\ blocks' = [base EXCEPT ![1][place] = f] /\ slot' = place + 1
      /\ pending' = [pending EXCEPT !.exit = Append(@, f)] /\ funcs' = f
      /\ UNCHANGED <<quick, exitpc, ran>>
  BY DEF CxaAtexit
<1>2. blocks \in Seq(ExitBlocks) /\ q \in Seq(Nat) /\ HoldsInOrder(blocks, slot, q) /\ f \in Nat /\ slot \in 0 .. COUNT
  BY DEF ExitIInv
<1>3. place \in Places /\ place + 1 \in 0 .. COUNT
  BY <1>2 DEF Places
<1>4. base \in Seq(ExitBlocks) /\ base # <<>> /\ HoldsInOrder(base, place, q)
  <2>1. CASE blocks = <<>>
    <3>1. slot = 0 /\ slot # COUNT
      BY <1>1, <2>1 DEF ExitIInv, InProgram
    <3>2. base = <<Block>> \o blocks /\ place = 0
      BY <2>1, <3>1
    <3>3. q = <<>>
      BY <1>2, <2>1 DEF HoldsInOrder
    <3> HIDE DEF base, q
    <3> QED BY <1>2, <2>1, <3>2, <3>3, NewBlock
  <2>2. CASE blocks # <<>> /\ slot = COUNT
    <3>1. base = <<Block>> \o blocks /\ place = 0
      BY <2>2
    <3> HIDE DEF base, q
    <3> QED BY <1>2, <2>2, <3>1, NewBlock
  <2>3. CASE blocks # <<>> /\ slot # COUNT
    BY <1>2, <2>3
  <2> QED BY <2>1, <2>2, <2>3
<1>5. pending' \in [exit : Seq(Nat), quick : Seq(Nat)] /\ pending'.exit = Append(q, f) /\ pending'.quick = pending.quick
  BY <1>1, <1>2, AppendProperties DEF ExitIInv
<1> HIDE DEF base, place, f, q
<1>6. blocks' \in Seq(ExitBlocks) /\ blocks' # <<>> /\ HoldsInOrder(blocks', slot', pending'.exit)
  BY <1>1, <1>2, <1>3, <1>4, <1>5, StoreFunc
<1>7. ExitOrder'
  BY <1>1 DEF ExitIInv, ExitOrder, InProgram
<1> QED BY <1>1, <1>2, <1>3, <1>5, <1>6, <1>7 DEF ExitIInv

LEMMA FuncsOnExitIInv == ExitIInv /\ FuncsOnExit => ExitIInv'
<1> SUFFICES ASSUME ExitIInv, FuncsOnExit PROVE ExitIInv'
  OBVIOUS
<1> USE ExitAssumption DEF ExitAssumption
<1> DEFINE q == pending.exit
<1>1. blocks \in Seq(ExitBlocks) /\ q \in Seq(Nat) /\ HoldsInOrder(blocks, slot, q) /\ slot \in 0 .. COUNT
  BY DEF ExitIInv
<1>2. CASE blocks = <<>>
  BY <1>1, <1>2 DEF FuncsOnExit, ExitIInv, ExitOrder, HoldsInOrder
<1>3. CASE blocks # <<>> /\ slot > 0
  <2>1. /\ slot' = slot - 1 /\ exitpc' = "func"
        /\ ran' = [func |-> blocks[1][slot - 1], due |-> Due(q)]
        /\ pending' = [pending EXCEPT !.exit = Rest(@)]
        /\ UNCHANGED <<blocks, quick, funcs>>
    BY <1>3 DEF FuncsOnExit
  <2>2. /\ q # <<>> /\ blocks[1][slot - 1] = q[Len(q)]
        /\ Front(q) \in Seq(Nat) /\ HoldsInOrder(blocks, slot - 1, Front(q))
    BY <1>1, <1>3, TakeFunc
  <2>3. Due(q) = q[Len(q)] /\ Rest(q) = Front(q)
    BY <2>2 DEF Due, Rest, Last
  <2>4. /\ pending' \in [exit : Seq(Nat), quick : Seq(Nat)]
        /\ pending'.exit = Front(q) /\ pending'.quick = pending.quick
    BY <2>1, <2>2, <2>3 DEF ExitIInv
  <2>5. ran'.func = ran'.due
    BY <2>1, <2>2, <2>3
  <2>6. slot' \in 0 .. COUNT
    BY <1>1, <1>3, <2>1
  <2>7. ExitOrder'
    BY <2>1, <2>5 DEF ExitOrder
  <2>8. HoldsInOrder(blocks', slot', pending'.exit)
    BY <2>1, <2>2, <2>4
  <2> QED BY <1>3, <2>1, <2>4, <2>6, <2>7, <2>8 DEF ExitIInv
<1>4. CASE blocks # <<>> /\ ~(slot > 0)
  <2>1. blocks' = Tail(blocks) /\ slot' = COUNT /\ exitpc = "exit" /\ UNCHANGED <<exitpc, pending, ran, quick, funcs>>
    BY <1>4 DEF FuncsOnExit
  <2>2. slot = 0
    BY <1>1, <1>4
  <2>3. Tail(blocks) \in Seq(ExitBlocks) /\ HoldsInOrder(Tail(blocks), COUNT, q)
    BY <1>1, <1>4, <2>2, DropBlock
  <2> QED BY <2>1, <2>3 DEF ExitIInv, ExitOrder
<1> QED BY <1>2, <1>3, <1>4

LEMMA ExitNextIInv == ExitIInv /\ [ExitNext]_exitVars => ExitIInv'
<1> SUFFICES ASSUME ExitIInv, [ExitNext]_exitVars PROVE ExitIInv'
  OBVIOUS
<1> USE ExitAssumption DEF ExitAssumption
<1>1. CASE CxaAtexitFails
  BY <1>1 DEF CxaAtexitFails, InProgram, ExitIInv, ExitOrder
<1>2. CASE AtQuickExit
  <2>1. /\ InProgram /\ quick' = Append(quick, funcs + 1) /\ funcs' = funcs + 1
        /\ pending' = [pending EXCEPT !.quick = Append(@, funcs + 1)]
        /\ UNCHANGED <<blocks, slot, exitpc, ran>>
    BY <1>2 DEF AtQuickExit
  <2>2. funcs + 1 \in Nat /\ quick' \in Seq(Nat)
    BY <2>1, AppendProperties DEF ExitIInv
  <2>3. /\ pending' \in [exit : Seq(Nat), quick : Seq(Nat)]
        /\ pending'.exit = pending.exit /\ pending'.quick = quick'
    BY <2>1, <2>2 DEF ExitIInv
  <2> QED BY <2>1, <2>2, <2>3 DEF ExitIInv, ExitOrder, InProgram
<1>3. CASE FuncsOnQuickExit
  <2>1. CASE quick = <<>>
    BY <1>3, <2>1 DEF FuncsOnQuickExit, ExitIInv, ExitOrder
  <2>2. CASE quick # <<>>
    <3>1. /\ exitpc = "quick" /\ quick' = Front(quick) /\ exitpc' = "quickfunc"
          /\ ran' = [func |-> Last(quick), due |-> Due(pending.quick)]
          /\ pending' = [pending EXCEPT !.quick = Rest(@)]
          /\ UNCHANGED <<blocks, slot, funcs>>
      BY <1>3, <2>2 DEF FuncsOnQuickExit
    <3>2. Front(quick) \in Seq(Nat)
      BY <2>2, FrontOfSeq DEF ExitIInv, Front
    <3>3. Due(pending.quick) = Last(quick) /\ Rest(pending.quick) = Front(quick)
      BY <2>2 DEF ExitIInv, Due, Rest
    <3>4. /\ pending' \in [exit : Seq(Nat), quick : Seq(Nat)]
          /\ pending'.exit = pending.exit /\ pending'.quick = quick'
      BY <3>1, <3>2, <3>3 DEF ExitIInv
    <3>5. ran'.func = ran'.due
      BY <3>1, <3>3
    <3> QED BY <3>1, <3>2, <3>4, <3>5 DEF ExitIInv, ExitOrder
  <2> QED BY <2>1, <2>2
<1>4. CASE CallExit \/ FuncReturns \/ UNCHANGED exitVars
  BY <1>4 DEF CallExit, FuncReturns, exitVars, ExitIInv, ExitOrder
<1> QED
  BY <1>1, <1>2, <1>3, <1>4, CxaAtexitIInv, FuncsOnExitIInv DEF ExitNext

\* For blocks of any size and any number of functions: exit and quick_exit run
\* every function that was registered, once, the newest first, those included
\* that functions register while they run.
THEOREM ExitSafe == ExitSpec => []ExitOrder
<1>1. ExitInit => ExitIInv
  <2> SUFFICES ASSUME ExitInit PROVE ExitIInv
    OBVIOUS
  <2>1. HoldsInOrder(<<>>, 0, <<>>)
    BY EmptySeq DEF HoldsInOrder
  <2> QED BY <2>1, ExitAssumption, EmptySeq DEF ExitAssumption, ExitInit, ExitIInv, ExitOrder
<1>2. ExitIInv => ExitOrder
  BY DEF ExitIInv
<1> QED BY <1>1, <1>2, ExitNextIInv, PTL DEF ExitSpec

(***************************************************************************)
(* Timed waits.  For every length of a second, every set of deadlines and  *)
(* any number of waiters: a wait that reports ETIMEDOUT has reached its    *)
(* deadline and was not woken.                                             *)
(***************************************************************************)

Deadline(a) == a.sec * NSEC + a.nsec

\* While a call is under way its deadline is well formed and it has no result.
CallInv ==
  \A t \in Waiters :
    /\ stage[t] # "idle" => result[t] # "ETIMEDOUT"
    /\ stage[t] # "idle" /\ at[t] # Forever => at[t].nsec \in 0 .. NSEC - 1
    /\ stage[t] \in {"clock", "compare", "host"} => ~woken[t]

\* The time passed to the host does not end before the deadline.
TimeInv ==
  \A t \in Waiters :
    /\ stage[t] \in {"compare", "host"} =>
         IF at[t] = Forever THEN ns[t] = -1 ELSE clock + ns[t] >= Deadline(at[t])
    /\ stage[t] = "asleep" /\ until[t] # NONE =>
         at[t] # Forever /\ until[t] >= Deadline(at[t])
    /\ stage[t] = "answer" /\ ~woken[t] =>
         at[t] # Forever /\ clock >= Deadline(at[t])

ResultInv ==
  \A t \in Waiters : result[t] = "ETIMEDOUT" =>
    at[t] # Forever /\ clock >= Deadline(at[t]) /\ ~woken[t]

TimedIInv == TimedTypeOK /\ CallInv /\ TimeInv /\ ResultInv

-----------------------------------------------------------------------------
\* A time is its whole seconds and the rest.
LEMMA Split ==
  ASSUME NEW n \in Nat
  PROVE  /\ n \div NSEC \in Nat
         /\ n % NSEC \in 0 .. NSEC - 1
         /\ n = (n \div NSEC) * NSEC + (n % NSEC)
BY TimedAssumption, SMT DEF TimedAssumption

LEMMA Regroup ==
  ASSUME NEW as \in Int, NEW an \in Int, NEW q \in Int, NEW r \in Int, NEW s \in Int,
         NEW now \in Int, now = q + r, s = as - q
  PROVE  s + (an - r) = as + an - now
OBVIOUS

\* Borrowing keeps the total: the time left and the clock make up the deadline.
LEMMA TimeLeftExact ==
  ASSUME NEW a \in [sec : Int, nsec : Int], a.nsec \in 0 .. NSEC - 1, NEW now \in Nat
  PROVE  LET to == TimeLeft(a, now) IN
         /\ to.sec \in Int
         /\ to.nsec \in 0 .. NSEC - 1
         /\ to.sec * NSEC + to.nsec = Deadline(a) - now
<1> DEFINE q == now \div NSEC
           r == now % NSEC
           s == a.sec - q
           m == a.nsec - r
<1>0. NSEC \in Nat /\ NSEC > 0 /\ a.sec \in Int /\ a.nsec \in Int
  BY TimedAssumption DEF TimedAssumption
<1>1. q \in Nat /\ r \in 0 .. NSEC - 1 /\ now = q * NSEC + r
  BY Split
<1>2. s * NSEC = a.sec * NSEC - q * NSEC
  BY <1>0, <1>1, SMT
<1>3. (s - 1) * NSEC = s * NSEC - NSEC
  BY <1>0, <1>1, SMT
<1>4. s * NSEC \in Int /\ q * NSEC \in Int /\ a.sec * NSEC \in Int
  BY <1>0, <1>1, SMT
<1>5. s * NSEC + m = Deadline(a) - now /\ Deadline(a) \in Int
  <2>1. r \in Int /\ now \in Int /\ now = q * NSEC + r
    BY <1>0, <1>1
  <2>2. s * NSEC + m = a.sec * NSEC + a.nsec - now
    <3> DEFINE S == s * NSEC
               Q == q * NSEC
               A == a.sec * NSEC
    <3>1. S \in Int /\ Q \in Int /\ A \in Int /\ S = A - Q
      BY <1>2, <1>4
    <3>2. now = Q + r /\ r \in Int /\ now \in Int /\ a.nsec \in Int
      BY <1>0, <2>1
    <3> HIDE DEF S, Q, A, r
    <3>3. S + (a.nsec - r) = A + a.nsec - now
      BY <3>1, <3>2, Regroup
    <3> QED BY <3>3 DEF S, A
  <2> QED BY <1>0, <1>4, <2>2 DEF Deadline
<1>6. s \in Int /\ m \in Int /\ (m < 0 => m + NSEC \in 0 .. NSEC - 1)
      /\ (~(m < 0) => m \in 0 .. NSEC - 1)
  BY <1>0, <1>1
<1>7. TimeLeft(a, now) = IF m < 0 THEN [sec |-> s - 1, nsec |-> m + NSEC]
                                  ELSE [sec |-> s, nsec |-> m]
  BY DEF TimeLeft
<1> HIDE DEF q, r, s, m
<1>8. CASE m < 0
  <2>1. TimeLeft(a, now) = [sec |-> s - 1, nsec |-> m + NSEC]
    BY <1>7, <1>8
  <2>2. (s - 1) * NSEC + (m + NSEC) = Deadline(a) - now
    BY <1>0, <1>3, <1>4, <1>5, <1>6
  <2> QED BY <1>0, <1>6, <1>8, <2>1, <2>2
<1>9. CASE ~(m < 0)
  BY <1>5, <1>6, <1>7, <1>9
<1> QED BY <1>8, <1>9

\* Less than zero seconds are left only once the deadline is over.
LEMMA NothingLeft ==
  ASSUME NEW a \in [sec : Int, nsec : Int], a.nsec \in 0 .. NSEC - 1, NEW now \in Nat,
         TimeLeft(a, now).sec < 0
  PROVE  now >= Deadline(a)
<1> DEFINE s == TimeLeft(a, now).sec
           m == TimeLeft(a, now).nsec
<1>1. s \in Int /\ m \in 0 .. NSEC - 1 /\ s * NSEC + m = Deadline(a) - now
  BY TimeLeftExact
<1>2. NSEC \in Nat /\ NSEC > 0
  BY TimedAssumption DEF TimedAssumption
<1>3. s <= -1 /\ s \in Int
  BY <1>1
<1> HIDE DEF s
<1>4. s * NSEC <= -NSEC /\ s * NSEC \in Int
  BY <1>2, <1>3, SMT
<1>5. a.sec * NSEC \in Int /\ a.nsec \in Int
  BY <1>2, SMT
<1> QED BY <1>1, <1>2, <1>4, <1>5 DEF Deadline

\* A deadline is a number.
LEMMA DeadlineInt ==
  ASSUME NEW a \in Deadlines
  PROVE  a \in [sec : Int, nsec : Int] /\ Deadline(a) \in Int /\ a # Forever
<1>1. a \in [sec : Int, nsec : Int] /\ NSEC \in Int /\ a # Forever
  BY TimedAssumption DEF TimedAssumption
<1> QED BY <1>1, SMT DEF Deadline

-----------------------------------------------------------------------------
LEMMA TimedInitIInv == TimedInit => TimedIInv
BY TimedAssumption
DEF TimedAssumption, TimedInit, TimedIInv, TimedTypeOK, CallInv, TimeInv, ResultInv, NONE

\* Every step preserves the invariant.
LEMMA TimedNextIInv == TimedIInv /\ [TimedNext]_timedVars => TimedIInv'
<1> SUFFICES ASSUME TimedIInv, [TimedNext]_timedVars PROVE TimedIInv'
  OBVIOUS
<1> USE DEF TimedIInv
<1>0. \A t \in Waiters : at[t] # Forever =>
        /\ at[t] \in [sec : Int, nsec : Int]
        /\ Deadline(at[t]) \in Int
  BY DeadlineInt DEF TimedTypeOK
<1>1. CASE Tick
  <2>1. TimedTypeOK' BY <1>1 DEF TimedTypeOK, Tick, args, waker
  <2>2. CallInv' BY <1>1 DEF CallInv, Tick, args, waker
  <2>3. TimeInv' BY <1>0, <1>1 DEF TimeInv, TimedTypeOK, Tick, args, waker, NONE
  <2>4. ResultInv' BY <1>0, <1>1 DEF ResultInv, TimedTypeOK, Tick, args, waker
  <2> QED BY <2>1, <2>2, <2>3, <2>4
<1>2. ASSUME NEW t \in Waiters, NEW a \in Deadlines \cup {Forever}, NEW v \in 0 .. word,
             CallTimedWait(t, a, v)
      PROVE  TimedIInv'
  <2> USE <1>2 DEF CallTimedWait, TimedReturn, TimedGoto, waker
  <2>1. TimedTypeOK' BY DEF TimedTypeOK
  <2>2. CallInv' BY DEF CallInv, TimedTypeOK
  <2>3. TimeInv' BY DEF TimeInv, TimedTypeOK
  <2>4. ResultInv' BY DEF ResultInv, TimedTypeOK
  <2> QED BY <2>1, <2>2, <2>3, <2>4
<1>3. ASSUME NEW t \in Waiters, ReadClock(t) PROVE TimedIInv'
  <2> DEFINE to == TimeLeft(at[t], clock)
  <2>0. clock \in Nat /\ stage[t] = "clock" /\ ~woken[t] /\ clock' = clock /\ at' = at
    BY <1>3 DEF ReadClock, CallInv, TimedTypeOK, args
  <2>1. CASE at[t] = Forever
    <3> USE <1>3, <2>0, <2>1 DEF ReadClock, TimedGoto, args, waker
    <3>1. TimedTypeOK' BY DEF TimedTypeOK
    <3>2. CallInv' BY DEF CallInv, TimedTypeOK
    <3>3. TimeInv' BY DEF TimeInv, TimedTypeOK
    <3>4. ResultInv' BY DEF ResultInv, TimedTypeOK
    <3> QED BY <3>1, <3>2, <3>3, <3>4
  <2>2. CASE at[t] # Forever
    <3>1. at[t] \in [sec : Int, nsec : Int] /\ at[t].nsec \in 0 .. NSEC - 1
      BY <1>0, <2>0, <2>2 DEF CallInv
    <3>2. /\ to.sec \in Int /\ to.nsec \in Int
          /\ to.sec * NSEC + to.nsec = Deadline(at[t]) - clock
      BY <2>0, <3>1, TimeLeftExact
    <3>3. CASE to.sec >= 0
      <4>1. /\ ns' = [ns EXCEPT ![t] = Deadline(at[t]) - clock]
            /\ stage' = [stage EXCEPT ![t] = "compare"]
            /\ UNCHANGED <<clock, word, at, expected, until, woken, result, wpc, cnt>>
        BY <1>3, <2>2, <3>2, <3>3 DEF ReadClock, TimedGoto, args, waker
      <4>2. TimedTypeOK' BY <1>0, <2>2, <4>1 DEF TimedTypeOK
      <4>3. CallInv' BY <2>0, <4>1 DEF CallInv, TimedTypeOK
      <4>4. TimeInv' BY <1>0, <2>2, <4>1 DEF TimeInv, TimedTypeOK
      <4>5. ResultInv' BY <4>1 DEF ResultInv, TimedTypeOK
      <4> QED BY <4>2, <4>3, <4>4, <4>5
    <3>4. CASE to.sec < 0
      <4>1. /\ result' = [result EXCEPT ![t] = "ETIMEDOUT"]
            /\ stage' = [stage EXCEPT ![t] = "idle"]
            /\ UNCHANGED <<clock, word, at, expected, ns, until, woken, wpc, cnt>>
        BY <1>3, <2>2, <3>2, <3>4 DEF ReadClock, TimedReturn, TimedGoto, args, waker
      <4>2. clock >= Deadline(at[t])
        BY <2>0, <3>1, <3>4, NothingLeft
      <4>3. TimedTypeOK' BY <4>1 DEF TimedTypeOK
      <4>4. CallInv' BY <4>1 DEF CallInv, TimedTypeOK
      <4>5. TimeInv' BY <4>1 DEF TimeInv, TimedTypeOK
      <4>6. ResultInv' BY <2>0, <2>2, <4>1, <4>2 DEF ResultInv, TimedTypeOK
      <4> QED BY <4>3, <4>4, <4>5, <4>6
    <3> QED BY <3>2, <3>3, <3>4
  <2> QED BY <2>1, <2>2
<1>4. ASSUME NEW t \in Waiters, Compare(t) PROVE TimedIInv'
  <2> USE <1>4 DEF Compare, TimedReturn, TimedGoto, args, waker
  <2>1. TimedTypeOK' BY DEF TimedTypeOK
  <2>2. CallInv' BY DEF CallInv, TimedTypeOK
  <2>3. TimeInv' BY DEF TimeInv, TimedTypeOK
  <2>4. ResultInv' BY DEF ResultInv, CallInv, TimedTypeOK
  <2> QED BY <2>1, <2>2, <2>3, <2>4
<1>5. ASSUME NEW t \in Waiters, HostWait(t) PROVE TimedIInv'
  <2> USE <1>5 DEF HostWait, TimedGoto, args, waker
  <2>0. until' \in [Waiters -> Int] /\ woken' \in [Waiters -> BOOLEAN]
    <3>1. CASE word = expected[t]
      BY <3>1 DEF TimedTypeOK, NONE
    <3>2. CASE word # expected[t]
      BY <3>2 DEF TimedTypeOK
    <3> QED BY <3>1, <3>2
  <2>1. TimedTypeOK'
    <3>1. stage' \in [Waiters -> {"idle", "clock", "compare", "host", "asleep", "answer", "trap"}]
      BY DEF TimedTypeOK
    <3>2. ns' \in [Waiters -> Int]
      BY DEF TimedTypeOK
    <3> QED BY <2>0, <3>1, <3>2 DEF TimedTypeOK
  <2>2. CallInv' BY DEF CallInv, TimedTypeOK
  <2>3. TimeInv' BY <1>0 DEF TimeInv, CallInv, TimedTypeOK, NONE
  <2>4. ResultInv' BY DEF ResultInv, CallInv, TimedTypeOK
  <2> QED BY <2>1, <2>2, <2>3, <2>4
<1>6. ASSUME NEW t \in Waiters, HostTimeout(t) PROVE TimedIInv'
  <2> USE <1>6 DEF HostTimeout, TimedGoto, args, waker
  <2>1. TimedTypeOK' BY DEF TimedTypeOK
  <2>2. CallInv' BY DEF CallInv, TimedTypeOK
  <2>3. TimeInv' BY <1>0 DEF TimeInv, TimedTypeOK, NONE
  <2>4. ResultInv' BY DEF ResultInv, TimedTypeOK
  <2> QED BY <2>1, <2>2, <2>3, <2>4
<1>7. ASSUME NEW t \in Waiters, Answer(t) PROVE TimedIInv'
  <2> USE <1>7 DEF Answer, TimedReturn, TimedGoto, args, waker
  <2>1. TimedTypeOK' BY DEF TimedTypeOK, NONE
  <2>2. CallInv' BY DEF CallInv, TimedTypeOK
  <2>3. TimeInv' BY DEF TimeInv, TimedTypeOK
  <2>4. ResultInv' BY DEF ResultInv, TimeInv, TimedTypeOK
  <2> QED BY <2>1, <2>2, <2>3, <2>4
<1>8. ASSUME NEW t \in Waiters, ClockFails(t) PROVE TimedIInv'
  <2> USE <1>8 DEF ClockFails, TimedReturn, TimedGoto, args, waker
  <2>1. TimedTypeOK' BY DEF TimedTypeOK
  <2>2. CallInv' BY DEF CallInv, TimedTypeOK
  <2>3. TimeInv' BY DEF TimeInv, TimedTypeOK
  <2>4. ResultInv' BY DEF ResultInv, CallInv, TimedTypeOK
  <2> QED BY <2>1, <2>2, <2>3, <2>4
<1>9. ASSUME NEW c \in Counts, StoreWord(c) PROVE TimedIInv'
  <2> USE <1>9 DEF StoreWord, args
  <2>1. TimedTypeOK' BY TimedAssumption DEF TimedTypeOK, TimedAssumption
  <2> QED BY <2>1 DEF CallInv, TimeInv, ResultInv
<1>10. CASE CallWake
  BY <1>10 DEF CallWake, args, TimedTypeOK, CallInv, TimeInv, ResultInv
<1>11. ASSUME NEW S \in SUBSET Asleep, Rouse(S),
              UNCHANGED <<clock, word, args, ns, until, result>>,
              wpc' \in {"idle", "call", "all", "wake"}, cnt' \in Nat
       PROVE  TimedIInv'
  <2> USE <1>11 DEF Rouse, Asleep, args
  <2>1. TimedTypeOK' BY DEF TimedTypeOK
  <2>2. CallInv' BY DEF CallInv, TimedTypeOK
  <2>3. TimeInv' BY DEF TimeInv, TimedTypeOK
  <2>4. ResultInv' BY DEF ResultInv, CallInv, TimedTypeOK
  <2> QED BY <2>1, <2>2, <2>3, <2>4
<1>12. CASE HostWakeAll
  BY <1>11, <1>12 DEF HostWakeAll, TimedTypeOK
<1>13. CASE HostWake
  BY <1>11, <1>13 DEF HostWake, TimedTypeOK
<1>14. CASE WakeDone
  BY <1>14 DEF WakeDone, args, TimedTypeOK, CallInv, TimeInv, ResultInv
<1>15. CASE UNCHANGED timedVars
  BY <1>15 DEF timedVars, TimedTypeOK, CallInv, TimeInv, ResultInv
<1> QED
  BY <1>1, <1>2, <1>3, <1>4, <1>5, <1>6, <1>7, <1>8, <1>9, <1>10, <1>12, <1>13, <1>14, <1>15
  DEF TimedNext

\* The invariant holds in every reachable state of the timed wait.
THEOREM TimedInvariance == TimedSpec => []TimedIInv
BY TimedInitIInv, TimedNextIInv, PTL DEF TimedSpec

\* The variables keep their types; the count of a wake-up never goes below zero.
THEOREM TimedTypeCorrect == TimedSpec => []TimedTypeOK
BY TimedInvariance, PTL DEF TimedIInv

\* A reported timeout is real: the deadline is over and the thread was not woken.
THEOREM TimeoutCorrect == TimedSpec => []TimeoutIsReal
<1>1. TimedIInv => TimeoutIsReal
  BY DEF TimedIInv, ResultInv, TimeoutIsReal, Deadline
<1> QED BY <1>1, TimedInvariance, PTL

-----------------------------------------------------------------------------
(***************************************************************************)
(* __wake(addr, -1).  That the loop of single wake-ups never ends with a   *)
(* count of INT_MAX has to be carried along: only then does a count of     *)
(* INT_MAX in an idle waker say that its last wake-up was one of all.      *)
(***************************************************************************)

ReachInv ==
  /\ TimedTypeOK
  /\ cnt <= INT_MAX
  /\ wpc = "wake" => cnt < INT_MAX
  /\ AllReached

LEMMA NextReach == TimedIInv /\ ReachInv /\ [TimedNext]_timedVars => ReachInv'
<1> SUFFICES ASSUME TimedIInv, ReachInv, [TimedNext]_timedVars PROVE ReachInv'
  OBVIOUS
<1>0. TimedTypeOK /\ TimedTypeOK'
  BY TimedNextIInv DEF TimedIInv
<1> USE TimedAssumption, <1>0 DEF TimedAssumption, ReachInv, AllReached
\* A waiter's step: only one that finds the word unchanged goes to sleep.
<1>1. ASSUME NEW t \in Waiters, UNCHANGED <<word, waker>>,
             \A u \in Waiters \ {t} : stage'[u] = stage[u] /\ expected'[u] = expected[u],
             stage'[t] = "asleep" => expected'[t] = word
      PROVE  ReachInv'
  BY <1>1 DEF waker
<1>2. ASSUME NEW t \in Waiters, NEW a \in Deadlines \cup {Forever}, NEW v \in 0 .. word,
             CallTimedWait(t, a, v)
      PROVE  ReachInv'
  BY <1>1, <1>2 DEF CallTimedWait, TimedReturn, TimedGoto, TimedTypeOK
<1>3. ASSUME NEW t \in Waiters, ReadClock(t) \/ ClockFails(t) \/ Compare(t) PROVE ReachInv'
  BY <1>1, <1>3 DEF ReadClock, ClockFails, Compare, TimedReturn, TimedGoto, args, TimedTypeOK
<1>4. ASSUME NEW t \in Waiters, HostWait(t) PROVE ReachInv'
  BY <1>1, <1>4 DEF HostWait, TimedGoto, args, TimedTypeOK
<1>5. ASSUME NEW t \in Waiters, HostTimeout(t) \/ Answer(t) PROVE ReachInv'
  BY <1>1, <1>5 DEF HostTimeout, Answer, TimedReturn, TimedGoto, args, TimedTypeOK
<1>6. CASE Tick \/ UNCHANGED timedVars
  BY <1>6 DEF Tick, timedVars, args, waker
<1>7. ASSUME NEW c \in Counts, StoreWord(c) PROVE ReachInv'
  <2>1. c \in 1 .. INT_MAX /\ INT_MAX \in Nat
    OBVIOUS
  <2>2. c \in Nat /\ c <= INT_MAX
    BY <2>1
  <2>3. cnt' = c /\ wpc' = "call"
    BY <1>7 DEF StoreWord
  <2> QED BY <2>2, <2>3
<1>8. CASE CallWake
  BY <1>8 DEF CallWake, args, TimedTypeOK
<1>9. CASE HostWakeAll
  BY <1>9 DEF HostWakeAll, Rouse, Asleep, args, TimedTypeOK
<1>10. CASE HostWake
  BY <1>10 DEF HostWake, TimedTypeOK
<1>11. CASE WakeDone
  BY <1>11 DEF WakeDone, args
<1>12. QED
  BY <1>2, <1>3, <1>4, <1>5, <1>6, <1>7, <1>8, <1>9, <1>10, <1>11 DEF TimedNext

\* For any number of waiters: when a __wake(addr, -1) that followed a change of
\* the word is over, nobody sleeps on an older value, wherever in __timedwait
\* each of them was when the word changed.
THEOREM WakeReachesAll == TimedSpec => []AllReached
<1>1. TimedInit => ReachInv
  <2> SUFFICES ASSUME TimedInit PROVE ReachInv
    OBVIOUS
  <2>1. TimedTypeOK
    BY TimedInitIInv DEF TimedIInv
  <2>2. QED
    BY <2>1, TimedAssumption DEF TimedAssumption, TimedInit, ReachInv, AllReached
<1>2. ReachInv => AllReached
  BY DEF ReachInv
<1>3. QED
  BY <1>1, <1>2, TimedInvariance, NextReach, PTL DEF TimedSpec

-----------------------------------------------------------------------------
(***************************************************************************)
(* Paths.  The functions of PathLookup are recursive; that the recursion   *)
(* has a solution is shown once, for any function whose arguments have a   *)
(* rank that decreases.                                                    *)
(***************************************************************************)

\* g is a function from D to S that satisfies the recursion up to rank k.
Solves(g, D, rank, G, k) == \A d \in D : rank[d] < k => g[d] = G[<<d, g>>]

\* What G says of d depends only on what is of smaller rank.
Ranked(D, S, rank, G) ==
  \A d \in D : \A g, h \in [D -> S] :
    (\A e \in D : rank[e] < rank[d] => g[e] = h[e]) => G[<<d, g>>] = G[<<d, h>>]

LEMMA OneRankMore ==
  ASSUME NEW D, NEW S, NEW rank \in [D -> Nat], NEW G \in [D \X [D -> S] -> S],
         Ranked(D, S, rank, G), NEW k \in Nat, NEW g \in [D -> S], Solves(g, D, rank, G, k)
  PROVE  \E h \in [D -> S] : Solves(h, D, rank, G, k + 1)
<1> DEFINE h == [d \in D |-> IF rank[d] = k THEN G[<<d, g>>] ELSE g[d]]
<1>1. h \in [D -> S]
  <2>1. \A d \in D : G[<<d, g>>] \in S /\ g[d] \in S
    OBVIOUS
  <2> QED BY <2>1
<1>2. ASSUME NEW d \in D, rank[d] < k + 1 PROVE h[d] = G[<<d, h>>]
  <2>1. rank[d] \in Nat /\ (rank[d] < k \/ rank[d] = k)
    <3>1. PICK r \in Nat : r = rank[d]
      OBVIOUS
    <3>2. r < k + 1
      BY <1>2, <3>1
    <3>3. r < k \/ r = k
      BY <3>2, SMTT(30)
    <3> QED BY <3>1, <3>3
  <2>2. \A e \in D : rank[e] < rank[d] => g[e] = h[e]
    <3> SUFFICES ASSUME NEW e \in D, rank[e] < rank[d] PROVE g[e] = h[e]
      OBVIOUS
    <3>1. rank[e] \in Nat
      OBVIOUS
    <3>2. rank[e] # k
      BY <2>1, <3>1
    <3> QED BY <3>2
  <2>3. G[<<d, g>>] = G[<<d, h>>]
    <3> HIDE DEF h
    <3> QED BY <1>1, <2>2 DEF Ranked
  <2>4. h[d] = G[<<d, g>>]
    <3>1. CASE rank[d] = k
      BY <3>1
    <3>2. CASE rank[d] < k
      <4>1. rank[d] # k
        BY <2>1, <3>2
      <4>2. g[d] = G[<<d, g>>]
        BY <3>2 DEF Solves
      <4> QED BY <4>1, <4>2
    <3> QED BY <2>1, <3>1, <3>2
  <2> QED BY <2>3, <2>4
<1> HIDE DEF h
<1>3. Solves(h, D, rank, G, k + 1)
  BY <1>2 DEF Solves
<1> QED BY <1>1, <1>3

Recursive(D, S, n, rank, G) ==
  /\ S # {} /\ n \in Nat /\ rank \in [D -> 0 .. n]
  /\ G \in [D \X [D -> S] -> S] /\ Ranked(D, S, rank, G)

Solvable(D, S, G) == \E f \in [D -> S] : \A d \in D : f[d] = G[<<d, f>>]

\* Definition by recursion on a bounded rank
LEMMA RankRecursion == \A D, S, n, rank, G : Recursive(D, S, n, rank, G) => Solvable(D, S, G)
<1> SUFFICES ASSUME NEW D, NEW S, NEW n, NEW rank, NEW G, Recursive(D, S, n, rank, G)
             PROVE  Solvable(D, S, G)
  OBVIOUS
<1>0. /\ S # {} /\ n \in Nat /\ rank \in [D -> 0 .. n]
      /\ G \in [D \X [D -> S] -> S] /\ Ranked(D, S, rank, G)
  BY DEF Recursive
<1>1. rank \in [D -> Nat]
  BY <1>0
<1> DEFINE Bad == {k \in Nat : ~ \E f \in [D -> S] : Solves(f, D, rank, G, k)}
<1>2. Bad = {}
  <2> SUFFICES ASSUME Bad # {} PROVE FALSE
    OBVIOUS
  <2>1. PICK m \in Nat : m = Min(Bad)
    BY MinOfNaturals
  <2>2. m \in Bad /\ \A y \in Bad : m <= y
    BY <2>1, MinOfNaturals
  <2>3. m # 0
    <3>1. PICK s \in S : TRUE
      BY <1>0
    <3>2. [d \in D |-> s] \in [D -> S]
      OBVIOUS
    <3>3. Solves([d \in D |-> s], D, rank, G, 0)
      <4>1. \A d \in D : ~(rank[d] < 0)
        BY <1>0, <1>1
      <4> QED BY <4>1 DEF Solves
    <3> QED BY <2>2, <3>2, <3>3
  <2>4. m - 1 \in Nat /\ ~(m <= m - 1) /\ m - 1 + 1 = m
    BY <2>3
  <2>5. PICK k \in Nat : k = m - 1
    BY <2>4
  <2>6. k \notin Bad
    BY <2>2, <2>4, <2>5
  <2>7. PICK g \in [D -> S] : Solves(g, D, rank, G, k)
    BY <2>6
  <2>8. \E h \in [D -> S] : Solves(h, D, rank, G, k + 1)
    BY <1>0, <1>1, <2>7, OneRankMore
  <2> QED BY <2>2, <2>4, <2>5, <2>8
<1>3. n + 1 \in Nat
  BY <1>0
<1>4. PICK f \in [D -> S] : Solves(f, D, rank, G, n + 1)
  BY <1>2, <1>3
<1>5. \A d \in D : rank[d] < n + 1
  <2>1. \A d \in D : rank[d] \in 0 .. n
    BY <1>0
  <2> QED BY <1>0, <2>1
<1> QED BY <1>4, <1>5 DEF Solves, Solvable

\* Induction upwards and downwards
LEMMA Upwards ==
  ASSUME NEW T, NEW n \in Nat, 0 \in T, \A i \in 1 .. n : i - 1 \in T => i \in T
  PROVE  \A i \in 0 .. n : i \in T
<1> DEFINE Bad == {i \in 0 .. n : i \notin T}
<1>1. Bad = {}
  <2> SUFFICES ASSUME Bad # {} PROVE FALSE
    OBVIOUS
  <2>1. Bad \subseteq Nat
    OBVIOUS
  <2>2. Min(Bad) \in Bad /\ \A y \in Bad : Min(Bad) <= y
    BY <2>1, MinOfNaturals
  <2>3. PICK m : m = Min(Bad)
    OBVIOUS
  <2>4. m \in 1 .. n /\ m \notin T /\ \A y \in Bad : m <= y
    BY <2>2, <2>3
  <2>5. m - 1 \in 0 .. n /\ ~(m <= m - 1)
    BY <2>4
  <2>6. m - 1 \in T
    BY <2>4, <2>5
  <2> QED BY <2>4, <2>6
<1> QED BY <1>1

LEMMA Downwards ==
  ASSUME NEW T, NEW n \in Nat, n \in T, \A i \in 0 .. n - 1 : i + 1 \in T => i \in T
  PROVE  \A i \in 0 .. n : i \in T
<1> DEFINE U == {i \in 0 .. n : n - i \in T}
<1>1. 0 \in U
  OBVIOUS
<1>2. \A i \in 1 .. n : i - 1 \in U => i \in U
  <2> SUFFICES ASSUME NEW i \in 1 .. n, i - 1 \in U PROVE n - i \in T
    OBVIOUS
  <2>1. n - i \in 0 .. n - 1 /\ n - i + 1 = n - (i - 1)
    OBVIOUS
  <2>2. n - (i - 1) \in T
    OBVIOUS
  <2> QED BY <2>1, <2>2
<1> HIDE DEF U
<1>3. \A i \in 0 .. n : i \in U
  BY <1>1, <1>2, Upwards
<1>4. ASSUME NEW i \in 0 .. n PROVE i \in T
  <2>1. n - i \in 0 .. n /\ n - (n - i) = i
    OBVIOUS
  <2>2. n - (n - i) \in T
    BY <1>3, <2>1 DEF U
  <2> QED BY <2>1, <2>2
<1> QED BY <1>4

-----------------------------------------------------------------------------
(* A path is read a character at a time.                                    *)
Path == Seq(Chars)
Directory == Seq(Path)
Reader == [dir : Directory, comp : Path]

LEMMA SlashIs == Slash \in Path /\ Dot \in Path /\ Len(Slash) = 1 /\ Slash[1] = "/" /\ Len(Dot) = 1 /\ Dot[1] = "." /\ "/" # "."
<1>1. "/" \in Chars /\ "." \in Chars
  BY PathAssumption DEF PathAssumption
<1>2. Slash \in Path /\ Dot \in Path
  BY <1>1 DEF Slash, Dot, Path
<1> QED BY <1>2 DEF Slash, Dot

LEMMA JoinedIs ==
  ASSUME NEW p \in Path, NEW q \in Path
  PROVE  /\ p \o q \in Path /\ Len(p \o q) = Len(p) + Len(q)
         /\ \A i \in 1 .. Len(p) + Len(q) : (p \o q)[i] = IF i <= Len(p) THEN p[i] ELSE q[i - Len(p)]
BY ConcatProperties DEF Path

LEMMA DotDotIs == Dot \o Dot \in Path /\ Dot \o Dot \notin {<<>>, Dot}
<1>1. PICK d \in Path : d = Dot /\ Len(d) = 1
  BY SlashIs
<1>2. d \o d \in Path /\ Len(d \o d) = Len(d) + Len(d)
  BY JoinedIs
<1>3. Len(d \o d) = 2 /\ Len(<<>>) = 0
  BY <1>1, <1>2, EmptySeq
<1> QED BY <1>1, <1>2, <1>3

LEMMA EnterIs ==
  ASSUME NEW dir \in Directory, NEW c \in Path
  PROVE  Enter(dir, c) \in Directory
<1>1. Append(dir, c) \in Directory
  BY AppendProperties DEF Directory
<1>2. dir # <<>> => Front(dir) \in Directory
  <2>1. Len(dir) \in Nat /\ \A i \in 1 .. Len(dir) : dir[i] \in Path
    BY LenProperties, ElementOfSeq DEF Directory
  <2>2. \A i \in 1 .. Len(dir) - 1 : dir[i] \in Path
    BY <2>1
  <2> QED BY <2>1, <2>2, SubSeqProperties DEF Directory, Front
<1>3. CASE c \in {<<>>, Dot}
  BY <1>3, DotDotIs DEF Enter
<1>4. CASE c \notin {<<>>, Dot} /\ c = Dot \o Dot
  BY <1>2, <1>4 DEF Enter
<1>5. CASE c \notin {<<>>, Dot} /\ c # Dot \o Dot
  BY <1>1, <1>5 DEF Enter
<1> QED BY <1>3, <1>4, <1>5

LEMMA AdvanceIs ==
  ASSUME NEW s \in Reader, NEW ch \in Chars
  PROVE  Advance(s, ch) \in Reader
<1>1. s.dir \in Directory /\ s.comp \in Path /\ <<>> \in Path
  BY EmptySeq DEF Reader, Path
<1>2. Enter(s.dir, s.comp) \in Directory
  BY <1>1, EnterIs
<1>3. Append(s.comp, ch) \in Path
  BY <1>1, AppendProperties DEF Path
<1>4. CASE ch = "/"
  BY <1>1, <1>2, <1>4 DEF Advance, Reader
<1>5. CASE ch # "/"
  BY <1>1, <1>3, <1>5 DEF Advance, Reader
<1> QED BY <1>4, <1>5

\* r is where a reader that starts at s is after each character of p.
IsReading(r, s, p) ==
  r = [n \in 0 .. Len(p) |-> IF n = 0 THEN s ELSE Advance(r[n - 1], p[n])]

LEMMA ReadingExists ==
  ASSUME NEW s \in Reader, NEW p \in Path
  PROVE  \E r \in [0 .. Len(p) -> Reader] : IsReading(r, s, p)
<1> DEFINE D == 0 .. Len(p)
           rank == [n \in D |-> n]
           GG(d, g) == IF d = 0 THEN s ELSE Advance(g[d - 1], p[d])
           G == [x \in D \X [D -> Reader] |-> GG(x[1], x[2])]
<1>0. PICK l \in Nat : l = Len(p)
  BY LenProperties DEF Path
<1>1. rank \in [D -> 0 .. l]
  BY <1>0
<1>2. ASSUME NEW d \in D, NEW g \in [D -> Reader] PROVE GG(d, g) \in Reader
  <2>1. CASE d = 0
    BY <2>1
  <2>2. CASE d # 0
    <3>1. d - 1 \in D /\ d \in 1 .. Len(p)
      BY <1>0, <2>2
    <3>2. p[d] \in Chars
      BY <3>1, ElementOfSeq DEF Path
    <3>3. g[d - 1] \in Reader
      BY <3>1
    <3>4. Advance(g[d - 1], p[d]) \in Reader
      BY <3>2, <3>3, AdvanceIs
    <3> QED BY <2>2, <3>4
  <2> QED BY <2>1, <2>2
<1>3. G \in [D \X [D -> Reader] -> Reader]
  BY <1>2
<1>4. \A d \in D, g \in [D -> Reader] : G[<<d, g>>] = GG(d, g)
  OBVIOUS
<1>5. Ranked(D, Reader, rank, G)
  <2> SUFFICES ASSUME NEW d \in D, NEW g \in [D -> Reader], NEW h \in [D -> Reader],
                      \A e \in D : rank[e] < rank[d] => g[e] = h[e]
               PROVE  GG(d, g) = GG(d, h)
    <3> HIDE DEF GG, rank, G, D
    <3> QED BY <1>4 DEF Ranked
  <2>1. CASE d = 0
    BY <2>1
  <2>2. CASE d # 0
    <3>1. d - 1 \in D /\ d - 1 < d
      BY <1>0, <2>2
    <3>2. g[d - 1] = h[d - 1]
      BY <3>1
    <3> QED BY <2>2, <3>2
  <2> QED BY <2>1, <2>2
<1>6. Reader # {}
  OBVIOUS
<1> HIDE DEF D, rank, G
<1>7. Recursive(D, Reader, l, rank, G)
  BY <1>0, <1>1, <1>3, <1>5, <1>6 DEF Recursive
<1>8. PICK f \in [D -> Reader] : \A d \in D : f[d] = G[<<d, f>>]
  BY <1>7, RankRecursion DEF Solvable
<1>9. \A d \in D : f[d] = GG(d, f)
  BY <1>4, <1>8
<1>10. f = [n \in D |-> GG(n, f)]
  BY <1>9
<1> QED BY <1>10 DEF IsReading, D

LEMMA NamesIs ==
  ASSUME NEW dir, NEW path
  PROVE  LET start == [dir |-> IF IsPrefix(Slash, path) THEN <<>> ELSE dir, comp |-> <<>>]
             read == CHOOSE r : IsReading(r, start, path)
             last == read[Len(path)]
         IN Names(dir, path) = Enter(last.dir, last.comp)
BY DEF Names, IsReading

LEMMA ReadingUnique ==
  ASSUME NEW s, NEW p \in Path, NEW r, NEW q, IsReading(r, s, p), IsReading(q, s, p)
  PROVE  r = q
<1>0. PICK l \in Nat : l = Len(p)
  BY LenProperties DEF Path
<1>1. /\ r = [n \in 0 .. l |-> IF n = 0 THEN s ELSE Advance(r[n - 1], p[n])]
      /\ q = [n \in 0 .. l |-> IF n = 0 THEN s ELSE Advance(q[n - 1], p[n])]
  BY <1>0 DEF IsReading
<1> DEFINE T == {n \in 0 .. l : r[n] = q[n]}
<1>a. \A n \in 0 .. l : /\ r[n] = IF n = 0 THEN s ELSE Advance(r[n - 1], p[n])
                        /\ q[n] = IF n = 0 THEN s ELSE Advance(q[n - 1], p[n])
  BY <1>1
<1>2. 0 \in T
  BY <1>a
<1>3. ASSUME NEW n \in 1 .. l, n - 1 \in T PROVE n \in T
  <2>1. n \in 0 .. l /\ n # 0
    OBVIOUS
  <2>2. r[n] = Advance(r[n - 1], p[n]) /\ q[n] = Advance(q[n - 1], p[n])
    BY <1>a, <2>1
  <2>3. r[n - 1] = q[n - 1]
    BY <1>3
  <2> QED BY <2>1, <2>2, <2>3
<1> HIDE DEF T
<1>4. \A n \in 0 .. l : n \in T
  BY <1>2, <1>3, Upwards
<1>5. \A n \in 0 .. l : r[n] = q[n]
  BY <1>4 DEF T
<1>6. DOMAIN r = 0 .. l /\ DOMAIN q = 0 .. l
  BY <1>1
<1>7. r = [n \in 0 .. l |-> r[n]] /\ q = [n \in 0 .. l |-> q[n]]
  BY <1>1
<1> QED BY <1>5, <1>7

\* The reader after all of p
Read(s, p) == (CHOOSE r : IsReading(r, s, p))[Len(p)]

LEMMA ReadIs ==
  ASSUME NEW s, NEW p \in Path, NEW r, IsReading(r, s, p)
  PROVE  Read(s, p) = r[Len(p)]
<1>1. IsReading(CHOOSE q : IsReading(q, s, p), s, p)
  OBVIOUS
<1>2. (CHOOSE q : IsReading(q, s, p)) = r
  BY <1>1, ReadingUnique
<1> QED BY <1>2 DEF Read

LEMMA ReadingIs ==
  ASSUME NEW s \in Reader, NEW p \in Path
  PROVE  \E r \in [0 .. Len(p) -> Reader] :
           /\ IsReading(r, s, p) /\ Read(s, p) = r[Len(p)] /\ r[0] = s
           /\ \A n \in 1 .. Len(p) : r[n] = Advance(r[n - 1], p[n])
<1>0. PICK l \in Nat : l = Len(p)
  BY LenProperties DEF Path
<1>1. PICK r \in [0 .. Len(p) -> Reader] : IsReading(r, s, p)
  BY ReadingExists
<1>2. r = [n \in 0 .. l |-> IF n = 0 THEN s ELSE Advance(r[n - 1], p[n])]
  BY <1>0, <1>1 DEF IsReading
<1>3. r[0] = s
  BY <1>2
<1>4. \A n \in 1 .. l : r[n] = Advance(r[n - 1], p[n])
  <2> SUFFICES ASSUME NEW n \in 1 .. l PROVE r[n] = Advance(r[n - 1], p[n])
    OBVIOUS
  <2>1. n \in 0 .. l /\ n # 0
    OBVIOUS
  <2> QED BY <1>2, <2>1
<1>5. Read(s, p) = r[Len(p)]
  BY <1>1, ReadIs
<1> QED BY <1>0, <1>1, <1>3, <1>4, <1>5

LEMMA ReadType ==
  ASSUME NEW s \in Reader, NEW p \in Path
  PROVE  Read(s, p) \in Reader
<1>1. Len(p) \in 0 .. Len(p)
  BY LenProperties DEF Path
<1> QED BY <1>1, ReadingIs

LEMMA ReadNothing == \A s \in Reader : Read(s, <<>>) = s
<1> SUFFICES ASSUME NEW s \in Reader PROVE Read(s, <<>>) = s
  OBVIOUS
<1>1. <<>> \in Path /\ Len(<<>>) = 0
  BY EmptySeq DEF Path
<1>2. PICK r : Read(s, <<>>) = r[Len(<<>>)] /\ r[0] = s
  BY <1>1, ReadingIs
<1> QED BY <1>1, <1>2

\* p is read, and then q.
LEMMA ReadConcat ==
  ASSUME NEW s \in Reader, NEW p \in Path, NEW q \in Path
  PROVE  Read(s, p \o q) = Read(Read(s, p), q)
<1>0. PICK lp \in Nat, lq \in Nat : lp = Len(p) /\ lq = Len(q)
  BY LenProperties DEF Path
<1>1. PICK r \in [0 .. Len(p) -> Reader] :
        /\ Read(s, p) = r[Len(p)] /\ r[0] = s
        /\ \A n \in 1 .. Len(p) : r[n] = Advance(r[n - 1], p[n])
  BY ReadingIs
<1>2. PICK t \in [0 .. Len(q) -> Reader] :
        /\ Read(Read(s, p), q) = t[Len(q)] /\ t[0] = Read(s, p)
        /\ \A n \in 1 .. Len(q) : t[n] = Advance(t[n - 1], q[n])
  BY ReadType, ReadingIs
<1>3. /\ p \o q \in Path /\ Len(p \o q) = lp + lq
      /\ \A i \in 1 .. lp + lq : (p \o q)[i] = IF i <= lp THEN p[i] ELSE q[i - lp]
  BY <1>0, ConcatProperties DEF Path
<1>r. /\ r[0] = s /\ t[0] = r[lp] /\ Read(Read(s, p), q) = t[lq]
      /\ \A n \in 1 .. lp : r[n] = Advance(r[n - 1], p[n])
      /\ \A n \in 1 .. lq : t[n] = Advance(t[n - 1], q[n])
  BY <1>0, <1>1, <1>2
<1> DEFINE pq == p \o q
           w == [n \in 0 .. lp + lq |-> IF n <= lp THEN r[n] ELSE t[n - lp]]
<1> HIDE DEF pq
<1>4. ASSUME NEW n \in 0 .. lp + lq
      PROVE  w[n] = IF n = 0 THEN s ELSE Advance(w[n - 1], pq[n])
  <2>1. CASE n = 0
    BY <1>r, <2>1
  <2>2. CASE n # 0 /\ n <= lp
    <3>1. n \in 1 .. lp /\ n \in 1 .. lp + lq /\ n - 1 \in 0 .. lp + lq /\ n - 1 <= lp
      BY <2>2
    <3>2. pq[n] = p[n]
      BY <1>3, <3>1 DEF pq
    <3>3. w[n] = r[n] /\ w[n - 1] = r[n - 1]
      BY <3>1
    <3> QED BY <1>r, <2>2, <3>1, <3>2, <3>3
  <2>3. CASE n > lp
    <3>1. n - lp \in 1 .. lq /\ n \in 1 .. lp + lq /\ n - 1 \in 0 .. lp + lq /\ ~(n <= lp)
      BY <2>3
    <3>2. pq[n] = q[n - lp]
      BY <1>3, <3>1 DEF pq
    <3>3. w[n] = t[n - lp]
      BY <3>1
    <3>4. w[n - 1] = t[n - lp - 1]
      <4>1. CASE n - 1 <= lp
        <5>1. n - 1 = lp /\ n - lp - 1 = 0
          BY <2>3, <4>1
        <5> QED BY <1>r, <3>1, <4>1, <5>1
      <4>2. CASE ~(n - 1 <= lp)
        <5>1. n - 1 - lp = n - lp - 1
          BY <2>3
        <5> QED BY <3>1, <4>2, <5>1
      <4> QED BY <4>1, <4>2
    <3>5. t[n - lp] = Advance(t[n - lp - 1], q[n - lp])
      BY <1>r, <3>1
    <3> QED BY <2>3, <3>2, <3>3, <3>4, <3>5
  <2> QED BY <2>1, <2>2, <2>3
<1>5. w = [n \in 0 .. lp + lq |-> IF n = 0 THEN s ELSE Advance(w[n - 1], pq[n])]
  BY <1>4
<1>9. w[lp + lq] = t[lq]
  <2>1. lp + lq \in 0 .. lp + lq
    OBVIOUS
  <2>2. CASE lq = 0
    <3>1. lp + lq = lp /\ lp <= lp
      BY <2>2
    <3>2. w[lp] = r[lp]
      BY <2>1, <3>1
    <3> QED BY <1>r, <2>2, <3>1, <3>2
  <2>3. CASE lq # 0
    <3>1. ~(lp + lq <= lp) /\ lp + lq - lp = lq
      BY <2>3
    <3> QED BY <2>1, <3>1
  <2> QED BY <2>2, <2>3
<1> HIDE DEF w
<1>6. pq \in Path /\ Len(pq) = lp + lq
  BY <1>3 DEF pq
<1>7. IsReading(w, s, pq)
  BY <1>5, <1>6 DEF IsReading
<1>8. Read(s, pq) = w[lp + lq]
  BY <1>6, <1>7, ReadIs
<1> QED BY <1>8, <1>9, <1>r DEF pq

-----------------------------------------------------------------------------
(* Paths that are cut and joined.                                           *)
\* Paths are cut in two.
LEMMA DropIs ==
  ASSUME NEW p \in Path, NEW n \in 0 .. Len(p)
  PROVE  /\ Drop(p, n) \in Path /\ Len(Drop(p, n)) = Len(p) - n
         /\ \A i \in 1 .. Len(p) - n : Drop(p, n)[i] = p[n + i]
<1>1. Len(p) \in Nat /\ \A i \in 1 .. Len(p) : p[i] \in Chars
  BY LenProperties, ElementOfSeq DEF Path
<1>2. \A i \in n + 1 .. Len(p) : p[i] \in Chars
  BY <1>1
<1>3. n + 1 \in Int /\ Len(p) \in Int
  BY <1>1
<1>4. /\ Drop(p, n) \in Path
      /\ Len(Drop(p, n)) = IF n + 1 <= Len(p) THEN Len(p) - (n + 1) + 1 ELSE 0
      /\ \A i \in 1 .. Len(p) - (n + 1) + 1 : Drop(p, n)[i] = p[n + 1 + i - 1]
  BY <1>2, <1>3, SubSeqProperties DEF Drop, Path
<1>5. Len(Drop(p, n)) = Len(p) - n
  BY <1>1, <1>4
<1>6. ASSUME NEW i \in 1 .. Len(p) - n PROVE Drop(p, n)[i] = p[n + i]
  <2>1. i \in 1 .. Len(p) - (n + 1) + 1 /\ n + 1 + i - 1 = n + i
    BY <1>1
  <2> QED BY <1>4, <2>1
<1> QED BY <1>4, <1>5, <1>6

LEMMA FirstIs ==
  ASSUME NEW p \in Path, NEW n \in 0 .. Len(p)
  PROVE  /\ SubSeq(p, 1, n) \in Path /\ Len(SubSeq(p, 1, n)) = n
         /\ \A i \in 1 .. n : SubSeq(p, 1, n)[i] = p[i]
<1>1. Len(p) \in Nat /\ \A i \in 1 .. Len(p) : p[i] \in Chars
  BY LenProperties, ElementOfSeq DEF Path
<1>2. n \in Nat /\ \A i \in 1 .. n : p[i] \in Chars
  BY <1>1
<1>4. /\ SubSeq(p, 1, n) \in Path
      /\ Len(SubSeq(p, 1, n)) = IF 1 <= n THEN n - 1 + 1 ELSE 0
      /\ \A i \in 1 .. n - 1 + 1 : SubSeq(p, 1, n)[i] = p[1 + i - 1]
  BY <1>2, SubSeqProperties DEF Path
<1>5. Len(SubSeq(p, 1, n)) = n
  BY <1>2, <1>4
<1>6. ASSUME NEW i \in 1 .. n PROVE SubSeq(p, 1, n)[i] = p[i]
  <2>1. i \in 1 .. n - 1 + 1 /\ 1 + i - 1 = i
    BY <1>2
  <2> QED BY <1>4, <2>1
<1> QED BY <1>4, <1>5, <1>6

LEMMA CutAt ==
  ASSUME NEW p \in Path, NEW n \in 0 .. Len(p)
  PROVE  p = SubSeq(p, 1, n) \o Drop(p, n)
<1>1. Len(p) \in Nat
  BY LenProperties DEF Path
<1>2. 1 \in 1 .. Len(p) + 1 /\ n \in 1 - 1 .. Len(p) /\ Len(p) \in n .. Len(p)
  BY <1>1
<1>3. SubSeq(p, 1, n) \o SubSeq(p, n + 1, Len(p)) = SubSeq(p, 1, Len(p))
  BY <1>2, ConcatAdjacentSubSeq DEF Path
<1> QED BY <1>3, SubSeqFull DEF Drop, Path

LEMMA DropDrop ==
  ASSUME NEW p \in Path, NEW n \in Nat, NEW m \in Nat, n + m <= Len(p)
  PROVE  Drop(Drop(p, n), m) = Drop(p, n + m)
<1>1. PICK l \in Nat : l = Len(p)
  BY LenProperties DEF Path
<1>2. n \in 0 .. Len(p) /\ n + m \in 0 .. Len(p) /\ n + m <= l
  BY <1>1
<1>3. /\ Drop(p, n) \in Path /\ Len(Drop(p, n)) = l - n
      /\ \A i \in 1 .. l - n : Drop(p, n)[i] = p[n + i]
  BY <1>1, <1>2, DropIs
<1>4. m \in 0 .. Len(Drop(p, n))
  BY <1>2, <1>3
<1>5. /\ Drop(Drop(p, n), m) \in Path /\ Len(Drop(Drop(p, n), m)) = l - n - m
      /\ \A i \in 1 .. l - n - m : Drop(Drop(p, n), m)[i] = Drop(p, n)[m + i]
  BY <1>3, <1>4, DropIs
<1>6. /\ Drop(p, n + m) \in Path /\ Len(Drop(p, n + m)) = l - (n + m)
      /\ \A i \in 1 .. l - (n + m) : Drop(p, n + m)[i] = p[n + m + i]
  <2>1. PICK k \in 0 .. Len(p) : k = n + m
    BY <1>2
  <2>2. /\ Drop(p, k) \in Path /\ Len(Drop(p, k)) = Len(p) - k
        /\ \A i \in 1 .. Len(p) - k : Drop(p, k)[i] = p[k + i]
    BY DropIs
  <2> QED BY <1>1, <2>1, <2>2
<1>7. l - n - m = l - (n + m)
  OBVIOUS
<1>8. ASSUME NEW i \in 1 .. l - n - m PROVE Drop(Drop(p, n), m)[i] = Drop(p, n + m)[i]
  <2>1. m + i \in 1 .. l - n /\ n + (m + i) = n + m + i /\ i \in 1 .. l - (n + m)
    OBVIOUS
  <2> QED BY <1>3, <1>5, <1>6, <2>1
<1>9. Len(Drop(Drop(p, n), m)) = Len(Drop(p, n + m))
  BY <1>5, <1>6, <1>7
<1>10. \A i \in 1 .. Len(Drop(Drop(p, n), m)) : Drop(Drop(p, n), m)[i] = Drop(p, n + m)[i]
  BY <1>5, <1>8
<1>11. Drop(Drop(p, n), m) \in Path /\ Drop(p, n + m) \in Path
  BY <1>5, <1>6
<1> HIDE DEF Drop
<1> QED BY <1>9, <1>10, <1>11, SeqEqual DEF Path

\* p begins with a slash, and ends with one.
Absolute(p) == p # <<>> /\ p[1] = "/"
Closed(p) == p # <<>> /\ p[Len(p)] = "/"

LEMMA NotEmpty == \A p \in Path : p # <<>> => Len(p) \in Nat /\ Len(p) >= 1
<1> SUFFICES ASSUME NEW p \in Path, p # <<>> PROVE Len(p) \in Nat /\ Len(p) >= 1
  OBVIOUS
<1>1. Len(p) \in Nat \ {0}
  BY EmptySeq DEF Path
<1> QED BY <1>1

LEMMA OneChar ==
  ASSUME NEW p \in Path, Len(p) = 1
  PROVE  p = <<p[1]>>
<1>0. 1 \in 1 .. Len(p)
  OBVIOUS
<1>1. p[1] \in Chars
  BY <1>0, ElementOfSeq DEF Path
<1>2. <<p[1]>> \in Path /\ Len(<<p[1]>>) = 1 /\ <<p[1]>>[1] = p[1]
  BY <1>1 DEF Path
<1>3. \A i \in 1 .. Len(p) : p[i] = <<p[1]>>[i]
  OBVIOUS
<1> QED BY <1>2, <1>3, SeqEqual DEF Path

LEMMA AbsoluteIs ==
  ASSUME NEW p \in Path
  PROVE  /\ IsPrefix(Slash, p) <=> Absolute(p)
         /\ Absolute(p) => p = Slash \o Drop(p, 1) /\ Drop(p, 1) \in Path /\ 1 \in 0 .. Len(p)
<1>1. Len(p) \in Nat /\ (p # <<>> => Len(p) >= 1)
  BY NotEmpty, LenProperties DEF Path
<1>2. CASE p = <<>>
  <2>1. Len(p) = 0
    BY <1>2, EmptySeq
  <2> QED BY <1>2, <2>1, SlashIs DEF IsPrefix, Absolute
<1>3. CASE p # <<>>
  <2>1. 1 \in 0 .. Len(p)
    BY <1>1, <1>3
  <2>2. SubSeq(p, 1, 1) \in Path /\ Len(SubSeq(p, 1, 1)) = 1 /\ SubSeq(p, 1, 1)[1] = p[1]
    BY <2>1, FirstIs
  <2>3. SubSeq(p, 1, 1) = <<p[1]>>
    BY <2>2, OneChar
  <2>4. SubSeq(Slash, 1, 1) = Slash
    BY SlashIs, SubSeqFull DEF Path
  <2>5. IsPrefix(Slash, p) <=> <<p[1]>> = Slash
    BY <1>1, <1>3, <2>3, <2>4, SlashIs DEF IsPrefix
  <2>6. <<p[1]>> = Slash <=> p[1] = "/"
    BY DEF Slash
  <2>7. p = SubSeq(p, 1, 1) \o Drop(p, 1) /\ Drop(p, 1) \in Path
    BY <2>1, CutAt, DropIs
  <2> QED BY <1>3, <2>1, <2>3, <2>5, <2>6, <2>7 DEF Absolute
<1> QED BY <1>2, <1>3

LEMMA ClosedIs ==
  ASSUME NEW p \in Path, Closed(p)
  PROVE  \E q \in Path : p = q \o Slash
<1>1. Len(p) \in Nat /\ Len(p) >= 1
  BY NotEmpty DEF Closed
<1>2. Len(p) - 1 \in 0 .. Len(p)
  BY <1>1
<1>3. p = SubSeq(p, 1, Len(p) - 1) \o Drop(p, Len(p) - 1) /\ SubSeq(p, 1, Len(p) - 1) \in Path
  BY <1>2, CutAt, FirstIs
<1>4. /\ Drop(p, Len(p) - 1) \in Path /\ Len(Drop(p, Len(p) - 1)) = Len(p) - (Len(p) - 1)
      /\ \A i \in 1 .. Len(p) - (Len(p) - 1) : Drop(p, Len(p) - 1)[i] = p[Len(p) - 1 + i]
  BY <1>2, DropIs
<1>5. Len(p) - (Len(p) - 1) = 1 /\ Len(p) - 1 + 1 = Len(p) /\ 1 \in 1 .. Len(p) - (Len(p) - 1)
  BY <1>1
<1>6. Len(Drop(p, Len(p) - 1)) = 1 /\ Drop(p, Len(p) - 1)[1] = "/"
  BY <1>4, <1>5 DEF Closed
<1>7. Drop(p, Len(p) - 1) = Slash
  BY <1>4, <1>6, OneChar DEF Slash
<1> QED BY <1>3, <1>7

-----------------------------------------------------------------------------
(* Where a path leads.                                                      *)
Fresh(d) == [dir |-> d, comp |-> <<>>]

\* The directory p leads to from d; a slash at the front does not matter here.
Walk(d, p) == LET s == Read(Fresh(d), p) IN Enter(s.dir, s.comp)

LEMMA FreshIs == \A d \in Directory : Fresh(d) \in Reader /\ Fresh(d).dir = d /\ Fresh(d).comp = <<>>
BY EmptySeq DEF Fresh, Reader, Path

LEMMA WalkType ==
  ASSUME NEW d \in Directory, NEW p \in Path
  PROVE  Walk(d, p) \in Directory
<1>1. Read(Fresh(d), p) \in Reader
  BY FreshIs, ReadType
<1> QED BY <1>1, EnterIs DEF Walk, Reader

LEMMA NamesWalk ==
  ASSUME NEW d \in Directory, NEW p \in Path
  PROVE  /\ Absolute(p) => Names(d, p) = Walk(<<>>, p)
         /\ ~ Absolute(p) => Names(d, p) = Walk(d, p)
<1>1. Names(d, p) = Walk(IF IsPrefix(Slash, p) THEN <<>> ELSE d, p)
  BY NamesIs DEF Walk, Read, Fresh
<1> QED BY <1>1, AbsoluteIs

LEMMA EnterNothing == \A d : Enter(d, <<>>) = d /\ Enter(d, Dot) = d
BY DotDotIs DEF Enter

LEMMA WalkNothing == \A d \in Directory : Walk(d, <<>>) = d
BY FreshIs, ReadNothing, EnterNothing DEF Walk

LEMMA ReadOne ==
  ASSUME NEW s \in Reader, NEW p \in Path, Len(p) = 1
  PROVE  Read(s, p) = Advance(s, p[1])
<1>1. PICK r \in [0 .. Len(p) -> Reader] :
        /\ Read(s, p) = r[Len(p)] /\ r[0] = s
        /\ \A n \in 1 .. Len(p) : r[n] = Advance(r[n - 1], p[n])
  BY ReadingIs
<1>2. 1 \in 1 .. Len(p) /\ 1 - 1 = 0
  OBVIOUS
<1>3. r[1] = Advance(r[1 - 1], p[1])
  BY <1>1, <1>2
<1> QED BY <1>1, <1>2, <1>3

LEMMA ReadSlash == \A s \in Reader : Read(s, Slash) = Fresh(Enter(s.dir, s.comp))
BY SlashIs, ReadOne DEF Advance, Fresh

LEMMA WalkDot == \A d \in Directory : Walk(d, Dot) = d
<1> SUFFICES ASSUME NEW d \in Directory PROVE Walk(d, Dot) = d
  OBVIOUS
<1>1. Read(Fresh(d), Dot) = Advance(Fresh(d), ".")
  BY SlashIs, ReadOne, FreshIs
<1>2. Append(<<>>, ".") = Dot
  BY DEF Dot
<1>3. Advance(Fresh(d), ".") = [dir |-> d, comp |-> Dot]
  BY <1>2, SlashIs DEF Advance, Fresh
<1> QED BY <1>1, <1>3, EnterNothing DEF Walk

LEMMA WalkSlash ==
  ASSUME NEW d \in Directory, NEW q \in Path
  PROVE  Walk(d, Slash \o q) = Walk(d, q)
<1>1. Read(Fresh(d), Slash \o q) = Read(Read(Fresh(d), Slash), q)
  BY FreshIs, SlashIs, ReadConcat
<1>2. Read(Fresh(d), Slash) = Fresh(d)
  BY FreshIs, ReadSlash, EnterNothing
<1> QED BY <1>1, <1>2 DEF Walk

\* A path in two parts, with a slash where they meet
LEMMA WalkJoin ==
  ASSUME NEW d \in Directory, NEW x \in Path, NEW y \in Path, y = <<>> \/ Absolute(y) \/ Closed(x)
  PROVE  Walk(d, x \o y) = Walk(Walk(d, x), y)
<1>1. Fresh(d) \in Reader /\ Read(Fresh(d), x) \in Reader /\ Walk(d, x) \in Directory
  BY FreshIs, ReadType, WalkType
<1>2. CASE y = <<>>
  BY <1>1, <1>2, WalkNothing, ConcatEmptySeq DEF Path
<1>3. CASE Absolute(y)
  <2>1. PICK z \in Path : y = Slash \o z
    BY <1>3, AbsoluteIs
  <2>2. Read(Fresh(d), x \o y) = Read(Read(Fresh(d), x), y)
    BY <1>1, ReadConcat
  <2>3. Read(Read(Fresh(d), x), Slash \o z) = Read(Read(Read(Fresh(d), x), Slash), z)
    BY <1>1, SlashIs, ReadConcat
  <2>4. Read(Read(Fresh(d), x), Slash) = Fresh(Walk(d, x))
    BY <1>1, ReadSlash DEF Walk
  <2>5. Read(Fresh(d), x \o y) = Read(Fresh(Walk(d, x)), z)
    BY <2>1, <2>2, <2>3, <2>4
  <2>6. Walk(d, x \o y) = Walk(Walk(d, x), z)
    BY <2>5 DEF Walk
  <2> QED BY <1>1, <2>1, <2>6, WalkSlash
<1>4. CASE Closed(x)
  <2>1. PICK z \in Path : x = z \o Slash
    BY <1>4, ClosedIs
  <2>2. Read(Fresh(d), x) = Read(Read(Fresh(d), z), Slash)
    BY <1>1, <2>1, SlashIs, ReadConcat
  <2>3. Read(Fresh(d), x) = Fresh(Walk(d, z)) /\ Walk(d, z) \in Directory
    BY <1>1, <2>2, ReadType, ReadSlash, WalkType DEF Walk
  <2>4. Walk(d, x) = Walk(d, z)
    BY <2>3, EnterNothing, FreshIs DEF Walk
  <2>5. Read(Fresh(d), x \o y) = Read(Fresh(Walk(d, x)), y)
    BY <1>1, <2>3, <2>4, ReadConcat
  <2> QED BY <2>5 DEF Walk
<1> QED BY <1>2, <1>3, <1>4

\* The slashes at the front
LEMMA SkipSlashes ==
  ASSUME NEW d \in Directory, NEW p \in Path, NEW n \in 0 .. Len(p), \A i \in 1 .. n : p[i] = "/"
  PROVE  Walk(d, Drop(p, n)) = Walk(d, p)
<1>0. PICK l \in Nat : l = Len(p)
  BY LenProperties DEF Path
<1>n. n \in Nat /\ n <= l
  BY <1>0
<1> DEFINE T == {i \in 0 .. n : Walk(d, Drop(p, i)) = Walk(d, p)}
<1>1. 0 \in T
  <2>1. Drop(p, 0) = p
    BY SubSeqFull DEF Drop, Path
  <2> QED BY <1>n, <2>1
<1>2. ASSUME NEW i \in 1 .. n, i - 1 \in T PROVE i \in T
  <2>1. i - 1 \in 0 .. Len(p) /\ i - 1 \in Nat /\ i - 1 + 1 <= Len(p) /\ i - 1 + 1 = i /\ 1 \in 1 .. Len(p) - (i - 1)
    BY <1>0, <1>n
  <2>2. PICK q : q = Drop(p, i - 1)
    OBVIOUS
  <2>3. q \in Path /\ Len(q) = Len(p) - (i - 1) /\ q[1] = p[i]
    BY <2>1, <2>2, DropIs
  <2>4. Drop(q, 1) = Drop(p, i)
    BY <2>1, <2>2, DropDrop
  <2>5. Absolute(q)
    <3>1. Len(q) # 0
      BY <2>1, <2>3
    <3> QED BY <2>3, <3>1, EmptySeq DEF Absolute
  <2>6. q = Slash \o Drop(q, 1) /\ Drop(q, 1) \in Path
    BY <2>3, <2>5, AbsoluteIs
  <2>7. Walk(d, q) = Walk(d, Drop(q, 1))
    BY <2>6, WalkSlash
  <2>8. Walk(d, q) = Walk(d, p)
    BY <1>2, <2>2
  <2> QED BY <2>4, <2>7, <2>8
<1> HIDE DEF T
<1>3. \A i \in 0 .. n : i \in T
  BY <1>1, <1>2, <1>n, Upwards
<1>4. n \in 0 .. n
  BY <1>n
<1> QED BY <1>3, <1>4 DEF T

-----------------------------------------------------------------------------
(* The prefixes of pre-opened directories.                                  *)
LEMMA SlashesIs ==
  ASSUME NEW p \in Path, NEW i \in 1 .. Len(p) + 1
  PROVE  /\ SlashesFrom(p, i) \in Nat /\ i + SlashesFrom(p, i) <= Len(p) + 1
         /\ \A j \in i .. i + SlashesFrom(p, i) - 1 : p[j] = "/"
         /\ i + SlashesFrom(p, i) <= Len(p) => p[i + SlashesFrom(p, i)] # "/"
<1>0. PICK l \in Nat : l = Len(p)
  BY LenProperties DEF Path
<1> DEFINE S == {j \in i .. Len(p) : p[j] # "/"} \cup {Len(p) + 1}
<1>1. S \subseteq Nat /\ S # {}
  BY <1>0
<1>2. Min(S) \in S /\ \A y \in S : Min(S) <= y
  BY <1>1, MinOfNaturals
<1>3. PICK m : m = Min(S)
  OBVIOUS
<1>4. SlashesFrom(p, i) = m - i
  BY <1>3 DEF SlashesFrom
<1>5. m \in S /\ \A y \in S : m <= y
  BY <1>2, <1>3
<1>6. m \in Nat /\ i <= m /\ m <= l + 1 /\ (m <= l => p[m] # "/")
  BY <1>0, <1>5
<1>7. \A j \in i .. m - 1 : p[j] = "/"
  <2> SUFFICES ASSUME NEW j \in i .. m - 1, p[j] # "/" PROVE FALSE
    OBVIOUS
  <2>1. j \in i .. Len(p) /\ ~(m <= j)
    BY <1>0, <1>6
  <2> QED BY <1>5, <2>1
<1>8. i + (m - i) = m /\ i + (m - i) - 1 = m - 1 /\ m - i \in Nat
  BY <1>6
<1> QED BY <1>0, <1>4, <1>6, <1>7, <1>8

\* Where a prefix that matches ends, the path ends or has a slash on one side.
LEMMA PrefixMatchesIs ==
  ASSUME NEW pre \in Path, NEW p \in Path, ~ Absolute(p), PrefixMatches(pre, p), pre # <<>>
  PROVE  /\ Len(pre) \in 0 .. Len(p) /\ SubSeq(p, 1, Len(pre)) = pre
         /\ \/ Drop(p, Len(pre)) = <<>> \/ Absolute(Drop(p, Len(pre))) \/ Closed(pre)
<1>0. PICK lp \in Nat, l \in Nat : lp = Len(pre) /\ l = Len(p)
  BY LenProperties DEF Path
<1> DEFINE S == {n \in 0 .. Len(pre) : \A i \in n + 1 .. Len(pre) : pre[i] = "/"}
<1>1. IsPrefix(pre, p) /\ (Min(S) = Len(p) \/ p[Min(S) + 1] = "/")
  BY DEF PrefixMatches
<1>2. PICK b : b = Min(S)
  OBVIOUS
<1>3. S \subseteq Nat /\ Len(pre) \in S
  BY <1>0
<1>4. Min(S) \in S
  BY <1>3, MinOfNaturals
<1>5. b \in 0 .. lp /\ (\A i \in b + 1 .. lp : pre[i] = "/") /\ (b = l \/ p[b + 1] = "/")
  BY <1>0, <1>1, <1>2, <1>4
<1>6. lp <= l /\ SubSeq(pre, 1, Len(pre)) = SubSeq(p, 1, Len(pre))
  BY <1>0, <1>1 DEF IsPrefix
<1>7. Len(pre) \in 0 .. Len(p)
  BY <1>0, <1>6
<1>8. SubSeq(p, 1, Len(pre)) = pre
  BY <1>6, SubSeqFull DEF Path
<1>9. /\ Drop(p, Len(pre)) \in Path /\ Len(Drop(p, Len(pre))) = l - lp
      /\ \A i \in 1 .. l - lp : Drop(p, Len(pre))[i] = p[lp + i]
  BY <1>0, <1>7, DropIs
<1>10. CASE b < lp
  <2>1. lp \in b + 1 .. lp
    BY <1>5, <1>10
  <2>2. pre[Len(pre)] = "/"
    BY <1>0, <1>5, <2>1
  <2> QED BY <1>7, <1>8, <2>2 DEF Closed
<1>11. CASE b = lp /\ lp = l
  <2>1. Len(Drop(p, Len(pre))) = 0
    BY <1>9, <1>11
  <2>2. Drop(p, Len(pre)) = <<>>
    BY <1>9, <2>1, EmptySeq DEF Path
  <2> QED BY <1>7, <1>8, <2>2
<1>12. CASE b = lp /\ lp # l
  <2>1. p[lp + 1] = "/" /\ 1 \in 1 .. l - lp /\ l - lp # 0
    BY <1>5, <1>6, <1>12
  <2>2. Drop(p, Len(pre))[1] = "/" /\ Len(Drop(p, Len(pre))) # 0
    BY <1>9, <2>1
  <2>3. Drop(p, Len(pre)) # <<>>
    BY <2>2, EmptySeq
  <2> QED BY <1>7, <1>8, <2>2, <2>3 DEF Absolute
<1> QED BY <1>5, <1>10, <1>11, <1>12

\* What __wasilibc_find_abspath returns for a prefix that matches
RelOf(p, n) == IF Drop(p, n) = <<>> THEN Dot ELSE Drop(p, n)

LEMMA WalkRel ==
  ASSUME NEW d \in Directory, NEW p \in Path, NEW n \in 0 .. Len(p)
  PROVE  RelOf(p, n) \in Path /\ Walk(d, RelOf(p, n)) = Walk(d, Drop(p, n))
BY DropIs, SlashIs, WalkDot, WalkNothing DEF RelOf

LEMMA MatchReached ==
  ASSUME NEW p \in Path, Absolute(p), NEW pre \in Path,
         PrefixMatches(pre, Drop(p, SlashesFrom(p, 1))), pre # <<>>,
         NEW rel, rel = RelOf(p, MatchLen(p, SlashesFrom(p, 1), pre))
  PROVE  rel \in Path /\ ~ Absolute(rel) /\ Walk(Walk(<<>>, pre), rel) = Walk(<<>>, p)
<1>0. PICK l \in Nat : l = Len(p)
  BY LenProperties DEF Path
<1>d. <<>> \in Directory
  BY EmptySeq DEF Directory
<1>1. PICK k : k = SlashesFrom(p, 1)
  OBVIOUS
<1>2. 1 \in 1 .. Len(p) + 1
  BY <1>0
<1>3. /\ k \in Nat /\ 1 + k <= l + 1 /\ (\A j \in 1 .. 1 + k - 1 : p[j] = "/")
      /\ 1 + k <= l => p[1 + k] # "/"
  BY <1>0, <1>1, <1>2, SlashesIs
<1>4. k \in 0 .. Len(p) /\ 1 + k - 1 = k
  BY <1>0, <1>3
<1>5. PICK q : q = Drop(p, k)
  OBVIOUS
<1>6. q \in Path /\ Len(q) = l - k /\ \A i \in 1 .. l - k : q[i] = p[k + i]
  BY <1>0, <1>4, <1>5, DropIs
<1>7. ~ Absolute(q)
  <2> SUFFICES ASSUME Absolute(q) PROVE FALSE
    OBVIOUS
  <2>1. Len(q) \in Nat /\ Len(q) >= 1 /\ q[1] = "/"
    BY <1>6, NotEmpty DEF Absolute
  <2>2. 1 \in 1 .. l - k /\ k + 1 = 1 + k /\ 1 + k <= l
    BY <1>3, <1>6, <2>1
  <2> QED BY <1>3, <1>6, <2>1, <2>2
<1>8. Walk(<<>>, q) = Walk(<<>>, p)
  BY <1>3, <1>4, <1>5, <1>d, SkipSlashes
<1>9. PrefixMatches(pre, q)
  BY <1>1, <1>5
<1>10. PICK lp \in Nat : lp = Len(pre)
  BY LenProperties DEF Path
<1>11. /\ lp \in 0 .. Len(q) /\ SubSeq(q, 1, lp) = pre
       /\ Drop(q, lp) = <<>> \/ Absolute(Drop(q, lp)) \/ Closed(pre)
  BY <1>6, <1>7, <1>9, <1>10, PrefixMatchesIs
<1>12. PICK t : t = Drop(q, lp)
  OBVIOUS
<1>13. q = pre \o t /\ t \in Path /\ Len(t) = Len(q) - lp /\ \A i \in 1 .. Len(q) - lp : t[i] = q[lp + i]
  BY <1>6, <1>11, <1>12, CutAt, DropIs
<1>14. Walk(<<>>, q) = Walk(Walk(<<>>, pre), t)
  <2>1. t = <<>> \/ Absolute(t) \/ Closed(pre)
    BY <1>11, <1>12
  <2>2. t \in Path
    BY <1>13
  <2>3. Walk(<<>>, pre \o t) = Walk(Walk(<<>>, pre), t)
    BY <2>1, <2>2, <1>d, WalkJoin
  <2> QED BY <1>13, <2>3
<1>15. PICK m : m = SlashesFrom(p, k + lp + 1)
  OBVIOUS
<1>16. k + lp + 1 \in 1 .. Len(p) + 1 /\ lp <= l - k /\ Len(t) = l - k - lp
  BY <1>0, <1>4, <1>6, <1>11, <1>13
<1>17. /\ m \in Nat /\ k + lp + 1 + m <= l + 1
       /\ \A j \in k + lp + 1 .. k + lp + 1 + m - 1 : p[j] = "/"
       /\ k + lp + 1 + m <= l => p[k + lp + 1 + m] # "/"
  BY <1>0, <1>15, <1>16, SlashesIs
<1>a. m \in Nat /\ k \in Nat /\ k + lp + 1 + m <= l + 1
  BY <1>3, <1>17
<1>b. k + lp + m <= l
  BY <1>3, <1>a
<1>c. Len(t) \in Nat /\ Len(t) = l - k - lp /\ k + lp <= l
  BY <1>3, <1>16
<1>18. \A i \in 1 .. l - k - lp : t[i] = p[k + (lp + i)]
  <2> SUFFICES ASSUME NEW i \in 1 .. l - k - lp PROVE t[i] = p[k + (lp + i)]
    OBVIOUS
  <2>1. i \in 1 .. Len(q) - lp /\ lp + i \in 1 .. l - k
    BY <1>6
  <2> QED BY <1>6, <1>13, <2>1
<1>19. m \in 0 .. Len(t) /\ \A i \in 1 .. m : t[i] = "/"
  <2>1. m \in 0 .. Len(t)
    BY <1>a, <1>b, <1>c
  <2>2. ASSUME NEW i \in 1 .. m PROVE t[i] = "/"
    <3>1. i \in 1 .. l - k - lp /\ k + (lp + i) \in k + lp + 1 .. k + lp + 1 + m - 1
      BY <1>a, <1>b
    <3> QED BY <1>17, <1>18, <3>1
  <2> QED BY <2>1, <2>2
<1>20. Walk(<<>>, pre) \in Directory
  BY <1>d, WalkType
<1>21. Walk(Walk(<<>>, pre), Drop(t, m)) = Walk(Walk(<<>>, pre), t)
  BY <1>13, <1>19, <1>20, SkipSlashes
<1>22. PICK n \in Nat : n = k + lp + m
  BY <1>3, <1>17
<1>23. MatchLen(p, SlashesFrom(p, 1), pre) = n
  BY <1>1, <1>10, <1>15, <1>22 DEF MatchLen
<1>24. n \in 0 .. Len(p) /\ n <= l
  BY <1>0, <1>b, <1>22
<1>25. Drop(t, m) = Drop(p, n)
  <2>1. lp + m \in Nat /\ lp + m <= Len(q) /\ k + (lp + m) <= Len(p) /\ k + (lp + m) = n
    <3>1. lp + m \in Nat /\ lp + m <= l - k /\ k + (lp + m) <= l /\ k + (lp + m) = k + lp + m
      BY <1>a, <1>b
    <3> QED BY <1>0, <1>6, <1>22, <3>1
  <2>2. Drop(t, m) = Drop(q, lp + m)
    BY <1>6, <1>12, <1>17, <2>1, DropDrop
  <2>3. Drop(q, lp + m) = Drop(p, k + (lp + m))
    BY <1>3, <1>5, <2>1, DropDrop
  <2> QED BY <2>1, <2>2, <2>3
<1>26. rel = RelOf(p, n)
  BY <1>23
<1>27. rel \in Path /\ Walk(Walk(<<>>, pre), rel) = Walk(Walk(<<>>, pre), Drop(p, n))
  BY <1>20, <1>24, <1>26, WalkRel
<1>28. ~ Absolute(rel)
  <2>1. CASE Drop(p, n) = <<>>
    BY <1>26, <2>1, SlashIs DEF RelOf, Absolute
  <2>2. CASE Drop(p, n) # <<>>
    <3>1. Drop(p, n) \in Path /\ Len(Drop(p, n)) = l - n /\ \A i \in 1 .. l - n : Drop(p, n)[i] = p[n + i]
      BY <1>0, <1>24, DropIs
    <3>2. l - n >= 1
      BY <2>2, <3>1, NotEmpty
    <3>3. 1 \in 1 .. l - n /\ n + 1 = k + lp + 1 + m /\ k + lp + 1 + m <= l
      <4>1. n + 1 = k + lp + 1 + m
        BY <1>a, <1>22
      <4>2. n + 1 <= l /\ 1 \in 1 .. l - n
        BY <3>2
      <4> QED BY <4>1, <4>2
    <3>4. Drop(p, n)[1] # "/"
      BY <1>17, <3>1, <3>3
    <3> QED BY <1>26, <2>2, <3>4 DEF RelOf, Absolute
  <2> QED BY <2>1, <2>2
<1> QED BY <1>8, <1>14, <1>21, <1>25, <1>27, <1>28

-----------------------------------------------------------------------------
(* The entry the loop of __wasilibc_find_abspath settles for.               *)
\* best[i] in BestMatch, from what was best before
Better(path, i, m) ==
  LET skip == SlashesFrom(path, 1)
      prefix == preopens[i + 1] IN
  IF (m.at = 0 \/ Len(prefix) > m.len) /\ PrefixMatches(prefix, Drop(path, skip))
  THEN [at |-> i + 1, len |-> MatchLen(path, skip, prefix)]
  ELSE m

IsBest(b, path) ==
  b = [i \in 0 .. Len(preopens) |->
         IF i = Len(preopens) THEN [at |-> 0, len |-> 0] ELSE Better(path, i, b[i + 1])]

LEMMA BestMatchIs == \A path : BestMatch(path) = (CHOOSE b : IsBest(b, path))[0]
BY DEF BestMatch, IsBest, Better

\* The loop has found nothing yet, or a prefix that matches and its length.
GoodMatch(path, m) ==
  /\ m.at \in 0 .. Len(preopens)
  /\ m.at # 0 =>
       /\ PrefixMatches(preopens[m.at], Drop(path, SlashesFrom(path, 1)))
       /\ m.len = MatchLen(path, SlashesFrom(path, 1), preopens[m.at])

LEMMA BetterIsGood ==
  ASSUME NEW path, preopens \in Seq(Path), NEW i \in 0 .. Len(preopens) - 1, NEW m, GoodMatch(path, m)
  PROVE  GoodMatch(path, Better(path, i, m))
<1>0. PICK l \in Nat : l = Len(preopens)
  BY LenProperties
<1>1. i + 1 \in 0 .. l /\ i + 1 # 0
  BY <1>0
<1> DEFINE skip == SlashesFrom(path, 1)
           prefix == preopens[i + 1]
<1>2. CASE (m.at = 0 \/ Len(prefix) > m.len) /\ PrefixMatches(prefix, Drop(path, skip))
  <2>1. Better(path, i, m) = [at |-> i + 1, len |-> MatchLen(path, skip, prefix)]
    BY <1>2 DEF Better
  <2> QED BY <1>0, <1>1, <1>2, <2>1 DEF GoodMatch
<1>3. CASE ~((m.at = 0 \/ Len(prefix) > m.len) /\ PrefixMatches(prefix, Drop(path, skip)))
  BY <1>3 DEF Better
<1> QED BY <1>2, <1>3

LEMMA BestExists ==
  ASSUME NEW path, preopens \in Seq(Path)
  PROVE  \E b : IsBest(b, path)
<1>0. PICK l \in Nat : l = Len(preopens)
  BY LenProperties
<1> DEFINE D == 0 .. Len(preopens)
           None == [at |-> 0, len |-> 0]
           Found(i) == [at |-> i, len |-> MatchLen(path, SlashesFrom(path, 1), preopens[i])]
           S == {None} \cup {Found(i) : i \in 1 .. Len(preopens)}
           rank == [i \in D |-> l - i]
           GG(i, g) == IF i = Len(preopens) THEN None ELSE Better(path, i, g[i + 1])
           G == [x \in D \X [D -> S] |-> GG(x[1], x[2])]
<1>1. rank \in [D -> 0 .. l]
  BY <1>0
<1>2. ASSUME NEW i \in D, NEW g \in [D -> S] PROVE GG(i, g) \in S
  <2>1. CASE i = Len(preopens)
    BY <2>1
  <2>2. CASE i # Len(preopens)
    <3>1. i + 1 \in D /\ i + 1 \in 1 .. Len(preopens)
      BY <1>0, <2>2
    <3>2. g[i + 1] \in S /\ Found(i + 1) \in S
      BY <3>1
    <3>3. Better(path, i, g[i + 1]) \in {Found(i + 1), g[i + 1]}
      BY DEF Better
    <3> HIDE DEF S
    <3> QED BY <2>2, <3>2, <3>3
  <2> QED BY <2>1, <2>2
<1>3. G \in [D \X [D -> S] -> S]
  <2> HIDE DEF S, GG
  <2> QED BY <1>2
<1>4. \A i \in D, g \in [D -> S] : G[<<i, g>>] = GG(i, g)
  OBVIOUS
<1>5. Ranked(D, S, rank, G)
  <2> SUFFICES ASSUME NEW i \in D, NEW g \in [D -> S], NEW h \in [D -> S],
                      \A e \in D : rank[e] < rank[i] => g[e] = h[e]
               PROVE  GG(i, g) = GG(i, h)
    <3> HIDE DEF GG, S, rank, G, D
    <3> QED BY <1>4 DEF Ranked
  <2>1. CASE i = Len(preopens)
    BY <2>1
  <2>2. CASE i # Len(preopens)
    <3>1. i + 1 \in D /\ l - (i + 1) < l - i
      BY <1>0, <2>2
    <3>2. g[i + 1] = h[i + 1]
      BY <3>1
    <3> QED BY <2>2, <3>2
  <2> QED BY <2>1, <2>2
<1>6. S # {}
  OBVIOUS
<1> HIDE DEF D, rank, G, S
<1>7. Recursive(D, S, l, rank, G)
  BY <1>0, <1>1, <1>3, <1>5, <1>6 DEF Recursive
<1>8. PICK f \in [D -> S] : \A d \in D : f[d] = G[<<d, f>>]
  BY <1>7, RankRecursion DEF Solvable
<1>9. \A d \in D : f[d] = GG(d, f)
  BY <1>4, <1>8
<1>10. f = [n \in D |-> GG(n, f)]
  <2> HIDE DEF GG
  <2> QED BY <1>9
<1> QED BY <1>10 DEF IsBest, D

LEMMA BestIsGood ==
  ASSUME NEW path, preopens \in Seq(Path)
  PROVE  GoodMatch(path, BestMatch(path))
<1>0. PICK l \in Nat : l = Len(preopens)
  BY LenProperties
<1>1. PICK b : IsBest(b, path) /\ BestMatch(path) = b[0]
  BY BestExists, BestMatchIs
<1>2. \A i \in 0 .. l : b[i] = IF i = l THEN [at |-> 0, len |-> 0] ELSE Better(path, i, b[i + 1])
  BY <1>0, <1>1 DEF IsBest
<1> DEFINE T == {i \in 0 .. l : GoodMatch(path, b[i])}
<1>3. l \in T
  <2>1. b[l] = [at |-> 0, len |-> 0]
    BY <1>2
  <2> QED BY <1>0, <2>1 DEF GoodMatch
<1>4. ASSUME NEW i \in 0 .. l - 1, i + 1 \in T PROVE i \in T
  <2>1. i \in 0 .. l /\ i # l /\ i \in 0 .. Len(preopens) - 1
    BY <1>0
  <2>2. b[i] = Better(path, i, b[i + 1]) /\ GoodMatch(path, b[i + 1])
    BY <1>2, <1>4, <2>1
  <2>3. GoodMatch(path, b[i])
    BY <2>1, <2>2, BetterIsGood
  <2> QED BY <2>1, <2>3
<1> HIDE DEF T
<1>5. \A i \in 0 .. l : i \in T
  BY <1>3, <1>4, Downwards
<1>6. 0 \in T
  BY <1>5
<1> QED BY <1>1, <1>6 DEF T

-----------------------------------------------------------------------------
(* What is found for an absolute path.                                      *)
LEMMA SlashFirst ==
  ASSUME NEW p \in Path, NEW q \in Path
  PROVE  /\ p \o q \in Path
         /\ Absolute(p) => Absolute(p \o q)
         /\ Closed(p \o Slash) /\ p \o Slash \in Path
<1>0. PICK lp \in Nat, lq \in Nat : lp = Len(p) /\ lq = Len(q)
  BY LenProperties DEF Path
<1>1. /\ p \o q \in Path /\ Len(p \o q) = lp + lq
      /\ \A i \in 1 .. lp + lq : (p \o q)[i] = IF i <= lp THEN p[i] ELSE q[i - lp]
  BY <1>0, JoinedIs
<1>2. /\ p \o Slash \in Path /\ Len(p \o Slash) = lp + 1
      /\ \A i \in 1 .. lp + 1 : (p \o Slash)[i] = IF i <= lp THEN p[i] ELSE Slash[i - lp]
  <2>1. PICK s \in Path : s = Slash
    BY SlashIs
  <2>2. PICK ls \in Nat : ls = Len(s) /\ ls = 1
    BY <2>1, SlashIs
  <2>3. /\ p \o s \in Path /\ Len(p \o s) = Len(p) + Len(s)
        /\ \A i \in 1 .. Len(p) + Len(s) : (p \o s)[i] = IF i <= Len(p) THEN p[i] ELSE s[i - Len(p)]
    BY JoinedIs
  <2>4. /\ p \o s \in Path /\ Len(p \o s) = lp + ls
        /\ \A i \in 1 .. lp + ls : (p \o s)[i] = IF i <= lp THEN p[i] ELSE s[i - lp]
    BY <1>0, <2>2, <2>3
  <2> QED BY <2>1, <2>2, <2>4
<1>3. Closed(p \o Slash)
  <2>1. lp + 1 \in 1 .. lp + 1 /\ ~(lp + 1 <= lp) /\ lp + 1 - lp = 1 /\ lp + 1 # 0
    OBVIOUS
  <2>2. (p \o Slash)[lp + 1] = "/"
    BY <1>2, <2>1, SlashIs
  <2>3. p \o Slash # <<>>
    BY <1>2, <2>1, EmptySeq
  <2> QED BY <1>2, <2>2, <2>3 DEF Closed
<1>4. ASSUME Absolute(p) PROVE Absolute(p \o q)
  <2>1. lp >= 1
    BY <1>0, <1>4, NotEmpty DEF Absolute
  <2>2. 1 \in 1 .. lp + lq /\ 1 <= lp /\ lp + lq # 0
    BY <2>1
  <2>3. (p \o q)[1] = "/"
    BY <1>1, <1>4, <2>2 DEF Absolute
  <2>4. p \o q # <<>>
    BY <1>1, <2>2, EmptySeq
  <2> QED BY <2>3, <2>4 DEF Absolute
<1> QED BY <1>1, <1>2, <1>3, <1>4

LEMMA SlashAbsolute == Absolute(Slash)
BY SlashIs, EmptySeq DEF Absolute

LEMMA WalkClosed ==
  ASSUME NEW d \in Directory, NEW p \in Path
  PROVE  Walk(d, p \o Slash) = Walk(d, p)
<1>1. Walk(d, p \o Slash) = Walk(Walk(d, p), Slash)
  BY SlashAbsolute, SlashIs, WalkJoin
<1>2. Walk(d, p) \in Directory /\ <<>> \in Path
  BY WalkType, EmptySeq DEF Path
<1>3. Walk(Walk(d, p), Slash \o <<>>) = Walk(Walk(d, p), <<>>)
  BY <1>2, WalkSlash
<1>4. Slash \o <<>> = Slash
  BY SlashIs, ConcatEmptySeq DEF Path
<1> QED BY <1>1, <1>2, <1>3, <1>4, WalkNothing

\* A slash between two paths
LEMMA WalkBetween ==
  ASSUME NEW d \in Directory, NEW p \in Path, NEW q \in Path
  PROVE  Walk(d, p \o Slash \o q) = Walk(Walk(d, p), q)
<1>1. p \o Slash \in Path /\ Closed(p \o Slash)
  BY SlashFirst
<1>2. Walk(d, (p \o Slash) \o q) = Walk(Walk(d, p \o Slash), q)
  BY <1>1, WalkJoin
<1> QED BY <1>2, WalkClosed

LEMMA FindAbspathIs ==
  ASSUME NEW p, FindAbspath(p).found
  PROVE  LET m == BestMatch(p) IN
         m.at # 0 /\ FindAbspath(p).prefix = preopens[m.at] /\ FindAbspath(p).rel = RelOf(p, m.len)
BY DEF FindAbspath, NoLookup, RelOf

LEMMA RelNotEmpty == \A p, n : RelOf(p, n) # <<>>
<1>1. Dot # <<>>
  BY SlashIs, EmptySeq
<1> QED BY <1>1 DEF RelOf

\* What is found for an absolute path
LEMMA FoundIs ==
  ASSUME NEW p \in Path, Absolute(p), preopens \in Seq(Path), NEW l, l.found,
         l.prefix = FindAbspath(p).prefix, l.rel = FindAbspath(p).rel, FindAbspath(p).found
  PROVE  /\ Reached(l) = Walk(<<>>, p)
         /\ NewCwd(l) \in Path /\ Absolute(NewCwd(l)) /\ Walk(<<>>, NewCwd(l)) = Walk(<<>>, p)
<1>d. <<>> \in Directory /\ <<>> \in Path
  BY EmptySeq DEF Directory, Path
<1>1. PICK m : m = BestMatch(p)
  OBVIOUS
<1>2. m.at # 0 /\ l.prefix = preopens[m.at] /\ l.rel = RelOf(p, m.len) /\ GoodMatch(p, m)
  BY <1>1, FindAbspathIs, BestIsGood
<1>3. PICK pre, rel : pre = l.prefix /\ rel = l.rel
  OBVIOUS
<1>4. pre \in Path
  <2>1. Len(preopens) \in Nat
    BY LenProperties
  <2>2. m.at \in 1 .. Len(preopens)
    BY <1>2, <2>1 DEF GoodMatch
  <2>3. preopens[m.at] \in Path
    BY <2>2, ElementOfSeq
  <2> QED BY <1>2, <1>3, <2>3
<1>5. PrefixMatches(pre, Drop(p, SlashesFrom(p, 1))) /\ rel = RelOf(p, MatchLen(p, SlashesFrom(p, 1), pre))
  BY <1>2, <1>3 DEF GoodMatch
<1>6. Reached(l) = Names(Names(<<>>, Slash \o pre), rel)
  BY <1>3 DEF Reached
<1>7. Slash \o pre \in Path /\ Absolute(Slash \o pre)
  BY <1>4, SlashIs, SlashAbsolute, SlashFirst
<1>8. Names(<<>>, Slash \o pre) = Walk(<<>>, pre) /\ Walk(<<>>, pre) \in Directory
  BY <1>4, <1>7, <1>d, NamesWalk, WalkSlash, WalkType
<1> DEFINE back == IF rel = Dot THEN <<>> ELSE rel
           mid == IF back # <<>> /\ pre # <<>> THEN Slash ELSE <<>>
<1>9. NewCwd(l) = Slash \o pre \o mid \o back
  BY <1>3 DEF NewCwd
<1>10. CASE pre = <<>>
  <2>1. MatchLen(p, SlashesFrom(p, 1), pre) = 0
    BY <1>10 DEF MatchLen
  <2>2. Drop(p, 0) = p
    BY SubSeqFull DEF Drop, Path
  <2>3. rel = p
    BY <1>5, <2>1, <2>2 DEF RelOf, Absolute
  <2>4. Reached(l) = Walk(<<>>, p)
    BY <1>6, <1>8, <2>3, NamesWalk
  <2>5. p # Dot
    BY SlashIs DEF Absolute
  <2>6. mid = <<>> /\ back = p
    BY <1>10, <2>3, <2>5
  <2>7. NewCwd(l) = Slash \o p
    BY <1>9, <1>10, <2>6, SlashIs, ConcatEmptySeq DEF Path
  <2>8. Slash \o p \in Path /\ Absolute(Slash \o p)
    BY SlashIs, SlashAbsolute, SlashFirst
  <2>9. Walk(<<>>, Slash \o p) = Walk(<<>>, p)
    BY <1>d, WalkSlash
  <2> QED BY <2>4, <2>7, <2>8, <2>9
<1>11. CASE pre # <<>>
  <2>1. rel \in Path /\ ~ Absolute(rel) /\ Walk(Walk(<<>>, pre), rel) = Walk(<<>>, p)
    BY <1>4, <1>5, <1>11, MatchReached
  <2>2. Reached(l) = Walk(<<>>, p)
    BY <1>6, <1>8, <2>1, NamesWalk
  <2>3. CASE rel = Dot
    <3>1. mid = <<>> /\ back = <<>>
      BY <2>3
    <3>2. NewCwd(l) = Slash \o pre
      BY <1>7, <1>9, <3>1, ConcatEmptySeq DEF Path
    <3>3. Walk(<<>>, pre) = Walk(<<>>, p)
      BY <1>8, <2>1, <2>3, WalkDot
    <3>4. Walk(<<>>, Slash \o pre) = Walk(<<>>, pre)
      BY <1>4, <1>d, WalkSlash
    <3> QED BY <1>7, <2>2, <3>2, <3>3, <3>4
  <2>4. CASE rel # Dot
    <3>1. rel # <<>>
      BY <1>5, RelNotEmpty
    <3>2. NewCwd(l) = Slash \o pre \o Slash \o rel
      BY <1>9, <1>11, <2>4, <3>1
    <3>3. Slash \o pre \o Slash \in Path /\ Absolute(Slash \o pre \o Slash)
      BY <1>7, SlashIs, SlashFirst
    <3>4. Slash \o pre \o Slash \o rel \in Path /\ Absolute(Slash \o pre \o Slash \o rel)
      BY <2>1, <3>3, SlashFirst
    <3>5. Walk(<<>>, Slash \o pre \o Slash \o rel) = Walk(Walk(<<>>, Slash \o pre), rel)
      BY <1>7, <1>d, <2>1, WalkBetween
    <3>6. Walk(<<>>, Slash \o pre) = Walk(<<>>, pre)
      BY <1>4, <1>d, WalkSlash
    <3> QED BY <2>1, <2>2, <3>2, <3>4, <3>5, <3>6
  <2> QED BY <2>3, <2>4
<1> QED BY <1>10, <1>11

-----------------------------------------------------------------------------
(* make_absolute.                                                           *)
LEMMA PrefixCut ==
  ASSUME NEW pre \in Path, NEW p \in Path, IsPrefix(pre, p)
  PROVE  /\ Len(pre) \in 0 .. Len(p) /\ SubSeq(p, 1, Len(pre)) = pre
         /\ Drop(p, Len(pre)) \in Path /\ p = pre \o Drop(p, Len(pre))
<1>0. PICK lp \in Nat, l \in Nat : lp = Len(pre) /\ l = Len(p)
  BY LenProperties DEF Path
<1>1. lp <= l /\ SubSeq(pre, 1, Len(pre)) = SubSeq(p, 1, Len(pre))
  BY <1>0 DEF IsPrefix
<1>2. Len(pre) \in 0 .. Len(p)
  BY <1>0, <1>1
<1>3. SubSeq(p, 1, Len(pre)) = pre
  BY <1>1, SubSeqFull DEF Path
<1> QED BY <1>2, <1>3, CutAt, DropIs

LEMMA DotSlashIs == Dot \o Slash \in Path /\ Len(Dot \o Slash) = 2
BY SlashIs, ConcatProperties DEF Path

LEMMA WalkDotSlash ==
  ASSUME NEW d \in Directory, NEW q \in Path
  PROVE  Walk(d, Dot \o Slash \o q) = Walk(d, q) /\ Walk(d, Dot \o Slash) = d
BY SlashIs, WalkBetween, WalkClosed, WalkDot

\* The path made absolute names what path names in the working directory.
LEMMA MakeAbsoluteIs ==
  ASSUME NEW path \in Path, Cwd \in Path, Absolute(Cwd), NEW h \in Directory
  PROVE  /\ MakeAbsolute(path) \in Path /\ Absolute(MakeAbsolute(path))
         /\ Walk(<<>>, Cwd) = h => Walk(<<>>, MakeAbsolute(path)) = Names(h, path)
<1>e. <<>> \in Directory
  BY EmptySeq DEF Directory
<1>1. CASE Absolute(path)
  <2>1. MakeAbsolute(path) = path
    BY <1>1, AbsoluteIs DEF MakeAbsolute
  <2> QED BY <1>1, <2>1, NamesWalk
<1>2. CASE ~ Absolute(path)
  <2>0. PICK p : p = IF IsPrefix(Dot \o Slash, path) THEN Drop(path, 2) ELSE path
    OBVIOUS
  <2>1. p \in Path /\ Walk(h, path) = Walk(h, p)
    <3>1. CASE IsPrefix(Dot \o Slash, path)
      <4>1. PICK ds \in Path : ds = Dot \o Slash
        BY DotSlashIs
      <4>2. Drop(path, Len(ds)) \in Path /\ path = ds \o Drop(path, Len(ds))
        BY <3>1, <4>1, PrefixCut
      <4>3. p = Drop(path, Len(ds))
        BY <2>0, <3>1, <4>1, DotSlashIs
      <4>4. p \in Path /\ path = Dot \o Slash \o p
        BY <4>1, <4>2, <4>3
      <4> QED BY <4>4, WalkDotSlash
    <3>2. CASE ~ IsPrefix(Dot \o Slash, path)
      BY <2>0, <3>2
    <3> QED BY <3>1, <3>2
  <2>2. Names(h, path) = Walk(h, p)
    BY <1>2, <2>1, NamesWalk
  <2>3. MakeAbsolute(path) =
          IF p \in {<<>>, Dot, Dot \o Slash} THEN Cwd
          ELSE Cwd \o (IF Last(Cwd) = "/" THEN <<>> ELSE Slash) \o p
    BY <1>2, <2>0, AbsoluteIs DEF MakeAbsolute
  <2>4. CASE p \in {<<>>, Dot, Dot \o Slash}
    <3>1. Walk(h, p) = h
      BY <2>4, SlashIs, WalkNothing, WalkDot, WalkDotSlash
    <3> QED BY <2>2, <2>3, <2>4, <3>1
  <2>5. CASE p \notin {<<>>, Dot, Dot \o Slash}
    <3>0. PICK c \in Path : c = Cwd /\ Absolute(c)
      OBVIOUS
    <3>1. CASE Last(Cwd) = "/"
      <4>1. Closed(c)
        BY <3>0, <3>1 DEF Closed, Absolute, Last
      <4>2. MakeAbsolute(path) = c \o p
        BY <2>3, <2>5, <3>0, <3>1, ConcatEmptySeq DEF Path
      <4>3. Walk(<<>>, c \o p) = Walk(Walk(<<>>, c), p)
        BY <1>e, <2>1, <4>1, WalkJoin
      <4> QED BY <2>1, <2>2, <3>0, <4>2, <4>3, SlashFirst
    <3>2. CASE Last(Cwd) # "/"
      <4>2. MakeAbsolute(path) = c \o Slash \o p
        BY <2>3, <2>5, <3>0, <3>2
      <4>3. Walk(<<>>, c \o Slash \o p) = Walk(Walk(<<>>, c), p)
        BY <1>e, <2>1, WalkBetween
      <4>4. c \o Slash \in Path /\ Absolute(c \o Slash)
        BY <3>0, SlashIs, SlashFirst
      <4>5. c \o Slash \o p \in Path /\ Absolute(c \o Slash \o p)
        BY <2>1, <4>4, SlashFirst
      <4> QED BY <2>2, <3>0, <4>2, <4>3, <4>5
    <3> QED BY <3>1, <3>2
  <2> QED BY <2>4, <2>5
<1> QED BY <1>1, <1>2

-----------------------------------------------------------------------------
(* getcwd of the host.                                                      *)
LEMMA OneMore ==
  ASSUME NEW S, NEW c \in Seq(S), NEW n \in 1 .. Len(c)
  PROVE  Append(SubSeq(c, 1, n - 1), c[n]) = SubSeq(c, 1, n)
<1>0. PICK l \in Nat : l = Len(c)
  BY LenProperties
<1>1. n \in 1 - 1 .. Len(c) /\ 1 \in 1 .. Len(c) + 1 /\ n >= 1
  BY <1>0
<1> QED BY <1>1, SubSeqRecursiveSecond

\* The name of an entry leads to the entry.
LEMMA WalkName ==
  ASSUME NEW d \in Directory, NEW c \in Path, IsName(c)
  PROVE  Walk(d, c) = Append(d, c)
<1>0. PICK l \in Nat : l = Len(c)
  BY LenProperties DEF Path
<1>1. PICK r \in [0 .. Len(c) -> Reader] :
        /\ Read(Fresh(d), c) = r[Len(c)] /\ r[0] = Fresh(d)
        /\ \A n \in 1 .. Len(c) : r[n] = Advance(r[n - 1], c[n])
  BY FreshIs, ReadingIs
<1> DEFINE T == {n \in 0 .. l : r[n] = [dir |-> d, comp |-> SubSeq(c, 1, n)]}
<1>2. 0 \in T
  <2>1. SubSeq(c, 1, 0) = <<>>
    BY SubSeqEmpty DEF Path
  <2> QED BY <1>1, <2>1 DEF Fresh
<1>3. ASSUME NEW n \in 1 .. l, n - 1 \in T PROVE n \in T
  <2>1. n \in 1 .. Len(c) /\ n \in 0 .. l
    BY <1>0
  <2>2. c[n] # "/"
    BY <2>1, LenProperties DEF IsName, Path
  <2>3. r[n] = Advance(r[n - 1], c[n])
    BY <1>1, <2>1
  <2>4. r[n - 1] = [dir |-> d, comp |-> SubSeq(c, 1, n - 1)]
    BY <1>3
  <2>5. r[n] = [dir |-> d, comp |-> Append(SubSeq(c, 1, n - 1), c[n])]
    <3>1. PICK x, ch : x = SubSeq(c, 1, n - 1) /\ ch = c[n]
      OBVIOUS
    <3>2. r[n] = Advance([dir |-> d, comp |-> x], ch) /\ ch # "/"
      BY <2>2, <2>3, <2>4, <3>1
    <3>3. Advance([dir |-> d, comp |-> x], ch) = [dir |-> d, comp |-> Append(x, ch)]
      BY <3>2 DEF Advance
    <3> QED BY <3>1, <3>2, <3>3
  <2>6. Append(SubSeq(c, 1, n - 1), c[n]) = SubSeq(c, 1, n)
    BY <2>1, OneMore DEF Path
  <2> QED BY <2>1, <2>5, <2>6
<1> HIDE DEF T
<1>4. \A n \in 0 .. l : n \in T
  BY <1>2, <1>3, Upwards
<1>5. l \in T
  BY <1>4
<1>6. Read(Fresh(d), c) = [dir |-> d, comp |-> c]
  BY <1>0, <1>1, <1>5, SubSeqFull DEF T, Path
<1>7. Enter(d, c) = Append(d, c)
  BY DEF IsName, Enter
<1> QED BY <1>6, <1>7 DEF Walk

IsUpto(u, dir) == u = [n \in 0 .. Len(dir) |-> IF n = 0 THEN <<>> ELSE u[n - 1] \o Slash \o dir[n]]

LEMMA UptoExists ==
  ASSUME NEW dir \in Directory
  PROVE  \E u : IsUpto(u, dir)
<1> DEFINE D == 0 .. Len(dir)
           rank == [n \in D |-> n]
           GG(d, g) == IF d = 0 THEN <<>> ELSE g[d - 1] \o Slash \o dir[d]
           G == [x \in D \X [D -> Path] |-> GG(x[1], x[2])]
<1>0. PICK l \in Nat : l = Len(dir)
  BY LenProperties DEF Directory
<1>1. rank \in [D -> 0 .. l]
  BY <1>0
<1>2. ASSUME NEW d \in D, NEW g \in [D -> Path] PROVE GG(d, g) \in Path
  <2>1. CASE d = 0
    BY <2>1, EmptySeq DEF Path
  <2>2. CASE d # 0
    <3>1. d - 1 \in D /\ d \in 1 .. Len(dir)
      BY <1>0, <2>2
    <3>2. dir[d] \in Path
      BY <3>1, ElementOfSeq DEF Directory
    <3>3. g[d - 1] \in Path
      BY <3>1
    <3>4. g[d - 1] \o Slash \o dir[d] \in Path
      BY <3>2, <3>3, SlashFirst
    <3> QED BY <2>2, <3>4
  <2> QED BY <2>1, <2>2
<1>3. G \in [D \X [D -> Path] -> Path]
  BY <1>2
<1>4. \A d \in D, g \in [D -> Path] : G[<<d, g>>] = GG(d, g)
  OBVIOUS
<1>5. Ranked(D, Path, rank, G)
  <2> SUFFICES ASSUME NEW d \in D, NEW g \in [D -> Path], NEW h \in [D -> Path],
                      \A e \in D : rank[e] < rank[d] => g[e] = h[e]
               PROVE  GG(d, g) = GG(d, h)
    <3> HIDE DEF GG, rank, G, D
    <3> QED BY <1>4 DEF Ranked
  <2>1. CASE d = 0
    BY <2>1
  <2>2. CASE d # 0
    <3>1. d - 1 \in D /\ d - 1 < d
      BY <1>0, <2>2
    <3>2. g[d - 1] = h[d - 1]
      BY <3>1
    <3> QED BY <2>2, <3>2
  <2> QED BY <2>1, <2>2
<1>6. Path # {}
  BY SlashIs
<1> HIDE DEF D, rank, G
<1>7. Recursive(D, Path, l, rank, G)
  BY <1>0, <1>1, <1>3, <1>5, <1>6 DEF Recursive
<1>8. PICK f \in [D -> Path] : \A d \in D : f[d] = G[<<d, f>>]
  BY <1>7, RankRecursion DEF Solvable
<1>9. \A d \in D : f[d] = GG(d, f)
  BY <1>4, <1>8
<1>10. f = [n \in D |-> GG(n, f)]
  BY <1>9
<1> QED BY <1>10 DEF IsUpto, D

\* getcwd gives a path to the directory.
LEMMA PathOfIs ==
  ASSUME NEW dir \in Directory, \A i \in 1 .. Len(dir) : IsName(dir[i])
  PROVE  PathOf(dir) \in Path /\ Absolute(PathOf(dir)) /\ Walk(<<>>, PathOf(dir)) = dir
<1>0. PICK l \in Nat : l = Len(dir)
  BY LenProperties DEF Directory
<1>d. <<>> \in Directory /\ <<>> \in Path
  BY EmptySeq DEF Directory, Path
<1>1. CASE dir = <<>>
  <2>1. PathOf(dir) = Slash
    BY <1>1 DEF PathOf
  <2>2. Walk(<<>>, Slash \o <<>>) = Walk(<<>>, <<>>) /\ Slash \o <<>> = Slash
    BY <1>d, WalkSlash, SlashIs, ConcatEmptySeq DEF Path
  <2> QED BY <1>1, <1>d, <2>1, <2>2, SlashIs, SlashAbsolute, WalkNothing
<1>2. CASE dir # <<>>
  <2>0. l # 0
    BY <1>0, <1>2, EmptySeq DEF Directory
  <2>1. PICK u : u = CHOOSE v : IsUpto(v, dir)
    OBVIOUS
  <2>2. IsUpto(u, dir)
    BY <2>1, UptoExists
  <2>3. PathOf(dir) = u[l]
    BY <1>0, <1>2, <2>1 DEF PathOf, IsUpto
  <2>4. \A n \in 0 .. l : u[n] = IF n = 0 THEN <<>> ELSE u[n - 1] \o Slash \o dir[n]
    BY <1>0, <2>2 DEF IsUpto
  <2> DEFINE T == {n \in 0 .. l : /\ u[n] \in Path /\ Walk(<<>>, u[n]) = SubSeq(dir, 1, n)
                                  /\ n # 0 => Absolute(u[n])}
  <2>5. 0 \in T
    <3>1. SubSeq(dir, 1, 0) = <<>>
      BY SubSeqEmpty DEF Directory
    <3>2. u[0] = <<>>
      BY <2>4
    <3>3. u[0] \in Path /\ Walk(<<>>, u[0]) = SubSeq(dir, 1, 0)
      BY <1>d, <3>1, <3>2, WalkNothing
    <3> QED BY <3>3
  <2>6. ASSUME NEW n \in 1 .. l, n - 1 \in T PROVE n \in T
    <3>1. n \in 1 .. Len(dir) /\ n \in 0 .. l /\ n # 0
      BY <1>0
    <3>2. u[n] = u[n - 1] \o Slash \o dir[n]
      BY <2>4, <3>1
    <3>3. PICK x, c : x = u[n - 1] /\ c = dir[n]
      OBVIOUS
    <3>4. x \in Path /\ Walk(<<>>, x) = SubSeq(dir, 1, n - 1) /\ (n - 1 # 0 => Absolute(x))
      BY <2>6, <3>3
    <3>5. c \in Path /\ IsName(c)
      BY <3>1, <3>3, ElementOfSeq DEF Directory
    <3>6. Absolute(x \o Slash) /\ x \o Slash \in Path
      <4>1. CASE n - 1 = 0
        <5>1. x = <<>>
          BY <2>4, <3>3, <4>1
        <5> QED BY <5>1, SlashIs, SlashAbsolute, ConcatEmptySeq DEF Path
      <4>2. CASE n - 1 # 0
        BY <3>4, <4>2, SlashIs, SlashFirst
      <4> QED BY <4>1, <4>2
    <3>7. x \o Slash \o c \in Path /\ Absolute(x \o Slash \o c)
      BY <3>5, <3>6, SlashFirst
    <3>8. Walk(<<>>, x \o Slash \o c) = Append(SubSeq(dir, 1, n - 1), c)
      <4>1. Walk(<<>>, x) \in Directory
        BY <1>d, <3>4, WalkType
      <4>2. Walk(<<>>, x \o Slash \o c) = Walk(Walk(<<>>, x), c)
        BY <1>d, <3>4, <3>5, WalkBetween
      <4> QED BY <3>4, <3>5, <4>1, <4>2, WalkName
    <3>9. Append(SubSeq(dir, 1, n - 1), c) = SubSeq(dir, 1, n)
      BY <3>1, <3>3, OneMore DEF Directory
    <3> QED BY <3>1, <3>2, <3>3, <3>7, <3>8, <3>9
  <2> HIDE DEF T
  <2>7. \A n \in 0 .. l : n \in T
    BY <2>5, <2>6, Upwards
  <2>8. l \in T
    BY <2>7
  <2> QED BY <1>0, <2>0, <2>3, <2>8, SubSeqFull DEF T, Directory
<1> QED BY <1>1, <1>2

-----------------------------------------------------------------------------
(* strip_prefixes.                                                          *)
\* strip[n] in StripPrefixes
StripAt(s, path, n) ==
  LET p == Drop(path, n) IN
  CASE IsPrefix(Slash, p) -> s[n + 1]
    [] IsPrefix(Dot \o Slash, p) -> s[n + 2]
    [] p = Dot -> s[n + 1]
    [] OTHER -> p

IsStrip(s, path) == s = [n \in 0 .. Len(path) |-> StripAt(s, path, n)]

LEMMA StripPrefixesIs == \A path : StripPrefixes(path) = (CHOOSE s : IsStrip(s, path))[0]
BY DEF StripPrefixes, IsStrip, StripAt

LEMMA DotSlashFirst ==
  ASSUME NEW p \in Path, IsPrefix(Dot \o Slash, p)
  PROVE  Len(p) \in Nat /\ Len(p) >= 2 /\ p[1] = "."
<1>1. PICK ds \in Path : ds = Dot \o Slash
  BY DotSlashIs
<1>2. Len(ds) \in 0 .. Len(p) /\ SubSeq(p, 1, Len(ds)) = ds
  BY <1>1, PrefixCut
<1>3. \A i \in 1 .. Len(ds) : ds[i] = p[i]
  BY <1>2, FirstIs
<1>4. Len(ds) = 2 /\ Len(p) \in Nat
  BY <1>1, DotSlashIs, LenProperties DEF Path
<1>5. 1 \in 1 .. Len(ds)
  BY <1>4
<1>6. ds[1] = "."
  <2>1. PICK a \in Path, b \in Path : a = Dot /\ b = Slash
    BY SlashIs
  <2>2. PICK la \in Nat, lb \in Nat : la = Len(a) /\ lb = Len(b) /\ la = 1 /\ lb = 1
    BY <2>1, SlashIs
  <2>3. \A i \in 1 .. Len(a) + Len(b) : (a \o b)[i] = IF i <= Len(a) THEN a[i] ELSE b[i - Len(a)]
    BY JoinedIs
  <2>4. 1 \in 1 .. Len(a) + Len(b) /\ 1 <= Len(a)
    BY <2>2
  <2>5. (a \o b)[1] = a[1]
    BY <2>3, <2>4
  <2> QED BY <1>1, <2>1, <2>5, SlashIs
<1> QED BY <1>2, <1>3, <1>4, <1>5, <1>6

\* How far a round of the loop of strip_prefixes goes, 0 for its end
LEMMA StripAtIs ==
  ASSUME NEW path \in Path, NEW n \in 0 .. Len(path)
  PROVE  \E k \in {0, 1, 2} : /\ n + k <= Len(path) /\ Drop(path, n) \in Path
                              /\ \A s : StripAt(s, path, n) = IF k = 0 THEN Drop(path, n) ELSE s[n + k]
<1>0. PICK l \in Nat : l = Len(path)
  BY LenProperties DEF Path
<1>1. PICK p : p = Drop(path, n)
  OBVIOUS
<1>2. p \in Path /\ Len(p) = l - n
  BY <1>0, <1>1, DropIs
<1>3. \A s : StripAt(s, path, n) = CASE IsPrefix(Slash, p) -> s[n + 1]
                                     [] IsPrefix(Dot \o Slash, p) -> s[n + 2]
                                     [] p = Dot -> s[n + 1]
                                     [] OTHER -> p
  BY <1>1 DEF StripAt
<1>4. IsPrefix(Slash, p) => Len(p) >= 1 /\ p[1] = "/"
  BY <1>2, AbsoluteIs, NotEmpty DEF Absolute
<1>5. IsPrefix(Dot \o Slash, p) => Len(p) >= 2 /\ Len(p) # 1 /\ p[1] = "."
  <2>1. IsPrefix(Dot \o Slash, p) => Len(p) \in Nat /\ Len(p) >= 2 /\ p[1] = "."
    BY <1>2, DotSlashFirst
  <2>2. \A k \in Nat : k >= 2 => k # 1
    OBVIOUS
  <2> QED BY <2>1, <2>2, Zenon
<1>6. p = Dot => Len(p) = 1 /\ p[1] = "."
  BY SlashIs
<1>7. "/" # "."
  BY SlashIs
<1>8. CASE IsPrefix(Slash, p)
  <2>1. ~ IsPrefix(Dot \o Slash, p) /\ p # Dot
    BY <1>4, <1>5, <1>6, <1>7, <1>8
  <2>2. \A s : StripAt(s, path, n) = s[n + 1]
    BY <1>3, <1>8, <2>1
  <2>3. n + 1 <= l
    BY <1>0, <1>2, <1>4, <1>8
  <2> QED BY <1>0, <1>1, <1>2, <2>2, <2>3
<1>9. CASE IsPrefix(Dot \o Slash, p)
  <2>1. ~ IsPrefix(Slash, p) /\ p # Dot
    <3>1. ~ IsPrefix(Slash, p)
      BY <1>4, <1>5, <1>7, <1>9
    <3>2. Len(p) # 1
      BY <1>5, <1>9
    <3>3. p # Dot
      BY <1>6, <3>2
    <3> QED BY <3>1, <3>3
  <2>2. \A s : StripAt(s, path, n) = s[n + 2]
    BY <1>3, <1>9, <2>1
  <2>3. n + 2 <= l
    BY <1>0, <1>2, <1>5, <1>9
  <2> QED BY <1>0, <1>1, <1>2, <2>2, <2>3
<1>10. CASE p = Dot
  <2>1. ~ IsPrefix(Slash, p)
    BY <1>4, <1>6, <1>7, <1>10
  <2>2. ~ IsPrefix(Dot \o Slash, p)
    BY <1>5, <1>6, <1>10
  <2>3. \A s : StripAt(s, path, n) = s[n + 1]
    BY <1>3, <1>10, <2>1, <2>2
  <2>4. n + 1 <= l
    BY <1>0, <1>2, <1>6, <1>10
  <2> QED BY <1>0, <1>1, <1>2, <2>3, <2>4
<1>11. CASE ~ IsPrefix(Slash, p) /\ ~ IsPrefix(Dot \o Slash, p) /\ p # Dot
  <2>1. \A s : StripAt(s, path, n) = p
    BY <1>3, <1>11
  <2>2. n + 0 <= l
    BY <1>0
  <2> QED BY <1>0, <1>1, <1>2, <2>1, <2>2
<1> QED BY <1>8, <1>9, <1>10, <1>11

LEMMA StripExists ==
  ASSUME NEW path \in Path
  PROVE  \E s : IsStrip(s, path)
<1>0. PICK l \in Nat : l = Len(path)
  BY LenProperties DEF Path
<1> DEFINE D == 0 .. Len(path)
           rank == [n \in D |-> Len(path) - n]
           G == [x \in D \X [D -> Path] |-> StripAt(x[2], path, x[1])]
<1>1. rank \in [D -> 0 .. l]
  <2>1. \A n \in 0 .. l : l - n \in 0 .. l
    OBVIOUS
  <2> QED BY <1>0, <2>1
<1>2. ASSUME NEW d \in D, NEW g \in [D -> Path] PROVE StripAt(g, path, d) \in Path
  <2>1. PICK k \in {0, 1, 2} : /\ d + k <= Len(path) /\ Drop(path, d) \in Path
                               /\ \A s : StripAt(s, path, d) = IF k = 0 THEN Drop(path, d) ELSE s[d + k]
    BY StripAtIs
  <2>2. d + k \in D
    BY <1>0, <2>1
  <2>3. g[d + k] \in Path
    BY <2>2
  <2> HIDE DEF D
  <2> QED BY <2>1, <2>3
<1>3. G \in [D \X [D -> Path] -> Path]
  BY <1>2
<1>4. \A d \in D, g \in [D -> Path] : G[<<d, g>>] = StripAt(g, path, d)
  OBVIOUS
<1>5. ASSUME NEW d \in D, NEW g \in [D -> Path], NEW h \in [D -> Path],
             \A e \in D : rank[e] < rank[d] => g[e] = h[e]
      PROVE  G[<<d, g>>] = G[<<d, h>>]
  <2>1. PICK k \in {0, 1, 2} : /\ d + k <= Len(path) /\ Drop(path, d) \in Path
                               /\ \A s : StripAt(s, path, d) = IF k = 0 THEN Drop(path, d) ELSE s[d + k]
    BY StripAtIs
  <2>2. StripAt(g, path, d) = StripAt(h, path, d)
    <3>1. CASE k = 0
      BY <2>1, <3>1
    <3>2. CASE k # 0
      <4>1. d + k \in D /\ Len(path) - (d + k) < Len(path) - d
        BY <1>0, <2>1, <3>2
      <4>2. rank[d + k] < rank[d]
        BY <4>1
      <4>3. g[d + k] = h[d + k]
        BY <1>5, <4>1, <4>2
      <4> QED BY <2>1, <3>2, <4>3
    <3> QED BY <3>1, <3>2
  <2> HIDE DEF G
  <2> QED BY <1>4, <2>2
<1>6. Path # {}
  BY SlashIs
<1> HIDE DEF D, rank, G
<1>r. Ranked(D, Path, rank, G)
  BY <1>5 DEF Ranked
<1>7. Recursive(D, Path, l, rank, G)
  BY <1>0, <1>1, <1>3, <1>r, <1>6 DEF Recursive
<1>8. PICK f \in [D -> Path] : \A d \in D : f[d] = G[<<d, f>>]
  BY <1>7, RankRecursion DEF Solvable
<1>9. \A d \in D : f[d] = StripAt(f, path, d)
  BY <1>4, <1>8
<1>10. f = [n \in D |-> StripAt(f, path, n)]
  BY <1>9
<1> QED BY <1>10 DEF IsStrip, D

LEMMA StripPrefixesType == \A path \in Path : StripPrefixes(path) \in Path
<1> SUFFICES ASSUME NEW path \in Path PROVE StripPrefixes(path) \in Path
  OBVIOUS
<1>0. PICK l \in Nat : l = Len(path)
  BY LenProperties DEF Path
<1>1. PICK s : s = CHOOSE r : IsStrip(r, path)
  OBVIOUS
<1>2. IsStrip(s, path) /\ StripPrefixes(path) = s[0]
  BY <1>1, StripExists, StripPrefixesIs
<1>3. \A n \in 0 .. l : s[n] = StripAt(s, path, n)
  BY <1>0, <1>2 DEF IsStrip
<1> DEFINE T == {i \in 0 .. l : \A j \in i .. l : s[j] \in Path}
<1>4. ASSUME NEW i \in 0 .. l, \A j \in i + 1 .. l : s[j] \in Path PROVE i \in T
  <2>1. PICK k \in {0, 1, 2} : /\ i + k <= Len(path) /\ Drop(path, i) \in Path
                               /\ \A r : StripAt(r, path, i) = IF k = 0 THEN Drop(path, i) ELSE r[i + k]
    BY <1>0, StripAtIs
  <2>2. s[i] = IF k = 0 THEN Drop(path, i) ELSE s[i + k]
    BY <1>3, <2>1
  <2>3. k # 0 => s[i + k] \in Path
    <3>1. k # 0 => i + k \in i + 1 .. l
      BY <1>0, <2>1
    <3> QED BY <1>4, <3>1
  <2>5. s[i] \in Path
    BY <2>1, <2>2, <2>3
  <2>6. \A j \in i .. l : j = i \/ j \in i + 1 .. l
    OBVIOUS
  <2> QED BY <1>4, <2>5, <2>6
<1>5. l \in T
  <2>1. l \in 0 .. l /\ l + 1 .. l = {}
    OBVIOUS
  <2> QED BY <1>4, <2>1
<1>6. ASSUME NEW i \in 0 .. l - 1, i + 1 \in T PROVE i \in T
  <2>1. i \in 0 .. l
    OBVIOUS
  <2>2. \A j \in i + 1 .. l : s[j] \in Path
    BY <1>6
  <2> QED BY <1>4, <2>1, <2>2
<1> HIDE DEF T
<1>7. \A i \in 0 .. l : i \in T
  BY <1>5, <1>6, Downwards
<1>8. 0 \in T /\ 0 \in 0 .. l
  BY <1>7
<1> QED BY <1>2, <1>8 DEF T

-----------------------------------------------------------------------------
(* The copy of the working directory is a full path to the host's, as long *)
(* as the host made every chdir the library made.                          *)
CwdFollows == synced /\ ~apart => Names(<<>>, cwd) = hostcwd

PathIInv ==
  /\ preopens \in Seq(Path) /\ hostcwd \in Dirs
  /\ synced => cwd \in Path /\ Absolute(cwd)
  /\ CwdFollows /\ PathReached

LEMMA DirsAre ==
  ASSUME NEW dir \in Dirs
  PROVE  dir \in Directory /\ \A i \in 1 .. Len(dir) : IsName(dir[i])
<1>1. dir \in Seq(Seq(Chars)) /\ \A i \in DOMAIN dir : IsName(dir[i])
  BY PathAssumption DEF PathAssumption
<1>2. DOMAIN dir = 1 .. Len(dir)
  BY <1>1, LenProperties
<1> QED BY <1>1, <1>2 DEF Directory, Path

LEMMA CwdIs ==
  ASSUME PathIInv
  PROVE  /\ Cwd \in Path /\ Absolute(Cwd) /\ hostcwd \in Directory
         /\ ~apart => Walk(<<>>, Cwd) = hostcwd
<1>0. <<>> \in Directory
  BY EmptySeq DEF Directory
<1>1. hostcwd \in Directory /\ \A i \in 1 .. Len(hostcwd) : IsName(hostcwd[i])
  BY DirsAre DEF PathIInv
<1>2. CASE synced
  BY <1>0, <1>1, <1>2, NamesWalk DEF PathIInv, CwdFollows, Cwd
<1>3. CASE ~synced
  BY <1>1, <1>3, PathOfIs DEF Cwd
<1> QED BY <1>2, <1>3

LEMMA FindRelpathIs ==
  ASSUME NEW path
  PROVE  LET l == FindRelpath(path)  a == FindAbspath(MakeAbsolute(path)) IN
         l.found = a.found /\ l.prefix = a.prefix /\ l.rel = a.rel /\ l.names = Names(hostcwd, path)
BY DEF FindRelpath, FindAbspath, NoLookup

\* What a lookup returns leads to what the path names.
LEMMA LookupReaches ==
  ASSUME PathIInv, NEW path \in Path, NEW l, l = FindRelpath(path), l.found
  PROVE  /\ NewCwd(l) \in Path /\ Absolute(NewCwd(l))
         /\ ~apart => Reached(l) = l.names /\ Names(<<>>, NewCwd(l)) = l.names
<1>0. <<>> \in Directory
  BY EmptySeq DEF Directory
<1>1. /\ Cwd \in Path /\ Absolute(Cwd) /\ hostcwd \in Directory
      /\ ~apart => Walk(<<>>, Cwd) = hostcwd
  BY CwdIs
<1>2. PICK p : p = MakeAbsolute(path)
  OBVIOUS
<1>3. p \in Path /\ Absolute(p) /\ (~apart => Walk(<<>>, p) = Names(hostcwd, path))
  BY <1>1, <1>2, MakeAbsoluteIs
<1>4. /\ l.found = FindAbspath(p).found /\ l.prefix = FindAbspath(p).prefix
      /\ l.rel = FindAbspath(p).rel /\ l.names = Names(hostcwd, path)
  BY <1>2, FindRelpathIs
<1>5. /\ Reached(l) = Walk(<<>>, p)
      /\ NewCwd(l) \in Path /\ Absolute(NewCwd(l)) /\ Walk(<<>>, NewCwd(l)) = Walk(<<>>, p)
  BY <1>3, <1>4, FoundIs DEF PathIInv
<1> QED BY <1>0, <1>3, <1>4, <1>5, NamesWalk

LEMMA PathInitIInv == PathInit => PathIInv
<1>1. PathInit => hostcwd \in Dirs
  BY PathAssumption DEF PathAssumption, PathInit
<1> QED BY <1>1, EmptySeq DEF PathInit, PathIInv, CwdFollows, PathReached, NoLookup

LEMMA RegisterIInv ==
  ASSUME PathIInv, NEW prefix \in PreopenNames, RegisterPreopen(prefix)
  PROVE  PathIInv'
<1>1. StripPrefixes(prefix) \in Path
  BY PathAssumption, StripPrefixesType DEF PathAssumption, Path
<1>2. Append(preopens, StripPrefixes(prefix)) \in Seq(Path)
  BY <1>1, AppendProperties DEF PathIInv
<1>3. preopens' \in Seq(Path) /\ UNCHANGED <<cwd, synced, hostcwd, looked, apart>>
  BY <1>2 DEF RegisterPreopen, PathIInv
<1> QED BY <1>3 DEF PathIInv, CwdFollows, PathReached, Reached

LEMMA LookupIInv ==
  ASSUME PathIInv, NEW path \in Paths, Lookup(path)
  PROVE  PathIInv'
<1>1. path \in Path
  BY PathAssumption DEF PathAssumption, Path
<1>2. cwd' = Cwd /\ synced' /\ looked' = FindRelpath(path) /\ UNCHANGED <<preopens, hostcwd, apart>>
  BY DEF Lookup
<1>3. PathReached'
  <2>1. looked'.found /\ ~apart => Reached(looked') = looked'.names
    BY <1>1, <1>2, LookupReaches
  <2> QED BY <1>2, <2>1 DEF PathReached, Reached
<1>4. cwd' \in Path /\ Absolute(cwd') /\ (~apart => Names(<<>>, cwd') = hostcwd)
  <2>1. <<>> \in Directory
    BY EmptySeq DEF Directory
  <2> QED BY <1>2, <2>1, CwdIs, NamesWalk
<1> QED BY <1>2, <1>3, <1>4 DEF PathIInv, CwdFollows, Absolute

LEMMA ChdirIInv ==
  ASSUME PathIInv, NEW path \in Paths, Chdir(path)
  PROVE  PathIInv'
<1>1. path \in Path
  BY PathAssumption DEF PathAssumption, Path
<1>2. PICK l : l = FindRelpath(path)
  OBVIOUS
<1> DEFINE ok == l.found /\ Reached(l) \in Dirs
<1>3. /\ looked' = l /\ synced' /\ cwd' = (IF ok THEN NewCwd(l) ELSE Cwd) /\ preopens' = preopens
      /\ \/ ok /\ l.names \in Dirs /\ hostcwd' = l.names /\ apart' = apart
         \/ ok /\ apart' = TRUE /\ hostcwd' = hostcwd
         \/ ~ok /\ hostcwd' = hostcwd /\ apart' = apart
  BY <1>2 DEF Chdir
<1>4. l.found => /\ NewCwd(l) \in Path /\ Absolute(NewCwd(l))
                 /\ ~apart => Reached(l) = l.names /\ Names(<<>>, NewCwd(l)) = l.names
  BY <1>1, <1>2, LookupReaches
<1>5. /\ Cwd \in Path /\ Absolute(Cwd)
      /\ ~apart => Names(<<>>, Cwd) = hostcwd
  <2>1. <<>> \in Directory
    BY EmptySeq DEF Directory
  <2> QED BY <2>1, CwdIs, NamesWalk
<1>6. apart' = apart \/ apart'
  BY <1>3
<1>7. PathReached'
  <2>1. l.found /\ ~apart' => Reached(l) = l.names
    BY <1>4, <1>6
  <2> QED BY <1>3, <2>1 DEF PathReached, Reached
<1>8. hostcwd' \in Dirs
  BY <1>3 DEF PathIInv
<1>9. cwd' \in Path /\ Absolute(cwd')
  BY <1>3, <1>4, <1>5
<1>10. ~apart' => Names(<<>>, cwd') = hostcwd'
  BY <1>3, <1>4, <1>5
<1>11. preopens' \in Seq(Path)
  BY <1>3 DEF PathIInv
<1> HIDE DEF ok
<1> QED BY <1>3, <1>7, <1>8, <1>9, <1>10, <1>11 DEF PathIInv, CwdFollows, Absolute

LEMMA PathNextIInv == PathIInv /\ [PathNext]_pathVars => PathIInv'
<1> SUFFICES ASSUME PathIInv, [PathNext]_pathVars PROVE PathIInv'
  OBVIOUS
<1>1. CASE PathThreaded
  BY <1>1 DEF PathThreaded, PathIInv, CwdFollows, PathReached, Reached
<1>2. ASSUME NEW prefix \in PreopenNames, RegisterPreopen(prefix) PROVE PathIInv'
  BY <1>2, RegisterIInv
<1>3. ASSUME NEW path \in Paths, Lookup(path) PROVE PathIInv'
  BY <1>3, LookupIInv
<1>4. ASSUME NEW path \in Paths, Chdir(path) PROVE PathIInv'
  BY <1>4, ChdirIInv
<1>5. CASE UNCHANGED pathVars
  BY <1>5 DEF pathVars, PathIInv, CwdFollows, PathReached, Reached
<1> QED BY <1>1, <1>2, <1>3, <1>4, <1>5 DEF PathNext

(* The invariant holds of every program that uses paths. *)
THEOREM PathInvariance == PathSpec => []PathIInv
BY PathInitIInv, PathNextIInv, PTL DEF PathSpec

(* The library's copy of the working directory, once make_absolute has asked *)
(* the host for it, names the directory the host is in, after any sequence   *)
(* of chdir calls that the host did not refuse.                              *)
THEOREM CwdAlwaysFollows == PathSpec => []CwdFollows
<1>1. PathIInv => CwdFollows
  BY DEF PathIInv
<1> QED BY <1>1, PathInvariance, PTL

(* Whatever directories are pre-opened and whatever sequence of chdir calls  *)
(* and lookups went before, the descriptor and the relative path that        *)
(* __wasilibc_find_relpath returns lead to the file that the path names in   *)
(* the host's working directory, unless the host refused a chdir that the    *)
(* library had already made.                                                 *)
THEOREM LookupsReach == PathSpec => []PathReached
<1>1. PathIInv => PathReached
  BY DEF PathIInv
<1> QED BY <1>1, PathInvariance, PTL
=============================================================================
