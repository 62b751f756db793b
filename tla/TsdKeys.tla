------------------------------- MODULE TsdKeys -------------------------------
(***************************************************************************)
(* Thread-specific data: pthread_key_create, pthread_key_delete,           *)
(* pthread_setspecific and __pthread_tsd_run_dtors.  A key that is created *)
(* again in the slot of a deleted one is a new generation, and a value is  *)
(* named by the generation it was stored under.                            *)
(*                                                                         *)
(* key_lock is what RWLock promises: a call that holds it for writing is   *)
(* one step, which waits until no thread reads.                            *)
(***************************************************************************)
EXTENDS Integers, FiniteSets

CONSTANTS
  TsdThreads,
  KEYS_MAX,      \* PTHREAD_KEYS_MAX
  ITERATIONS,    \* PTHREAD_DESTRUCTOR_ITERATIONS
  MaxKeys,       \* bound: keys created
  MaxStores      \* bound: calls of pthread_setspecific by each thread

ASSUME TsdAssumption ==
  /\ IsFiniteSet(TsdThreads)
  /\ KEYS_MAX \in Nat \ {0} /\ ITERATIONS \in Nat
  /\ MaxKeys \in Nat /\ MaxStores \in Nat

Slots == 0 .. KEYS_MAX - 1
NoKey == [gen |-> 0, dtor |-> FALSE]
NoCall == [slot |-> 0, val |-> 0, dtor |-> NoKey]

VARIABLES
  keys, nextkey,        \* the destructors, and where the search starts
  keygen,               \* generations so far
  tsd, tsdused,         \* of each thread
  tsdpc,                \* "run", or the step of __pthread_tsd_run_dtors
  round,                \* j, its rounds so far
  call,                 \* the slot it is at, and the destructor that runs
  stores                \* counter for the bound

tsdVars == <<keys, nextkey, keygen, tsd, tsdused, tsdpc, round, call, stores>>

TsdInit ==
  /\ keys = [k \in Slots |-> NoKey] /\ nextkey = 0 /\ keygen = 0
  /\ tsd = [t \in TsdThreads |-> [k \in Slots |-> 0]]
  /\ tsdused = [t \in TsdThreads |-> FALSE]
  /\ tsdpc = [t \in TsdThreads |-> "run"]
  /\ round = [t \in TsdThreads |-> 0]
  /\ call = [t \in TsdThreads |-> NoCall]
  /\ stores = [t \in TsdThreads |-> 0]

\* The application's code is running, in a destructor or not.
Running(t) == tsdpc[t] \in {"run", "dtor"}

\* Nobody holds key_lock.
KeyLockFree == \A t \in TsdThreads : tsdpc[t] # "scan"

\* The search for a free slot, from next_key around
FreeSlot(k) ==
  /\ keys[k] = NoKey
  /\ \A i \in Slots : keys[i] = NoKey => (k - nextkey) % KEYS_MAX <= (i - nextkey) % KEYS_MAX

KeyCreate(t, dtor) ==
  /\ Running(t) /\ KeyLockFree /\ keygen < MaxKeys
  /\ \E k \in Slots :
       /\ FreeSlot(k)
       /\ keys' = [keys EXCEPT ![k] = [gen |-> keygen + 1, dtor |-> dtor]]
       /\ nextkey' = k
  /\ keygen' = keygen + 1
  /\ UNCHANGED <<tsd, tsdused, tsdpc, round, call, stores>>

\* Mutant: only the caller's own value is cleared.
KeyDeleteOwn(t, k) ==
  /\ Running(t) /\ KeyLockFree /\ keys[k] # NoKey
  /\ tsd' = [tsd EXCEPT ![t][k] = 0]
  /\ keys' = [keys EXCEPT ![k] = NoKey]
  /\ UNCHANGED <<nextkey, keygen, tsdused, tsdpc, round, call, stores>>

\* The values of every thread on the list are cleared; a thread leaves it
\* after its destructors have run.
KeyDelete(t, k) ==
  /\ Running(t) /\ KeyLockFree /\ keys[k] # NoKey
  /\ tsd' = [u \in TsdThreads |-> IF tsdpc[u] = "done" THEN tsd[u] ELSE [tsd[u] EXCEPT ![k] = 0]]
  /\ keys' = [keys EXCEPT ![k] = NoKey]
  /\ UNCHANGED <<nextkey, keygen, tsdused, tsdpc, round, call, stores>>

\* pthread_setspecific of a key that exists, without the lock
SetSpecific(t, k, x) ==
  /\ Running(t) /\ keys[k] # NoKey /\ stores[t] < MaxStores
  /\ tsd[t][k] # x
  /\ tsd' = [tsd EXCEPT ![t][k] = x]
  /\ tsdused' = [tsdused EXCEPT ![t] = TRUE]
  /\ stores' = [stores EXCEPT ![t] = @ + 1]
  /\ UNCHANGED <<keys, nextkey, keygen, tsdpc, round, call>>

-----------------------------------------------------------------------------
(* __pthread_tsd_run_dtors *)

TsdExit(t) ==
  /\ tsdpc[t] = "run"
  /\ tsdpc' = [tsdpc EXCEPT ![t] = "round"]
  /\ UNCHANGED <<keys, nextkey, keygen, tsd, tsdused, round, call, stores>>

\* The head of the loop: another round, under the lock, or the end
DtorRound(t) ==
  /\ tsdpc[t] = "round"
  /\ IF tsdused[t] /\ round[t] < ITERATIONS
     THEN /\ tsdused' = [tsdused EXCEPT ![t] = FALSE]
          /\ call' = [call EXCEPT ![t] = NoCall]
          /\ tsdpc' = [tsdpc EXCEPT ![t] = "scan"]
     ELSE tsdpc' = [tsdpc EXCEPT ![t] = "done"] /\ UNCHANGED <<tsdused, call>>
  /\ UNCHANGED <<keys, nextkey, keygen, tsd, round, stores>>

\* After the last slot the lock is released and the round is over.
NextSlot(t) ==
  IF call[t].slot + 1 < KEYS_MAX
  THEN /\ call' = [call EXCEPT ![t] = [NoCall EXCEPT !.slot = call[t].slot + 1]]
       /\ tsdpc' = [tsdpc EXCEPT ![t] = "scan"]
       /\ UNCHANGED round
  ELSE /\ call' = [call EXCEPT ![t] = NoCall]
       /\ tsdpc' = [tsdpc EXCEPT ![t] = "round"]
       /\ round' = [round EXCEPT ![t] = @ + 1]

\* One slot: value and destructor are read and the value is cleared; the
\* destructor runs without the lock.
DtorScan(t) ==
  LET k == call[t].slot  val == tsd[t][k] IN
  /\ tsdpc[t] = "scan"
  /\ tsd' = [tsd EXCEPT ![t][k] = 0]
  /\ IF val # 0 /\ keys[k].dtor
     THEN /\ call' = [call EXCEPT ![t] = [slot |-> k, val |-> val, dtor |-> keys[k]]]
          /\ tsdpc' = [tsdpc EXCEPT ![t] = "dtor"]
          /\ UNCHANGED round
     ELSE NextSlot(t)
  /\ UNCHANGED <<keys, nextkey, keygen, tsdused, stores>>

DtorReturns(t) ==
  /\ tsdpc[t] = "dtor"
  /\ NextSlot(t)
  /\ UNCHANGED <<keys, nextkey, keygen, tsd, tsdused, stores>>

TsdNext ==
  \E t \in TsdThreads :
    \/ TsdExit(t) \/ DtorRound(t) \/ DtorScan(t) \/ DtorReturns(t)
    \/ \E dtor \in BOOLEAN : KeyCreate(t, dtor)
    \/ \E k \in Slots : KeyDelete(t, k) \/ \E x \in {0, keys[k].gen} : SetSpecific(t, k, x)

TsdSpec == TsdInit /\ [][TsdNext]_tsdVars

-----------------------------------------------------------------------------
TsdTypeOK ==
  /\ keys \in [Slots -> [gen : Nat, dtor : BOOLEAN]]
  /\ nextkey \in Slots /\ keygen \in Nat
  /\ tsd \in [TsdThreads -> [Slots -> Nat]]
  /\ tsdused \in [TsdThreads -> BOOLEAN]
  /\ tsdpc \in [TsdThreads -> {"run", "round", "scan", "dtor", "done"}]
  /\ round \in [TsdThreads -> 0 .. ITERATIONS]
  /\ stores \in [TsdThreads -> 0 .. MaxStores]

\* A destructor gets values of its own key, although keys are deleted and their
\* slots reused while threads exit; and a thread ends with values only if its
\* destructors stored some in every one of the rounds it may have.
TsdDestroyed ==
  \A t \in TsdThreads :
    /\ tsdpc[t] = "dtor" => call[t].val = call[t].dtor.gen
    /\ tsdpc[t] = "done" /\ round[t] < ITERATIONS => \A k \in Slots : tsd[t][k] = 0
=============================================================================
