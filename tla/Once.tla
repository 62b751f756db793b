-------------------------------- MODULE Once --------------------------------
(***************************************************************************)
(* pthread_once on one control word: 0 not initialised, 1 the routine is   *)
(* running, 3 the same with threads waiting, 2 done.  The routine may end  *)
(* in pthread_exit, which runs the cleanup handler undo and leaves the     *)
(* initialisation to the next caller.  (Cancellation, which would do the   *)
(* same, cannot happen in this build.)                                     *)
(***************************************************************************)
EXTENDS ThreadCalls

CONSTANTS
  OnceExiting,   \* threads whose run of the routine may end in pthread_exit
  OnceCalls      \* bound: how often each thread calls pthread_once

ASSUME OnceAssumption == OnceExiting \subseteq Threads /\ OnceCalls \in [Threads -> Nat]

VARIABLES
  control,     \* *control
  initruns,    \* complete runs of the routine (a history variable)
  oncedone     \* threads to which pthread_once has returned (likewise)

onceVars == <<control, initruns, oncedone>>

OnceInit == control = 0 /\ initruns = 0 /\ oncedone = {}

-----------------------------------------------------------------------------
OnceReturn(t) == Return(t) /\ oncedone' = oncedone \cup {t}

OnceCall(t) == Call(t, "once", "oncefast") /\ UNCHANGED onceVars

\* __pthread_once
OnceFast(t) ==
  /\ pc[t] = "oncefast"
  /\ IF control = 2 THEN OnceReturn(t) ELSE Goto(t, "oncecas") /\ UNCHANGED oncedone
  /\ UNCHANGED <<asleep, control, initruns>>

\* __pthread_once_full: the switch
OnceCas(t) ==
  /\ pc[t] = "oncecas"
  /\ control' = IF control = 0 THEN 1 ELSE control
  /\ \/ control = 0 /\ Goto(t, "init") /\ UNCHANGED oncedone
     \/ control = 1 /\ Goto(t, "oncemark") /\ UNCHANGED oncedone
     \/ control = 3 /\ Goto(t, "oncewait") /\ UNCHANGED oncedone
     \/ control = 2 /\ OnceReturn(t)
  /\ UNCHANGED <<asleep, initruns>>

OnceMark(t) ==
  /\ pc[t] = "oncemark"
  /\ control' = IF control = 1 THEN 3 ELSE control
  /\ Goto(t, "oncewait")
  /\ UNCHANGED <<asleep, initruns, oncedone>>

\* Mutant: a thread that was woken takes the routine to have been run.
OnceWaitReturns(t) ==
  /\ pc[t] = "oncewait" /\ t \notin asleep
  /\ IF control = 3 THEN FutexWait(t, TRUE, "oncewait") /\ UNCHANGED oncedone
     ELSE OnceReturn(t) /\ UNCHANGED asleep
  /\ UNCHANGED <<control, initruns>>

\* __wait(control, 0, 3, 1), then the switch again
OnceWait(t) ==
  /\ pc[t] = "oncewait" /\ t \notin asleep
  /\ FutexWait(t, control = 3, IF control = 3 THEN "oncewait" ELSE "oncecas")
  /\ UNCHANGED onceVars

\* The routine returns.
InitReturns(t) ==
  /\ pc[t] = "init"
  /\ initruns' = initruns + 1
  /\ control' = 2
  /\ IF control = 3 THEN Goto(t, "oncewake") /\ UNCHANGED oncedone ELSE OnceReturn(t)
  /\ UNCHANGED asleep

OnceWake(t) ==
  /\ pc[t] = "oncewake"
  /\ WakeAll(asleep)
  /\ OnceReturn(t)
  /\ UNCHANGED <<control, initruns>>

\* The call never returns: the thread has exited.
ExitThread(t) ==
  /\ pc' = [pc EXCEPT ![t] = "exited"]
  /\ op' = [op EXCEPT ![t] = "none"]
  /\ UNCHANGED left

\* Mutant: undo wakes nobody.
UndoQuietly(t) ==
  /\ pc[t] = "init" /\ t \in OnceExiting
  /\ control' = 0
  /\ ExitThread(t)
  /\ UNCHANGED <<asleep, initruns, oncedone>>

\* The routine calls pthread_exit: undo
Undo(t) ==
  /\ pc[t] = "init" /\ t \in OnceExiting
  /\ control' = 0
  /\ IF control = 3 THEN Goto(t, "undowake") ELSE ExitThread(t)
  /\ UNCHANGED <<asleep, initruns, oncedone>>

UndoWake(t) ==
  /\ pc[t] = "undowake"
  /\ WakeAll(asleep)
  /\ ExitThread(t)
  /\ UNCHANGED onceVars

-----------------------------------------------------------------------------
\* The routine ends in one way or the other.
OnceStep(t) ==
  \/ OnceFast(t) \/ OnceCas(t) \/ OnceMark(t) \/ OnceWait(t)
  \/ InitReturns(t) \/ OnceWake(t) \/ Undo(t) \/ UndoWake(t)

OnceNext == \E t \in Threads : OnceCall(t) \/ OnceStep(t)

OnceFairness == \A t \in Threads : WF_<<threadVars, onceVars>>(OnceStep(t))

OnceSpec ==
  /\ ThreadsInit(OnceCalls) /\ OnceInit
  /\ [][OnceNext]_<<threadVars, onceVars>>
  /\ OnceFairness

-----------------------------------------------------------------------------
OnceTypeOK ==
  /\ control \in 0 .. 3
  /\ initruns \in Nat
  /\ oncedone \subseteq Threads

\* The routine is run to its end once, by one thread at a time, and nobody
\* returns before that, even when threads that ran it before have exited in
\* the middle with others asleep on the word.
OnceOnly ==
  /\ initruns <= 1
  /\ \A t, u \in Threads : pc[t] = "init" /\ pc[u] = "init" => t = u
  /\ oncedone # {} => initruns = 1
  /\ initruns = 1 => \A t \in Threads : pc[t] # "init"

\* All callers return or exit in the routine: nobody sleeps on a word that
\* will not change again.
OnceReturns ==
  (\E t \in Threads : op[t] = "once") ~> (\A t \in Threads : op[t] # "once")
=============================================================================
