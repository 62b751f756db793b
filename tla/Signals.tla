------------------------------- MODULE Signals -------------------------------
(***************************************************************************)
(* Signals of one thread: the dispositions set by sigaction, the mask and  *)
(* the pending set the library keeps because the host has none, delivery   *)
(* by the callback __wasm_signal, and what fork does to them.              *)
(*                                                                         *)
(* The host calls __wasm_signal when the thread makes a host call.  Code   *)
(* of the application, outside and inside handlers, is a point at which    *)
(* that may happen; frames is the stack of handlers that are running, and  *)
(* of stretches of the library that run with every signal blocked.         *)
(***************************************************************************)
EXTENDS Integers, Sequences, FiniteSetsExt

CONSTANTS
  Sigs,        \* signal numbers the application uses
  FatalSigs,   \* those whose default action ends the process
  SigActions,  \* the dispositions sigaction is called with
  SigMasks,    \* the sets pthread_sigmask is called with
  HostSigs,    \* whether the host has dispositions to hand over at start-up
  MaxSends,    \* bound: signals sent
  MaxFrames,   \* bound: nesting of handlers
  MaxSets      \* bound: calls of sigaction and pthread_sigmask

Disposition == [handler : {"SIG_DFL", "SIG_IGN", "function"},
                resethand : BOOLEAN, nodefer : BOOLEAN, mask : SUBSET Sigs]

ASSUME SignalsAssumption ==
  /\ Sigs \subseteq Nat /\ FatalSigs \subseteq Sigs
  /\ SigActions \subseteq Disposition
  /\ SigMasks \subseteq SUBSET Sigs
  /\ HostSigs \subseteq BOOLEAN
  /\ MaxSends \in Nat /\ MaxFrames \in Nat /\ MaxSets \in Nat

VARIABLES
  sigmask, sigpending,   \* of the thread structure
  disposition,           \* __eintr_handler_callbacks
  defaultset,            \* default_handler is not NULL
  registered,            \* the host has the callback
  sent,                  \* signals the host will hand over
  frames,                \* handlers that are running, the innermost last
  sigmode,               \* "app", "deliver" (in __sig_deliver_pending), "dead" or "trapped"
  appmask,               \* the mask the application chose outside handlers (history)
  runs,                  \* runs of a handler since it was installed (history)
  sends, sets            \* counters for the bounds

sigState == <<sigmask, sigpending, disposition, defaultset, registered, sent>>
sigHistory == <<appmask, runs, sends, sets>>
sigVars == <<sigState, frames, sigmode, sigHistory>>

Default == [handler |-> "SIG_DFL", resethand |-> FALSE, nodefer |-> FALSE, mask |-> {}]

\* _start: __wasi_init_signals sets what the host hands over, which sets
\* default_handler too, and registers the callback.
SignalsInit ==
  /\ sigmask = {} /\ sigpending = {}
  /\ disposition = [s \in Sigs |-> Default]
  /\ defaultset \in HostSigs
  /\ registered = TRUE
  /\ sent = {}
  /\ frames = <<>>
  /\ sigmode = "app"
  /\ appmask = {}
  /\ runs = [s \in Sigs |-> 0]
  /\ sends = 0 /\ sets = 0

-----------------------------------------------------------------------------
Top == frames[Len(frames)]
Pop == SubSeq(frames, 1, Len(frames) - 1)

\* The library runs with every signal blocked.
Blocked == frames # <<>> /\ Top.sig = 0

\* The application is running, in a handler or not.
InApp == sigmode = "app" /\ ~Blocked

\* Mutant: the one-shot disposition is still in place while its handler runs.
ResetLate(s) == disposition

\* SA_RESETHAND on entry to a handler
Reset(s) ==
  IF disposition[s].handler # "SIG_DFL" /\ disposition[s].resethand
  THEN [disposition EXCEPT ![s] = Default] ELSE disposition

\* dispatch_signal
Dispatch(s) ==
  LET a == disposition[s] IN
  /\ disposition' = Reset(s)
  /\ \/ /\ a.handler = "function"
        /\ frames' = Append(frames, [sig |-> s, saved |-> sigmask])
        /\ sigmask' = sigmask \cup a.mask \cup (IF a.nodefer THEN {} ELSE {s})
        /\ runs' = [runs EXCEPT ![s] = @ + 1]
        /\ sigmode' = "app"
     \/ /\ a.handler # "function"
        /\ sigmode' = IF a.handler = "SIG_IGN" THEN "deliver"
                      ELSE IF ~defaultset THEN "trapped"
                      ELSE IF s \in FatalSigs THEN "dead" ELSE "deliver"
        /\ UNCHANGED <<frames, sigmask, runs>>

\* Mutant: what was held back while the handler ran is not looked at.
HandlerReturnOnly ==
  /\ InApp /\ frames # <<>>
  /\ sigmask' = Top.saved
  /\ frames' = Pop
  /\ UNCHANGED <<sigpending, disposition, defaultset, registered, sent, sigmode, sigHistory>>

\* A handler returns: dispatch_signal restores the mask, and both of its callers
\* go on with __sig_deliver_pending.
HandlerReturn ==
  /\ InApp /\ frames # <<>>
  /\ sigmask' = Top.saved
  /\ frames' = Pop
  /\ sigmode' = "deliver"
  /\ UNCHANGED <<sigpending, disposition, defaultset, registered, sent, sigHistory>>

\* __sig_deliver_pending: one turn of its loop
DeliverPending ==
  /\ sigmode = "deliver"
  /\ IF sigpending \subseteq sigmask
     THEN sigmode' = "app" /\ UNCHANGED <<sigmask, sigpending, disposition, frames, runs>>
     ELSE LET s == Min(sigpending \ sigmask) IN
          /\ sigpending' = sigpending \ {s}
          /\ Dispatch(s)
  /\ UNCHANGED <<defaultset, registered, sent, appmask, sends, sets>>

\* __wasm_signal
WasmSignal(s) ==
  /\ sigmode = "app" /\ s \in sent /\ Len(frames) < MaxFrames
  /\ sent' = sent \ {s}
  /\ IF s \in sigmask
     THEN sigpending' = sigpending \cup {s} /\ UNCHANGED <<sigmask, disposition, frames, sigmode, runs>>
     ELSE Dispatch(s) /\ UNCHANGED sigpending
  /\ UNCHANGED <<defaultset, registered, appmask, sends, sets>>

\* raise, kill or another process: a host without the callback drops the signal.
SendSignal(s) ==
  /\ sigmode = "app" /\ sends < MaxSends
  /\ sends' = sends + 1
  /\ sent' = IF registered THEN sent \cup {s} ELSE sent
  /\ UNCHANGED <<sigmask, sigpending, disposition, defaultset, registered, frames, sigmode, appmask, runs, sets>>

\* sigaction, __sigaction_external_default and signal
Sigaction(s, a) ==
  /\ InApp /\ sets < MaxSets
  /\ defaultset' = TRUE
  /\ disposition' = [disposition EXCEPT ![s] = a]
  /\ runs' = [runs EXCEPT ![s] = 0]
  /\ sets' = sets + 1
  /\ UNCHANGED <<sigmask, sigpending, registered, sent, frames, sigmode, appmask, sends>>

NextMask(how, set) == CASE how = "SIG_BLOCK" -> sigmask \cup set
                        [] how = "SIG_UNBLOCK" -> sigmask \ set
                        [] how = "SIG_SETMASK" -> set

\* pthread_sigmask, sigprocmask: whatever may unblock also delivers.
PthreadSigmask(how, set) ==
  /\ InApp /\ sets < MaxSets
  /\ sigmask' = NextMask(how, set)
  /\ appmask' = IF frames = <<>> THEN sigmask' ELSE appmask
  /\ sigmode' = IF how = "SIG_BLOCK" THEN "app" ELSE "deliver"
  /\ sets' = sets + 1
  /\ UNCHANGED <<sigpending, disposition, defaultset, registered, sent, frames, runs, sends>>

-----------------------------------------------------------------------------
(* _Fork, in the child.  sigaction blocks and restores in the same way when *)
(* the signal is SIGABRT.                                                   *)

\* __block_all_sigs: no handler runs until the mask is restored.
BlockAllSigs ==
  /\ InApp /\ Len(frames) < MaxFrames
  /\ frames' = Append(frames, [sig |-> 0, saved |-> sigmask])
  /\ sigmask' = Sigs
  /\ UNCHANGED <<sigpending, disposition, defaultset, registered, sent, sigmode, sigHistory>>

\* __wasi_proc_fork, seen from the child: for the host it is a new instance,
\* without signals and without a callback.
HostFork ==
  /\ sigmode = "app" /\ Blocked /\ registered
  /\ registered' = FALSE
  /\ sent' = {}
  /\ UNCHANGED <<sigmask, sigpending, disposition, defaultset, frames, sigmode, sigHistory>>

\* The child's branch: __sig_register_callback, and no signal is pending
ForkChild ==
  /\ ~registered
  /\ registered' = TRUE
  /\ sigpending' = {}
  /\ UNCHANGED <<sigmask, disposition, defaultset, sent, frames, sigmode, sigHistory>>

\* __restore_sigs
RestoreSigs ==
  /\ sigmode = "app" /\ Blocked /\ registered
  /\ sigmask' = Top.saved
  /\ frames' = Pop
  /\ sigmode' = "deliver"
  /\ UNCHANGED <<sigpending, disposition, defaultset, registered, sent, sigHistory>>

-----------------------------------------------------------------------------
SignalsNext ==
  \/ HandlerReturn \/ DeliverPending \/ BlockAllSigs \/ HostFork \/ ForkChild \/ RestoreSigs
  \/ \E s \in Sigs : WasmSignal(s) \/ SendSignal(s) \/ \E a \in SigActions : Sigaction(s, a)
  \/ \E how \in {"SIG_BLOCK", "SIG_UNBLOCK", "SIG_SETMASK"}, m \in SigMasks : PthreadSigmask(how, m)

SignalsSpec == SignalsInit /\ [][SignalsNext]_sigVars

-----------------------------------------------------------------------------
SignalsTypeOK ==
  /\ sigmask \subseteq Sigs /\ sigpending \subseteq Sigs /\ sent \subseteq Sigs
  /\ disposition \in [Sigs -> Disposition]
  /\ defaultset \in BOOLEAN /\ registered \in BOOLEAN
  /\ frames \in Seq([sig : Sigs \cup {0}, saved : SUBSET Sigs])
  /\ sigmode \in {"app", "deliver", "dead", "trapped"}
  /\ appmask \subseteq Sigs
  /\ runs \in [Sigs -> Nat]

\* The application is running outside any handler.
Outside == sigmode = "app" /\ frames = <<>>

\* "Nothing else would pick these up": when the application goes on outside
\* handlers, no signal it does not block is left pending, its mask is the one it
\* chose there, and the host has the callback, however handlers, mask changes,
\* blocked stretches of the library and forks nested before.
SigSettled ==
  Outside => sigpending \subseteq sigmask /\ sigmask = appmask /\ registered

\* A handler installed with SA_RESETHAND runs at most once, even if its signal
\* is raised again from inside it, or was pending when it was installed.
SigOneShot ==
  \A s \in Sigs :
    disposition[s].resethand /\ disposition[s].handler = "function" => runs[s] = 0
=============================================================================
