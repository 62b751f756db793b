---------------------------- MODULE MCSyncObjects ----------------------------
(***************************************************************************)
(* Instances of RWLock, Once and Barrier for TLC.  The objects share no    *)
(* state but their threads, so a program uses one of them, which the       *)
(* initial state chooses; the other two keep their initial values.         *)
(***************************************************************************)
EXTENDS RWLock, Once, Barrier

CONSTANTS t1, t2, t3

VARIABLE obj   \* the object the program uses

vars == <<obj, threadVars, rwVars, onceVars, barrierVars>>

ThreeThreads == {t1, t2, t3}
OneCallEach == [t \in ThreeThreads |-> 1]
TwoCallsEach == [t \in ThreeThreads |-> 2]
SmallIntMin == -8

Init ==
  /\ obj \in {"rwlock", "once", "barrier"}
  /\ ThreadsInit(CASE obj = "rwlock" -> RwCalls
                   [] obj = "once" -> OnceCalls
                   [] obj = "barrier" -> BarrierCalls)
  /\ RwInit /\ OnceInit /\ BarrierInit
  /\ obj # "barrier" => ~bshared

\* Every call is over, or sleeps for something that nobody will do.
Over ==
  /\ \A t \in Threads : pc[t] \in {"idle", "exited"} \/ t \in asleep
  /\ UNCHANGED vars

Next ==
  \/ /\ obj = "rwlock" /\ RwNext
     /\ UNCHANGED <<obj, onceVars, barrierVars>>
  \/ /\ obj = "once" /\ OnceNext
     /\ UNCHANGED <<obj, rwVars, barrierVars>>
  \/ /\ obj = "barrier" /\ BarrierNext
     /\ UNCHANGED <<obj, rwVars, onceVars>>
  \/ Over

\* The step of t that the fairness of the object in use speaks of.
Step(t) ==
  \/ /\ obj = "rwlock" /\ RwStep(t)
     /\ UNCHANGED <<obj, onceVars, barrierVars>>
  \/ /\ obj = "once" /\ OnceStep(t)
     /\ UNCHANGED <<obj, rwVars, barrierVars>>
  \/ /\ obj = "barrier" /\ (BarrierStep(t) \/ BarrierCall(t))
     /\ UNCHANGED <<obj, rwVars, onceVars>>

Fairness == \A t \in Threads : WF_vars(Step(t))

Spec == Init /\ [][Next]_vars /\ Fairness
=============================================================================
