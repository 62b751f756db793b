--------------------------- MODULE MCLibraryState ---------------------------
(***************************************************************************)
(* Instances of Semaphore, Signals, Mman, TsdKeys, ExitHandlers,           *)
(* PathLookup and StdioStream for TLC.  These parts of the library share   *)
(* no state, so a program exercises one of them, which the initial state   *)
(* chooses.                                                                *)
(***************************************************************************)
EXTENDS Semaphore, Signals, Mman, TsdKeys, ExitHandlers, PathLookup, StdioStream,
        TLC

CONSTANTS t1, t2, s1, s2, s3, s4

VARIABLE part   \* the part of the library the program exercises

vars == <<part, threadVars, semVars, sigVars, mmanVars, tsdVars, exitVars, pathVars,
          stdioVars>>

TwoThreads == {t1, t2}
FourThreads == {s1, s2, s3, s4}
OneCallsTwice == [t \in FourThreads |-> IF t = s4 THEN 2 ELSE 1]

\* Threads that make the same calls are interchangeable.
Symmetry == Permutations({s1, s2, s3})

Handler == [handler |-> "function", resethand |-> FALSE, nodefer |-> FALSE, mask |-> {}]
SomeActions == {Handler, [Handler EXCEPT !.resethand = TRUE, !.nodefer = TRUE],
                [Handler EXCEPT !.mask = {2}], [Default EXCEPT !.handler = "SIG_IGN"]}
SomeMasks == {{1}, {1, 2}}

A == <<"a">>
AB == <<"a", "/", "b">>
SomePaths == {<<"b">>, Dot, Dot \o Dot, Dot \o Slash \o <<"b">>, Slash \o AB, Slash \o Slash \o A}
SomePrefixes == {Slash, A, Slash \o AB}
NestedPrefixes == {Slash \o A, Slash \o AB}
SomeDirs == {<<>>, <<A>>, <<A, <<"b">>>>}

SomeContents == {<<>>, <<2, 3, 4>>}
SomeWrites == {<<NL>>, <<5>>, <<5, NL, 5>>}

Init ==
  /\ part \in {"semaphore", "signals", "mman", "tsd", "exit", "path", "stdio"}
  /\ ThreadsInit(SemCalls) /\ SemInit
  /\ SignalsInit /\ MmanInit /\ TsdInit /\ ExitInit /\ PathInit /\ StdioInit
  /\ part # "signals" => defaultset
  /\ part # "path" => hostcwd = <<>>
  /\ part # "stdio" => fp.nowr /\ fp.data = <<>>

Next ==
  \/ /\ part = "semaphore" /\ SemNext
     /\ UNCHANGED <<part, sigVars, mmanVars, tsdVars, exitVars, pathVars, stdioVars>>
  \/ /\ part = "signals" /\ SignalsNext
     /\ UNCHANGED <<part, threadVars, semVars, mmanVars, tsdVars, exitVars, pathVars, stdioVars>>
  \/ /\ part = "mman" /\ MmanNext
     /\ UNCHANGED <<part, threadVars, semVars, sigVars, tsdVars, exitVars, pathVars, stdioVars>>
  \/ /\ part = "tsd" /\ TsdNext
     /\ UNCHANGED <<part, threadVars, semVars, sigVars, mmanVars, exitVars, pathVars, stdioVars>>
  \/ /\ part = "exit" /\ ExitNext
     /\ UNCHANGED <<part, threadVars, semVars, sigVars, mmanVars, tsdVars, pathVars, stdioVars>>
  \/ /\ part = "path" /\ PathNext
     /\ UNCHANGED <<part, threadVars, semVars, sigVars, mmanVars, tsdVars, exitVars, stdioVars>>
  \/ /\ part = "stdio" /\ StdioNext
     /\ UNCHANGED <<part, threadVars, semVars, sigVars, mmanVars, tsdVars, exitVars, pathVars>>

Spec == Init /\ [][Next]_vars
=============================================================================
