---------------------------- MODULE ExitHandlers ----------------------------
(***************************************************************************)
(* atexit and exit: functions kept in blocks of COUNT that are linked as a *)
(* list, the newest first, and run without the lock, so that they may      *)
(* register more; and at_quick_exit with quick_exit, whose one block is    *)
(* fixed.  A function is named by its number in the order of registration. *)
(***************************************************************************)
EXTENDS Integers, SequencesExt

CONSTANTS
  COUNT,         \* functions of a block (32 in the code)
  MaxFuncs       \* bound: functions registered

ASSUME ExitAssumption == COUNT \in Nat \ {0} /\ MaxFuncs \in Nat

VARIABLES
  blocks, slot,  \* the list from head on, and the next place of its first block
  quick,         \* at_quick_exit's funcs, up to its count
  exitpc,        \* "main", "exit" or "quick" (the loop of it, with the lock),
                 \* "func" (a function of exit runs), "quickfunc",
                 \* "ended" or "quickended"
  pending,       \* functions registered and not run, in order (history)
  ran,           \* the function that ran last, and the one that was due (history)
  funcs          \* counter for the bound

exitVars == <<blocks, slot, quick, exitpc, pending, ran, funcs>>

NoFunc == 0
Block == [i \in 0 .. COUNT - 1 |-> NoFunc]

ExitInit ==
  /\ blocks = <<>> /\ slot = 0 /\ quick = <<>>
  /\ exitpc = "main"
  /\ pending = [exit |-> <<>>, quick |-> <<>>]
  /\ ran = [func |-> NoFunc, due |-> NoFunc]
  /\ funcs = 0

\* The program's code runs, and may register functions and call exit.
InProgram == exitpc \in {"main", "func", "quickfunc"}

\* Mutant: a new block is begun for the last place of the one before it.
CxaAtexitEarly ==
  LET list == IF blocks = <<>> THEN <<Block>> ELSE blocks
      full == slot + 1 >= COUNT
      at == IF full THEN 0 ELSE slot
      f == funcs + 1
  IN /\ InProgram /\ f <= MaxFuncs
     /\ blocks' = [(IF full THEN <<Block>> \o list ELSE list) EXCEPT ![1][at] = f]
     /\ slot' = at + 1
     /\ pending' = [pending EXCEPT !.exit = Append(@, f)]
     /\ funcs' = f
     /\ UNCHANGED <<quick, exitpc, ran>>

\* __cxa_atexit: the builtin block first, a new one when it is full
CxaAtexit ==
  LET list == IF blocks = <<>> THEN <<Block>> ELSE blocks
      full == slot = COUNT
      at == IF full THEN 0 ELSE slot
      f == funcs + 1
  IN /\ InProgram /\ f <= MaxFuncs
     /\ blocks' = [(IF full THEN <<Block>> \o list ELSE list) EXCEPT ![1][at] = f]
     /\ slot' = at + 1
     /\ pending' = [pending EXCEPT !.exit = Append(@, f)]
     /\ funcs' = f
     /\ UNCHANGED <<quick, exitpc, ran>>

\* calloc fails.
CxaAtexitFails ==
  /\ InProgram /\ slot = COUNT
  /\ blocks' = IF blocks = <<>> THEN <<Block>> ELSE blocks
  /\ UNCHANGED <<slot, quick, exitpc, pending, ran, funcs>>

AtQuickExit ==
  LET f == funcs + 1 IN
  /\ InProgram /\ f <= MaxFuncs /\ Len(quick) < COUNT
  /\ quick' = Append(quick, f)
  /\ pending' = [pending EXCEPT !.quick = Append(@, f)]
  /\ funcs' = f
  /\ UNCHANGED <<blocks, slot, exitpc, ran>>

CallExit ==
  /\ exitpc = "main"
  /\ exitpc' \in {"exit", "quick"}
  /\ UNCHANGED <<blocks, slot, quick, pending, ran, funcs>>

Due(s) == IF s = <<>> THEN NoFunc ELSE Last(s)
Rest(s) == IF s = <<>> THEN <<>> ELSE Front(s)

\* __funcs_on_exit: slot-- finds a function of the first block, or the block
\* is done
FuncsOnExit ==
  /\ exitpc = "exit"
  /\ IF blocks = <<>>
     THEN exitpc' = "ended" /\ UNCHANGED <<blocks, slot, pending, ran>>
     ELSE IF slot > 0
     THEN /\ slot' = slot - 1
          /\ exitpc' = "func"
          /\ ran' = [func |-> blocks[1][slot - 1], due |-> Due(pending.exit)]
          /\ pending' = [pending EXCEPT !.exit = Rest(@)]
          /\ UNCHANGED blocks
     ELSE /\ blocks' = Tail(blocks)
          /\ slot' = COUNT
          /\ UNCHANGED <<exitpc, pending, ran>>
  /\ UNCHANGED <<quick, funcs>>

FuncsOnQuickExit ==
  /\ exitpc = "quick"
  /\ IF quick = <<>>
     THEN exitpc' = "quickended" /\ UNCHANGED <<quick, pending, ran>>
     ELSE /\ quick' = Front(quick)
          /\ exitpc' = "quickfunc"
          /\ ran' = [func |-> Last(quick), due |-> Due(pending.quick)]
          /\ pending' = [pending EXCEPT !.quick = Rest(@)]
  /\ UNCHANGED <<blocks, slot, funcs>>

\* The function returns.
FuncReturns ==
  /\ exitpc \in {"func", "quickfunc"}
  /\ exitpc' = IF exitpc = "func" THEN "exit" ELSE "quick"
  /\ UNCHANGED <<blocks, slot, quick, pending, ran, funcs>>

ExitNext ==
  \/ CxaAtexit \/ CxaAtexitFails \/ AtQuickExit \/ CallExit
  \/ FuncsOnExit \/ FuncsOnQuickExit \/ FuncReturns

ExitSpec == ExitInit /\ [][ExitNext]_exitVars

-----------------------------------------------------------------------------
\* Every registered function runs once, in the reverse order of registration,
\* those included that functions register while the program ends, in whichever
\* block they land: the one that runs is the one that is due, and none is left
\* when exit has gone through the blocks.
ExitOrder ==
  /\ ran.func = ran.due
  /\ exitpc = "ended" => pending.exit = <<>>
  /\ exitpc = "quickended" => pending.quick = <<>>
=============================================================================
