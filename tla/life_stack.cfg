CONSTANTS
  m = m
  a = a
  b = b
  NoTid = NoTid
  Threads <- TwoThreads
  Main = m
  Killers = {}
SPECIFICATION Spec
INVARIANT StackNotInUse
