CONSTANTS
  t1 = t1
  t2 = t2
  t3 = t3
  None = None
  Threads <- ThreeThreads
  Types = {"NORMAL"}
  Pshared = FALSE
  CountMax = 1
  Dying <- OneDying
  MaxCalls <- OneCallEach
SPECIFICATION Spec
INVARIANTS MutualExclusion NoStrandedWaiter
PROPERTY EveryCallReturns
