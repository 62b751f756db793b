CONSTANTS
  m = m
  t1 = t1
  t2 = t2
  Threads <- ThreeThreads
  Main = m
  SpinMax = 1
  MaxCalls = 2
SPECIFICATION Spec
INVARIANTS MutualExclusion CongestionExact
PROPERTIES EveryLockEnters RefinesAbstractLock
