CONSTANTS
  t1 = t1
  t2 = t2
  t3 = t3
  Threads <- ThreeThreads
  WRITER = 3
  RwCalls <- OneCallEach
  OnceExiting = {t1, t2}
  OnceCalls <- TwoCallsEach
  Null = Null
  Count = 3
  INT_MIN <- SmallIntMin
  BarrierCalls <- TwoCallsEach
SPECIFICATION Spec
INVARIANTS RwExclusion OnceOnly BarrierRounds BarrierMemoryAlive
PROPERTIES RwCallsReturn OnceReturns BarrierReturns
