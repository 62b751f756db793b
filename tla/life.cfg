CONSTANTS
  m = m
  a = a
  b = b
  NoTid = NoTid
  Threads <- ThreeThreads
  Main = m
  Killers <- OneKiller
SPECIFICATION Spec
INVARIANTS FreedOnce ListLockOwnerAlive ListConsistent ExitsAlone
PROPERTIES JoinReturns NoLeak ListLockGranted
