CONSTANTS
  t1 = t1
  t2 = t2
  t3 = t3
  t4 = t4
  Threads <- FourThreads
  SEM_VALUE_MAX = 2
  SemValues = {1}
  SemCalls <- OneCallsTwice
SYMMETRY Symmetry
SPECIFICATION SemSpec
INVARIANT SemTokenTaken
CHECK_DEADLOCK FALSE
