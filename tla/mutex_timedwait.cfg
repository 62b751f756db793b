CONSTANTS
  t1 = t1
  t2 = t2
  t3 = t3
  None = None
  Threads <- ThreeThreads
  Types = {"RECURSIVE", "ERRORCHECK"}
  Pshared = TRUE
  CountMax = 1
  Dying <- OneDying
  MaxCalls <- OneRecurses
  Waiters <- TwoWaiters
  NSEC = 3
  Deadlines <- SomeDeadlines
  Forever = Forever
  Counts = {1, 7}
  INT_MAX = 7
  MaxClock = 5
  MaxWord = 2
  HostEinval = FALSE
SPECIFICATION EitherSpec
INVARIANTS RecursionBalance TimeoutIsReal AllReached
SYMMETRY Symmetry
