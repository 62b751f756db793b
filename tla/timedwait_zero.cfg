CONSTANTS
  t1 = t1
  Waiters <- OneWaiter
  NSEC = 3
  Deadlines <- SomeDeadlines
  Forever = Forever
  Counts = {1, 2, 7}
  INT_MAX = 7
  MaxClock = 6
  MaxWord = 2
  HostEinval = FALSE
SPECIFICATION TimedSpec
INVARIANT TimedSleepBounded
CHECK_DEADLOCK FALSE
