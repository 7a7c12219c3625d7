SPECIFICATION FairSpec
CHECK_DEADLOCK FALSE
CONSTANTS
  t1 = t1
  t2 = t2
  t3 = t3
  t4 = t4
  NoTimer = NoTimer
  NumCpus = 1
  Timers = {t1, t2, t3, t4}
  Pinned <- OneUnpinned
  Period <- OnePeriodic
  CallersOf <- OwnCpu
  MaxTimers = 3
  MaxTime = 2
  MaxLatency = 1
INVARIANTS
  HeapsAreSound
  DeadlineIsProgrammed
PROPERTIES
  ExpiredTimersRun
