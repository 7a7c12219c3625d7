SPECIFICATION FairSpec
CHECK_DEADLOCK FALSE
CONSTANTS
  t1 = t1
  t2 = t2
  t3 = t3
  t4 = t4
  Tasks = {t1, t2, t3, t4}
  Signalled = {t1, t2}
  WaitHead = WaitHead
INVARIANTS
  MutualExclusion
  NoLostWakeup
  QueueIsSleepers
PROPERTY SomeoneGetsIn
