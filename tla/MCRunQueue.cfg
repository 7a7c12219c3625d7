SPECIFICATION Spec
CONSTANTS
  c1 = c1
  c2 = c2
  t1 = t1
  t2 = t2
  t3 = t3
  w1 = w1
  w2 = w2
  BootCpu = c1
  CPUs = {c1, c2}
  Tasks = {t1, t2}
  Wakers = {w1, w2}
  CpuOf <- AllOnFirst
  WakerCpu <- OnePerCpu
  Sleepers = {t1}
  Yielders = {t2}
  Lowest = 2
  DemoteAfter = 1
  AgingTicks = 1
INVARIANTS
  QueuedOnce
  NoHiddenTask
  NoForgottenTask
  PreemptionAlive
PROPERTIES
  AgingIsGradual
CHECK_DEADLOCK FALSE
