SPECIFICATION Spec
CHECK_DEADLOCK FALSE
CONSTANTS
  c1 = c1
  c2 = c2
  i1 = i1
  i2 = i2
  b = b
  u1 = u1
  u2 = u2
  m1 = m1
  m2 = m2
  m3 = m3
  NoTask = NoTask
  NoMm = NoMm
  InitMm = InitMm
  CPUs = {c1, c2}
  Tasks = {i1, i2, b, u1, u2}
  Idle <- IdleTasks
  Boot = b
  BootCpu = c1
  Mms = {m1, m2, m3}
SYMMETRY Symmetry
INVARIANTS
  RefsExact
  RunsOnItsSpace
  OnlyRunningBorrow
