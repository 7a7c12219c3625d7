SPECIFICATION Spec
CHECK_DEADLOCK FALSE
CONSTANTS
  r1 = r1
  w1 = w1
  e1 = e1
  e2 = e2
  NoTask = NoTask
  Pipes = {1, 2}
  Readers = {r1}
  Writers = {w1}
  Teers = {e1, e2}
  In <- InTwo
  Out <- OutTwo
  Bytes = {b0, b1}
  BufSize = 2
  ReadLens = {1}
  WriteLens = {2}
  TeeLens = {1}
SYMMETRY ByteSymmetry
INVARIANTS
  
  NoLockCycle
PROPERTIES
  PipesAreQueues
