SPECIFICATION Spec
CHECK_DEADLOCK FALSE
CONSTANTS
  d0 = d0
  d1 = d1
  d2 = d2
  NoPte = NoPte
  NoTable = NoTable
  Levels = 2
  Entries = 2
  Tables = {d0, d1, d2}
  Root = d0
  Frames = {2, 3}
  DataFrame = 2
  Top = 4
  PageBytes = 2
  StartBrk = 3
  Breaks = {3, 7}
  Hints = {0, 2}
  Prots = {"none", "rw"}
INVARIANTS
  PagesHaveAreas
  FramesOwnedOnce
  TablesLinkedOnce
PROPERTIES
  MemoryIsKept
