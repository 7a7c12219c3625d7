CHECK_DEADLOCK FALSE
SPECIFICATION FairSpec
CONSTANTS
  init = init
  a = a
  b = b
  Tasks = {init, a, b}
  ReaperOf <- InitReaps
  NoTask = NoTask
INVARIANTS
  DestroyedOnce
  FreedIsUnreachable
  NoLostChild
PROPERTIES
  ExitedAreReaped
