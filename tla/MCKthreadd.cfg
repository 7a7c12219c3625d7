SPECIFICATION Spec
CHECK_DEADLOCK FALSE
CONSTANTS
  x1 = x1
  x2 = x2
  Daemon = Daemon
  Creators = {x1, x2}
  Exiting = {x1, x2}
INVARIANTS
  
  QueuesAreSound
