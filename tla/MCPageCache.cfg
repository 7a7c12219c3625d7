SPECIFICATION Spec
CONSTANTS
  file = file
  dir = dir
  Files = {file, dir}
  Dirs = {dir}
  Span <- MCSpan
  PerPage = 2
  MaxPages = 1
  ReadAhead = 2
  Values = {0, 1}
  Hole = Hole
  Junk = Junk
  MaxWrite = 2
  MaxFaults = 2
  MaxPins = 1
INVARIANTS
  ReadsReturnWrites
  DropsAreSafe
  CacheIsSound
  CacheIsBounded
