SPECIFICATION Spec
CONSTANTS
  Root = t0
  Tasks = {t0, t1}
  Table0 = A
  Tables = {A, B}
  Files = {x, y}
  NFds = 2
  MaxLost = 1
  None = None
SYMMETRY Symmetric
INVARIANTS
  
  ReleasedIsUnused
  
  ExecIsAlone
