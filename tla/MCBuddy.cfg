SPECIFICATION Spec
CONSTANTS
  c1 = c1
  c2 = c2
  NoPage = NoPage
  CPUs = {c1, c2}
  FirstPfn = 1
  LastPfn = 8
  Layouts <- AllLayouts
  MaxOrder = 3
  Limits <- Both
  BootLimit <- Small
SYMMETRY CpuSymmetry
INVARIANTS
  EveryFrameOnce
  FullyMerged
  
