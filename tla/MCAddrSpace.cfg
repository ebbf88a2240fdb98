CONSTANTS
  Mms = {m1, m2}
  NoMm = NoMm
  Cpus = {c1, c2}
  Vas = {0, 1}
  PerTable = 1
  Frames = {1, 2, 3, 4, 5, 6, 7, 8}
  NumPages = 8
  MaxTracked = 6
  Vals = {1}
  MaxForks = 1
  Region <- MCRegion
  NoRegion = NoRegion
  Ops = {"copy", "munmap"}
  Copied <- BothPages
SPECIFICATION Spec
INVARIANTS OwnershipExact 
 
SYMMETRY Sym
