CONSTANTS
  Loaders = {l1}
  Mains <- SmallMains
  Interps <- SmallInterps
  PageSize = 4
  Stride = 16
  CodeBase = 4
  HeapLimit = 64
  StackRegion <- Stack
  MaxRegions = 6
SPECIFICATION Spec
INVARIANTS LoadsRight
