CONSTANTS
  Paths = {"/b", "/x", "y"}
  Rooted = {"/b", "/x"}
  NSlots = 2
  NBlocks = 4
  MaxSize = 2
  MaxUploads = 2
  Digits = {0, 1}
  Tasks = {t}
  MaxFiles = 1
  Chunk = 1
  Builtins <- MCBuiltins
SPECIFICATION Spec
INVARIANTS FilesExact 
