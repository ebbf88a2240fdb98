CONSTANTS
  App = "app"
  Interp = "ld.so"
  Libs = {"A", "B", "C"}
  Modes <- BothModes
  Graphs <- SomeGraphs
  Unusable <- SomeUnusable
  MaxObjects = 4
  Symbols = {"e", "f", "g", "h", "u"}
  Defines <- TheDefines
  Eager <- TheEager
  Lazy <- TheLazy
  CacheSize = 3
  Threads = {t1, t2}
  NoThread = nobody
  Kills = TRUE
SPECIFICATION FairSpec
INVARIANTS ClosureLoaded 
 
CHECK_DEADLOCK FALSE
