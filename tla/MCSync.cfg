CONSTANTS
  Tasks = {t1, t2}
  NoTask = NoTask
  Env = {}
  MaxDeaths = 0
  PoolSize = 1
  GenMax = 1
  MaxAllocs = 1
  OpsMod = 8
  CondGenMax = 1
  MaxConds = 1
  SemPoolSize = 1
  SemGenMax = 1
  MaxSems = 1
  Value = 1
  MaxPosts = 1
  NChannels = 1
  Lengths = {2}
  Caps = {1, 2}
  MaxSends = 1
  Ops = {"alloc", "salloc", "try", "free", "signal", "cfree", "stry", "sfree"}
SPECIFICATION FairSpec
 
INVARIANTS  PermitsConserved
CHECK_DEADLOCK FALSE
