CONSTANTS
  Tasks = {t1, t2, t3}
  NoTask = NoTask
  Env = {"exit", "kill"}
  MaxDeaths = 1
  PoolSize = 1
  GenMax = 1
  MaxAllocs = 1
  OpsMod = 8
  CondGenMax = 1
  MaxConds = 1
  SemPoolSize = 1
  SemGenMax = 1
  MaxSems = 1
  Value = 1
  MaxPosts = 0
  NChannels = 1
  Lengths = {2}
  Caps = {2}
  MaxSends = 1
  Ops = {"alloc", "salloc"}
SPECIFICATION Spec
INVARIANTS  NoLostWakeup ExactlyOnce   
SYMMETRY Sym
CHECK_DEADLOCK FALSE
