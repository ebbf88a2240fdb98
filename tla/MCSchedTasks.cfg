CONSTANTS
  NCpus = 1
  MaxTasks = 3
  MaxId = 5
  MaxSleep = 1
  Ops <- TaskOps
SPECIFICATION FairSpec
INVARIANTS NoLostWake
PROPERTIES DeadStaysDead SleeperWakes
