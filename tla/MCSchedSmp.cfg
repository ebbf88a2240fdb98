CONSTANTS
  NCpus = 2
  MaxTasks = 4
  MaxId = 4
  MaxSleep = 1
  Ops <- NoBlockOps
SPECIFICATION FairSpec
INVARIANTS RunQueuesOK OneCpuPerTask ActiveStackAlive ReapedOnce
PROPERTIES KillSyncFinal ReadyRuns KilledReaped
