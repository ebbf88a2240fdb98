SPECIFICATION Spec
CONSTANTS
  NCpus = 2
  MaxTasks = 4
  MaxId = 3
  MaxSleep = 1
  Ops <- SleepOps
INVARIANTS OneCpuPerTask
