CONSTANTS Cpus = {c0, c1, c2}
SPECIFICATION FairSpec
INVARIANTS NoSelfWait
PROPERTIES ImplementsLock Progress
