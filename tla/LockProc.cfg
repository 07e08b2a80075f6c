SPECIFICATION FairSpec
CONSTANTS
  Procs = {p1, p2, p3}
  NoOwner = NoOwner
  MaxCrashes = 2
INVARIANTS MutualExclusion RunnerKeepsLock
PROPERTIES StaleLockRecovered ImplementsTryLock
