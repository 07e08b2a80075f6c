SPECIFICATION FairSpec
CONSTANTS
  Procs = {p1, p2}
  NoOwner = NoOwner
  Custom = FALSE
  MaxFailures = 1
  MaxCrashes = 0
PROPERTIES LockRecovered
