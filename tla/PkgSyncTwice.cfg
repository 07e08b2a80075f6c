SPECIFICATION Spec
CONSTANTS
  Procs = {p1, p2}
  NoOwner = NoOwner
  Custom = FALSE
  MaxFailures = 1
  MaxCrashes = 0
INVARIANTS OneSyncAtATime
SYMMETRY Symmetry
