SPECIFICATION Spec
CONSTANTS
  Procs = {p1, p2}
  NoOwner = NoOwner
  MaxCrashes = 0
INVARIANTS OneAtATime
SYMMETRY Symmetry
