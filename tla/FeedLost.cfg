SPECIFICATION Spec
CONSTANTS
  Procs = {p1, p2}
  Old = Old
  Nobody = Nobody
  MaxCrashes = 0
INVARIANTS ItemsKept
SYMMETRY Symmetry
CHECK_DEADLOCK FALSE
