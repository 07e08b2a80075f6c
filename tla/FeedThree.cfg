SPECIFICATION Spec
CONSTANTS
  Procs = {p1, p2, p3}
  Old = Old
  Nobody = Nobody
  MaxCrashes = 2
INVARIANTS TypeOK TwoKeepItems NoLockLeft
PROPERTIES AddReliably
SYMMETRY Symmetry
CHECK_DEADLOCK FALSE
