SPECIFICATION Spec
CONSTANTS
  Turns = {t1, t2, t3}
  Milli = 2
  Limit = 4
  Direction = "backward"
  MaxTime = 6
SYMMETRY Symmetry
INVARIANTS BackwardPagesDisjoint
CHECK_DEADLOCK FALSE
