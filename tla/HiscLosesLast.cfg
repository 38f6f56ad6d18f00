SPECIFICATION Spec
CONSTANTS
  Posts = 5
  Ceiling = 4
  MaxValue = 3
  Names = {n1, n2}
INVARIANT
  LosesLastSlot
CHECK_DEADLOCK FALSE
