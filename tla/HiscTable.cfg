SPECIFICATION Spec
CONSTANTS
  Posts = 5
  Ceiling = 3
  MaxValue = 4
  Names = {n1, n2}
INVARIANTS
  TypeOK
  AlwaysSorted
PROPERTIES
  PlaceKept
  ImplementsHighScores
CHECK_DEADLOCK FALSE
