SPECIFICATION Spec
CONSTANTS
  Bottom = 6
  Every = 5
  MaxFall = 13
  MaxRise = 9
  Scrolls = {0, 1, 4, 15, 16}
  Above = 40
  MaxY = 112
INVARIANTS
  StandsOnAFloor
  FloorsHold
CHECK_DEADLOCK FALSE
