SPECIFICATION Spec
CONSTANTS
  MaxOffset = 90
  MaxCount = 20
  ScrollFrom = 20
  Interval = 3
  Penalty = 4
  Rows = 5
  FirstRows = 3
  Every = 2
  Check = 4
  CheckUntil = 5
  CheckLater = 6
INVARIANTS
  TypeOK
  SpeedIsTheSchedule
  HurriesOnTime
  ClockIsTrue
  TowerIsStacked
  NeverAhead
PROPERTIES
  FloorsCarryThePlayer
CHECK_DEADLOCK FALSE
