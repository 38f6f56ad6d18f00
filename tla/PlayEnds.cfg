SPECIFICATION FairSpec
CONSTANTS
  MaxHeld = 2
  MaxSecond = 0
  DeathStep = 8
  DeathOver = 10
  DeathCap = 20
PROPERTIES
  CloseEnds
  DeathEnds
CHECK_DEADLOCK FALSE
