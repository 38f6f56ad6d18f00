SPECIFICATION Spec
CONSTANTS
  MaxHeld = 2
  MaxSecond = 2
  DeathStep = 8
  DeathOver = 10
  DeathCap = 20
INVARIANTS
  TypeOK
  CommitsFinishedGames
  CountedOnce
  QuitArmUnreachable
  PlayTimeHonest
  
  MusicStops
CHECK_DEADLOCK FALSE
