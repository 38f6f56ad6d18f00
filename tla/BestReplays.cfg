SPECIFICATION Spec
CONSTANTS
  Bests = 2
  MaxValue = 2
  MaxGames = 2
INVARIANTS
  BestsCanBeWatched
  NothingLeftBehind
  ChecksumIsTheLastGames
CHECK_DEADLOCK FALSE
