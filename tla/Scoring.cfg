SPECIFICATION Spec
CONSTANTS
  MaxLevel = 5
  MaxMoves = 6
  ComboTime = 3
  JumpSizes = 3
  MaxCombos = 2
  MaxJumps = 4
INVARIANTS
  TypeOK
  ComboFloorsConserved
  ScoreIsTheCombos
  SequencesTileTheGame
  TopsAreTheLongestSequences
  ComboStartHonest
PROPERTIES
  NoComboTopEarned
CHECK_DEADLOCK FALSE
