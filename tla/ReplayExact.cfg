SPECIFICATION Spec
CONSTANTS
  left = left
  fire = fire
  up = up
  sentinel = sentinel
  Buttons <- MCButtons
  Recorded <- MCRecorded
  Fire = fire
  Junk <- MCJunk
  Sentinel = sentinel
  Capacity = 7
  AirTicks = 2
  MaxTicks = 5
  MaxPlayed = 8
INVARIANT
  PlaybackIsExact
