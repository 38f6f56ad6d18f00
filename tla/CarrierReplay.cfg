SPECIFICATION Spec
CONSTANTS
  NoKey = "none"
  Keys = {"left"}
  Seconds = {"early", "late"}
  Epoch = "epoch"
  TickMs = 2
  QueueCap = 1
  Naps = {1, 3}
  MaxCalls = 4
  MaxOverrun = 1
  MaxCaptured = 2
INVARIANTS
  ReplayIsTheRecording
  OneTickLate
CHECK_DEADLOCK FALSE
