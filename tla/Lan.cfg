CONSTANTS
  Callers = {c1}
  PingProves = TRUE
  KMin = 1
  KMax = 4
  Fast = 2
  Window = 2
  Resume = 3
  Unstable = 3
  Offline = 3
  Loops = {l1, l2}
  Seconds = {1, 2}
  Disturbances = 2
  Interfaces = {e0, e1}
  MaxChanges = 5
  Durations = {0, 1, 3}
  FastLimit = 2
SPECIFICATION MCSpec
INVARIANTS LanTypeOK SilenceIsDetected LanIsTidy
PROPERTY LanSettles
CHECK_DEADLOCK FALSE
