CONSTANTS PingProves = FALSE
  Callers = {c1}
  KMin = 1
  KMax = 2
  Fast = 1
  Window = 3
  Resume = 3
  Unstable = 3
  Offline = 2
SPECIFICATION FairSpec
PROPERTY SilentGoesOffline
