CONSTANTS
  Callers = {c1, c2}
  Pipelines = {p1, p2}
  MaxRounds = 2
  None = None
  Closers = {own, restart}
  Viewers = {v1}
  MaxVersion = 3
  Offered = {"udp", "tcp"}
  NoTransport = NoTransport
SPECIFICATION MCSpec
PROPERTIES ViewersFollow 
CHECK_DEADLOCK FALSE
