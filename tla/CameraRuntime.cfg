CONSTANTS
  Threads = {t1, t2}
  Instances = {i1}
  Sessions = {s1, s2, s3}
  Absent = Absent
  Emitters = {e1}
  Channels = {left, right}
  Kinds = {"statusChanged", "jpegChanged", "decodedJPEG"}
  MaxId = 3
  AnyChannel = AnyChannel
  Users = {u1, u2}
  Backends = 2
  Tickets = {k1, k2}
  TTL = 1
  Callers = {c1, c2}
  Pipelines = {p1, p2}
  MaxRounds = 2
  None = None
  Closers = {own, restart}
  Viewers = {v1}
  MaxVersion = 3
  Offered = {"udp", "tcp"}
  NoTransport = NoTransport
SPECIFICATION MCSpec
INVARIANTS RuntimeTypeOK SessionsAreKept RegistrationsLast SessionsAreServed NothingIsLeftBehind
SYMMETRY Symmetry
CHECK_DEADLOCK FALSE
