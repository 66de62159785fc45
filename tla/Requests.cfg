CONSTANTS
  Keys = {k1, k2}
  Procs = {p1, p2}
  Batch = 2
  MaxRetry = 2
  MaxStarts = 2
  None = None
  Stale = Stale
  Requests = {r1, r2}
  MaxCloses = 1
  MaxReplies = 2
SPECIFICATION MCSpec
INVARIANTS RequestsTypeOK QueueCovered RepliesAreExact
PROPERTY NothingIsForgotten
CHECK_DEADLOCK FALSE
