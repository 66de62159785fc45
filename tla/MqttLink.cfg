CONSTANTS
  Threads = {t1, t2}
  Managers = {m1, m2}
  None = None
SPECIFICATION FairSpec
INVARIANTS TypeOK ManagersAreOwned
PROPERTY CallsReturn
