CONSTANTS
  Loops = {l1}
  Users = {u1}
  Subs = {b1}
  Targets = {t1}
  eth = eth
  Names = {eth}
  Hidden = {}
  AddrLists <- SomeAddresses
  MaxChanges = 1
  NoInfo = NoInfo
  gA = gA
  gB = gB
  Gateways = {gA, gB}
  Versions = {1}
  GroupOf <- Group
  RolesOf <- Roles
  Browses = {b1, b2}
  Starters = {u1}
  NoRecord = NoRecord
  Net = 6
  Preferred = 3
  LocalHosts = {}
  Workers = {w1, w2}
  Nobody = Nobody
SPECIFICATION MCSpec
INVARIANTS NetworkTypeOK SubscribersKnow SearchesFind
PROPERTIES SearchesSettle
CHECK_DEADLOCK FALSE
