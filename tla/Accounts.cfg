CONSTANTS
  Tasks = {t1, t2}
  MaxToken = 2
  MaxKey = 2
  MaxCrashes = 1
  Users = {u1, u2}
  Patches <- SomePatches
  Queries <- SomeQueries
  MaxSaves = 3
  a = a
  sub = sub
  b = b
  Order <- Devices
  ParentOf <- Parents
  PageOf <- Pages
  Homes = {h1, h2}
  Rooms = {r1}
  Selected = {h1}
  ChunkSize = 2
  PageSize = 1
  MaxChanges = 1
  NoDevice = NoDevice
  NoPlace = NoPlace
  Callers = {c1}
  MaxMoves = 2
  Parsers = {p1, p2}
  Urns <- SomeUrns
  BaseURN <- Bases
  Instances <- Published
  Information = {1}
  RuleSets <- SomeRules
  RemoteText <- Remote
  LocalText <- Embedded
  Language = "zh"
  DefaultLanguage = "en"
  MaxParses = 3
SPECIFICATION MCSpec
SYMMETRY Symmetry
INVARIANTS AccountsTypeOK CredentialsMatch SavedIsKept SnapshotIsTrue CommandsAreRouted SpecsAreTrue
CHECK_DEADLOCK FALSE
