\* Decisions while Core wakes up, decisions that overlap each other or a page,
\* and walks of three people by pages of two over two instances, with one change
\* of Core's data.
SPECIFICATION MCSpec
CONSTANTS
  Instance = {i1, i2}
  Call = {c1, c2}
  Person = {1, 2, 3}
  Role = {"FACULTY", "HOSTEL_WARDEN"}
  RoleSets = {{"FACULTY"}, {"FACULTY", "HOSTEL_WARDEN"}, {"PRINCIPAL"}, {"LIBRARY"}, {"DRIVER"}}
  CacheTtl = 1
  RequestTimeout = 2
  MaxRetries = 2
  WakeTime = 3
  MaxChanges = 1
  PageLimit = 2
  MaxFailures = 2
  First = c1
  Home = i1
INVARIANTS
  DecisionIsCurrent
  SurvivesWakeUp
  WalkShowsEverybody
PROPERTIES
  EveryReadEnds
  WalkEnds
