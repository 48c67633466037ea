\* Two connections of one person, two calls in flight, one fault.
SPECIFICATION EphemeralFairSpec
CONSTANTS
  Socket = {s1, s2}
  Call = {c1, c2}
  PresenceTtl = 3
  Heartbeat = 2
  Window = 3
  Limit = 2
  MaxFaults = 1
INVARIANTS
  OnlineWhileConnected
  BurstBounded
PROPERTIES
  OfflineInTheEnd
  WindowEnds
