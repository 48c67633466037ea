\* A call that fails between INCR and EXPIRE.
SPECIFICATION EphemeralSpec
CONSTANTS
  Socket = {s1}
  Call = {c1, c2}
  PresenceTtl = 3
  Heartbeat = 2
  Window = 2
  Limit = 1
  MaxFaults = 1
INVARIANTS
  EveryKeyExpires
