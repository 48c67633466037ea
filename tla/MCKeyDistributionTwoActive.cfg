\* Two publications of one device overlap.
SPECIFICATION MCSpec
CONSTANTS
  Person = {p}
  Registration = {r1}
  Revocation = {}
  Publication = {b1, b2}
  MlsPublication = {}
  Fetch = {}
  IdentityKey = {k1}
  MaxBatch = 1
  Earliest = b1
  MaxFailures = 1
  Nobody = Nobody
  NoCall = NoCall
  NoKey = NoKey
INVARIANTS
  OneActiveSignedPrekey
