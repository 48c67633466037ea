\* Two registrations, a revocation, KeyPackages and two fetches that compete
\* for them; or publications of one device over two identity keys that overlap
\* each other or a fetch.
SPECIFICATION MCSpec
CONSTANTS
  Person = {p}
  Registration = {r1, r2}
  Revocation = {v1}
  Publication = {b1, b2}
  MlsPublication = {m1}
  Fetch = {f1, f2}
  IdentityKey = {k1, k2}
  MaxBatch = 1
  Earliest = b1
  MaxFailures = 1
  Nobody = Nobody
  NoCall = NoCall
  NoKey = NoKey
SYMMETRY Symmetry
INVARIANTS
  HandedOutOnce
  NewestDeviceOnly
  NoStaleDeviceServed
  BundleOfOneDevice
  PrekeyWasVerified
  TwoActiveOnlyIfCrossed
PROPERTIES
  AcceptedUnlessCrossed
