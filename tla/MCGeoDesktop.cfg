SPECIFICATION FairSpec
CONSTANTS
  Identities = {i1, i2}
  NoId = NoId
  Requests = {r1, r2, r3}
  NoRequest = NoRequest
  MaxEpoch = 2
INVARIANTS
    GeoSafety
PROPERTIES
    NoLateAnswer
    RevokedIsReleased
    RequestsEnd
CHECK_DEADLOCK FALSE
