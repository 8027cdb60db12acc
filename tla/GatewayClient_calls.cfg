SPECIFICATION FairSpec
CONSTANTS
  Calls = {c1, c2}
  MaxCredentials = 3
  FailureThreshold = 5
  OpenTimeout = 3
  MaxCacheSize = 2
  SoonThreshold = 1
INVARIANTS
  TypeOK
  BreakerConsistent
  GaugeTracksBreaker
PROPERTIES
  FailFast
  AuthErrorIsHonest
  BreakerRecovers
