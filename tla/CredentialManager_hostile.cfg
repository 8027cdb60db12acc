SPECIFICATION Spec
CONSTANTS
  MaxCacheSize = 2
  SoonThreshold = 1
  CheckInterval = 1
  MaxBackoff = 10
  MaxWrites = 4
  Payloads <- AllPayloads
  Ttls <- NoTtls
  Versionless = TRUE
  VaultLosesData = TRUE
INVARIANT
  CurrentCached
PROPERTY
  NeverLosesCredential
