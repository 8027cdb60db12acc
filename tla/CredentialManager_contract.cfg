SPECIFICATION FairSpec
CONSTANTS
  MaxCacheSize = 2
  SoonThreshold = 1
  CheckInterval = 1
  MaxBackoff = 10
  MaxWrites = 4
  Payloads <- AllPayloads
  Ttls <- SomeTtls
  Versionless = FALSE
  VaultLosesData = FALSE
INVARIANTS
  TypeOK
  EmptyIsExplained
  FreshWithinMaxBackoff
PROPERTIES
  RecoversWithVault
  RotationKeepsOld
  RotationCounted
  ExpiredStaysExpired
  PollingSpec
