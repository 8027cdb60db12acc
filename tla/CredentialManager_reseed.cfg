SPECIFICATION FairSpec
CONSTANTS
  MaxCacheSize = 5
  SoonThreshold = 1
  CheckInterval = 1
  MaxBackoff = 10
  MaxWrites = 2
  Payloads <- GoodPayloads
  Ttls <- NoTtls
  Versionless = FALSE
  VaultLosesData = TRUE
PROPERTY
  RecoversWithVault
