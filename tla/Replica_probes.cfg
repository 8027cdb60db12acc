SPECIFICATION RFairSpec
CONSTANTS
  MaxRetries <- Attempts
  HvacTimeout <- HangTicks
  PollInterval <- Poll
  LivePeriod <- Period
  LiveThreshold <- Live
  ReadyThreshold <- Ready
INVARIANTS
  RTypeOK
  LoadsAreRecorded
  ServesWithCredential
  KilledOnlyIfHung
PROPERTIES
  ReadsEnd
  ReturnsToService
