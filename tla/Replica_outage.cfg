SPECIFICATION RSpec
CONSTANTS
  MaxRetries <- Attempts
  HvacTimeout <- HangTicks
  PollInterval <- Poll
  LivePeriod <- Period
  LiveThreshold <- Live
  ReadyThreshold <- Ready
PROPERTY
  ServesThroughOutage
