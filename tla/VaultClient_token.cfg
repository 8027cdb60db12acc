SPECIFICATION FairSpec
CONSTANT
  MaxRetries <- Attempts
PROPERTY
  ReadsRecover
