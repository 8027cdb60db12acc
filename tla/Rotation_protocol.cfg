SPECIFICATION FairSpec
CONSTANTS
  r1 = r1
  o1 = o1
  o2 = o2
  Replicas <- OneReplica
  Operators <- TwoOperators
  MaxKeys = 3
  WaitTicks = 3
  MaxDelay = 3
  KeyGenerationFails = FALSE
INVARIANTS
  PayTypeOK
  ZeroDowntime
  LatestAccepted
  OldKeyRevoked
  PaymentsTaken
  FallbackIsIdle
PROPERTIES
  ReplicaPolls
  NotRejectedForEver
