SPECIFICATION PaySpec
CONSTANTS
  r1 = r1
  o1 = o1
  o2 = o2
  Replicas <- OneReplica
  Operators <- TwoOperators
  MaxKeys = 3
  WaitTicks = 3
  MaxDelay = 4
  KeyGenerationFails = TRUE
PROPERTY
  ScriptRuns
