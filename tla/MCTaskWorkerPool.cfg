CONSTANTS
  f1 = f1
  f2 = f2
  f3 = f3
  Snapshot = input
  FailureCode = failed
  Fingerprints = {f1, f2, f3, failed, input}
  ArtifactsOf <- MCArtifactsOf
  Commands = {c1}
  NoFingerprint = none
  MaxAttempts = 2
  AllowManualRetry = TRUE
  Workers = {w1, w2}
  LeaseTTL = 2
  RetryDelay = 1
  Client = c1
  ConversationBound = TRUE
SPECIFICATION PoolSpec
INVARIANTS
  PoolConsistent
  DeliveredIsCommitted
PROPERTIES
  Terminates
