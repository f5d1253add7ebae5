CONSTANTS
  Fingerprints = {f1, f2}
  Commands = {c1, c2}
  NoFingerprint = none
  MaxAttempts = 3
  AllowManualRetry = TRUE
  Keys = {k1}
  LeaseTTL = 2
  RetryDelay = 1
  RecoveryDelay = 1
  MaxRenewals = 1
  MaxTime = 4
SPECIFICATION Spec
CHECK_DEADLOCK FALSE
SYMMETRY Symmetry
INVARIANTS
  TasksConsistent
  ResultIsTheWinners
  SchedulerCommandIsFresh
PROPERTIES
  AttemptsHonoured
  PromiseKept
