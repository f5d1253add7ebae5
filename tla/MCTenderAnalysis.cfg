SPECIFICATION Spec
CONSTANTS
  t1 = t1
  s1 = s1
  a1 = a1
  Threads = {t1}
  Streams = {s1}
  Asks = {a1}
  MaxConcurrency = 1
  Burst = 1
  RefillTicks = 2
  MaxAttempts = 2
  BaseBackoff = 1
  MaxBackoff = 1
  MaxRetryAfter = 2
  BackoffBudget = 1
  Errors <- MCErrors
  Replies <- MCReplies
  Documents <- MCDocuments
  Crowded <- MCCrowded
  Answers <- MCAnswers
  Verdicts <- MCVerdicts
  Extracts <- MCExtracts
  ResultSizes = {1, 2, 3}
  ChunkChars = 6
  MaxChunks = 3
  MergeChars = 3
  MaxOutput = 2
  MaxMergeItems = 2
  MaxCalls = 6
  MaxRetries = 1
  MaxGap = 1
  None = 0
INVARIANTS
  LimitsKept
  AnalysisSound
  PlanCovers
PROPERTIES
  CallsAndJobsEnd
