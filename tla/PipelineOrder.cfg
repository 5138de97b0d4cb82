SPECIFICATION PipelineSpec
CONSTANTS
  k1 = k1
  k2 = k2
  None = None
  Keys = {k1}
  Tasks = {1, 2}
  KeyOf <- TwoBatches
  Senders = {s1, s2}
  Workers = {w1}
  Flushes = {TRUE}
  MaxActive = 0
  IdleTtl = 1
  FailThreshold = 0
  OpenMs = 1
  RateDelay = 0
  MaxAttempts = 1
INVARIANT KeyOrder
CHECK_DEADLOCK FALSE
