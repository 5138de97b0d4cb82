SPECIFICATION PipelineSpec
CONSTANTS
  k1 = k1
  k2 = k2
  None = None
  Keys = {k1}
  Tasks = {1, 2}
  KeyOf <- TwoBatches
  Senders = {s1}
  Workers = {w1}
  Flushes = {TRUE, FALSE}
  MaxActive = 0
  IdleTtl = 0
  FailThreshold = 0
  OpenMs = 1
  RateDelay = 0
  MaxAttempts = 1
INVARIANT NoLostBatch
CHECK_DEADLOCK FALSE
