SPECIFICATION PipelineFairSpec
CONSTANTS
  k1 = k1
  k2 = k2
  None = None
  Keys = {k1, k2}
  Tasks = {1, 2, 3}
  KeyOf <- ThreeBatches
  Senders = {s1}
  Workers = {w1, w2}
  Flushes = {TRUE, FALSE}
  MaxActive = 1
  IdleTtl = 1
  FailThreshold = 1
  OpenMs = 1
  RateDelay = 0
  MaxAttempts = 2
INVARIANT OneCallback
PROPERTIES
  KeyQueuesSpec
  CloseReturns
  SealedBatchAnswered
  BreakerRespected
CHECK_DEADLOCK FALSE
