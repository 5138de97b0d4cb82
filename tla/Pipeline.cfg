SPECIFICATION PipelineSpec
CONSTANTS
  k1 = k1
  k2 = k2
  None = None
  Keys = {k1, k2}
  Tasks = {1, 2, 3}
  KeyOf <- ThreeBatches
  Senders = {s1, s2}
  Workers = {w1}
  Flushes = {TRUE}
  MaxActive = 0
  IdleTtl = 1
  FailThreshold = 1
  OpenMs = 1
  RateDelay = 1
  MaxAttempts = 2
SYMMETRY Symmetry
VIEW WithoutTries
INVARIANTS
  Placement
  NoStrandedTask
  OneSenderPerKey
  KeyFifo
  SomeoneServes
  NoLostBatch
  ClosedIsDrained
CHECK_DEADLOCK FALSE
