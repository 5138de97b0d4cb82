SPECIFICATION IngressFairSpec
CONSTANTS
  a1 = a1
  a2 = a2
  w1 = w1
  Writers = {a1}
  Workers = {w1}
  MaxLogs = 1
  Kinds = {"key"}
  Flushes = {FALSE}
  Policies = {TRUE, FALSE}
  IngressCap = 1
  PackCount = 2
  Interval = TRUE
  Scratch = 1
  KeyLimit = FALSE
  Breaker = FALSE
  Calls = {}
  MaxBuffer = 3
  Reserved = 1
  SizeMax = 100
PROPERTY IntervalKept
CHECK_DEADLOCK FALSE
