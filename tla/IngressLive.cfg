SPECIFICATION IngressFairSpec
CONSTANTS
  a1 = a1
  a2 = a2
  w1 = w1
  Writers = {a1, a2}
  Workers = {w1}
  MaxLogs = 2
  Kinds = {"tls", "key", "raw"}
  Flushes = {TRUE, FALSE}
  Policies = {TRUE, FALSE}
  IngressCap = 1
  PackCount = 2
  Interval = TRUE
  Scratch = 1
  KeyLimit = TRUE
  Breaker = TRUE
  Calls = {"close", "export", "import", "flush", "switch"}
  MaxBuffer = 3
  Reserved = 1
  SizeMax = 100
PROPERTIES
  CallsReturn
  BatchesAnswered
CHECK_DEADLOCK FALSE
