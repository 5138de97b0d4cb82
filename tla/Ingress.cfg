SPECIFICATION IngressSpec
CONSTANTS
  a1 = a1
  a2 = a2
  w1 = w1
  Writers = {a1, a2}
  Workers = {w1}
  MaxLogs = 3
  Kinds = {"tls", "raw"}
  Flushes = {TRUE, FALSE}
  Policies = {TRUE, FALSE}
  IngressCap = 2
  PackCount = 2
  Interval = TRUE
  Scratch = 1
  KeyLimit = TRUE
  Breaker = FALSE
  Calls = {"close", "export", "import", "broken", "flush", "switch"}
  MaxBuffer = 5
  Reserved = 1
  SizeMax = 100
SYMMETRY Symmetry
INVARIANTS
  
  
  WorkerAwake
  WithinBudget
PROPERTY BudgetSpec
CHECK_DEADLOCK FALSE
