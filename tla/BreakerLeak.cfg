SPECIFICATION PartsFairSpec
CONSTANTS
  p1 = p1
  p2 = p2
  c1 = c1
  c2 = c2
  s1 = s1
  s2 = s2
  u1 = u1
  u2 = u2
  u3 = u3
  None = None
  Nil = Nil
  Null = Null
  Checked = {"breaker"}
  Pushers = {p1, p2}
  Poppers = {c1, c2}
  Items = {x1, x2, x3}
  Cap = 1
  PushWaits = {"forever"}
  PopWaits = {"timed", "forever"}
  AllocMayFail = FALSE
  Senders = {u1, u2}
  Threshold = 1
  OpenMs = 1
  HalfOpenMax = 1
  MaxAttempts = 2
  KeyGate = TRUE
  Threads = {s1, s2}
  Parts = {"cfg"}
  MaxUpdates = 1
  MaxFields = 2
  MaxGens = 2
  Tries = 2
  SharedEnv = FALSE
  MayFail = TRUE
  Callers = {s1, s2}
  Lives = {0, 4}
  Advance = 2
  MinInterval = 3
  MaxTime = 8
  Users = {u1, u2, u3}
  Objects = {o1, o2, o3}
  MaxCached = 2
  OneGetter = TRUE
  FastSenders = {s1, s2}
  FastTasks = {1, 2, 3}
  FastAttempts = 2
  LogKeys = {"a"}
  DefaultKey = "default"
  MaxLogs = 3
  MaxRecords = 2
  MaxCrashes = 1
PROPERTY SomeoneSends
CHECK_DEADLOCK FALSE
