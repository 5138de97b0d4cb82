SPECIFICATION EnvFairSpec
CONSTANTS
  p1 = p1
  s1 = s1
  s2 = s2
  d1 = d1
  None = None
  Producers = {p1}
  Senders = {s1, s2}
  Admins = {d1}
  MaxTasks = 2
  MaxCalls = 4
  Steps = 1
  QueueCap = 2
  MayFail = TRUE
INVARIANTS
  NoFreedProducer
  ResourcesAlive
  FlagExact
PROPERTIES
  TasksServed
  DestroyReturns
CHECK_DEADLOCK FALSE
