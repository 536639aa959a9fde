\* A time-limited and an unlimited sandbox that share one pool thread.
SPECIFICATION Spec
CONSTANTS
  s1 = s1
  s2 = s2
  Sandboxes = {s1, s2}
  PoolSize = 1
  TimeLimit <- OneLimited
  MemLimited = {s1}
  MaxElapsed = 2
INVARIANTS
  TypeOK
  TickFindsGroup
  ChargeBounds
  Supervised
  VerdictJustified
  OneWorkerEach
PROPERTIES
  LimitedSettles
  ImplementsSandboxes
CHECK_DEADLOCK FALSE
