\* stop() after the pool thread has reaped the process.
SPECIFICATION Spec
CONSTANTS
  s1 = s1
  s2 = s2
  Sandboxes = {s1}
  PoolSize = 1
  TimeLimit <- Unlimited
  MemLimited = {}
  MaxElapsed = 0
PROPERTY StopTargetsProcess
CHECK_DEADLOCK FALSE
