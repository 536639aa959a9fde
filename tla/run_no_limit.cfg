\* A sandbox with time -1.
SPECIFICATION Spec
CONSTANTS
  s1 = s1
  s2 = s2
  Sandboxes = {s1}
  PoolSize = 1
  TimeLimit <- Unlimited
  MemLimited = {}
  MaxElapsed = 0
INVARIANT NoLimitNoTimeout
CHECK_DEADLOCK FALSE
