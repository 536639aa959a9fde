\* A sandbox without a time limit that occupies the only pool thread.
SPECIFICATION Spec
CONSTANTS
  s1 = s1
  s2 = s2
  Sandboxes = {s1, s2}
  PoolSize = 1
  TimeLimit <- OneLimited
  MemLimited = {}
  MaxElapsed = 2
PROPERTY EndedSettles
CHECK_DEADLOCK FALSE
