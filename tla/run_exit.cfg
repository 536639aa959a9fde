\* process.exit() with a sandbox running.
SPECIFICATION Spec
CONSTANTS
  s1 = s1
  s2 = s2
  Sandboxes = {s1}
  PoolSize = 1
  TimeLimit <- Unlimited
  MemLimited = {}
  MaxElapsed = 0
INVARIANT ExitKills
CHECK_DEADLOCK FALSE
