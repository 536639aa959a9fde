\* Two attempts: every interleaving of the parent, two children and the waiter,
\* with every call failing, children killed from outside, a Node.js crash.
SPECIFICATION Spec
CONSTANT MAX_RETRY_TIMES = 1
INVARIANTS
  TypeOK
  ConfinedProgram
  HandshakeCarriesMessage
  LimitWritesAccepted
  VerdictMatchesChild
  AbandonedChildKilled
  StaleKillNeedsTimeout
  DeadlineExact
PROPERTIES
  WorkRunsOut
  ImplementsLaunch
\* The call ends: there is nothing left to do after a return or a throw.
CHECK_DEADLOCK FALSE
