\* Every step of the child's set-up, for every combination of streams and
\* short lists of mounts.
SPECIFICATION Spec
CONSTANTS
  OpenFds <- MCOpenFds
  Paths <- MCPaths
  NoPath <- MCNoPath
  HostPath <- MCHostPath
  Int32Size <- MCInt32Size
  Parameters <- MCParameters
INVARIANTS
  TypeOK
  StreamsAsRequested
  HostUntouched
  PrivilegedWhileRoot
  Contained
  MemoryHeadRoom
\* The set-up ends ready or failed.
CHECK_DEADLOCK FALSE
