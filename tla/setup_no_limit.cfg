\* What -1 becomes on its way to the kernel.
SPECIFICATION Spec
CONSTANTS
  OpenFds <- MCOpenFds
  Paths <- MCPaths
  NoPath <- MCNoPath
  HostPath <- MCHostPath
  Int32Size <- MCInt32Size
  Parameters <- MCNoLimit
INVARIANT MinusOneIsNoLimit
CHECK_DEADLOCK FALSE
