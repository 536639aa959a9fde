\* With whose rights the output files are opened inside the sandbox.
SPECIFICATION Spec
CONSTANTS
  OpenFds <- MCOpenFds
  Paths <- MCPaths
  NoPath <- MCNoPath
  HostPath <- MCHostPath
  Int32Size <- MCInt32Size
  Parameters <- MCParameters
INVARIANT OutputsChecked
CHECK_DEADLOCK FALSE
