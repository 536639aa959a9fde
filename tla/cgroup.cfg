\* The callback and up to four tasks that fork and die, under three ways to
\* mount the controllers.
SPECIFICATION Spec
CONSTANTS
  Tasks = {root, t1, t2, t3}
  Root = root
  MountTables <- MCMountTables
  StatFiles <- MCStatFiles
  Usages = {9}
INVARIANTS
  TypeOK
  RemovalAsAssumed
  MemoryMeasured
  NobodyAtLarge
PROPERTY NothingSurvives
\* A callback that has ended does nothing more.
CHECK_DEADLOCK FALSE
