\* Two tasks of the usual kind and a check, that are added, cleared, run and
\* fail in any order.
SPECIFICATION Spec
CONSTANTS
  Tasks = {t1, t2, t3}
  Checks = {t3}
  NoTask = NoTask
INVARIANTS
  TypeOK
  OneProgram
  DirsOutlivePrograms
  NobodyForgotten
  ReportedTruly
PROPERTIES
  InOrder
  TasksSettle
\* When every task has settled or the judge is down, nothing has to happen.
CHECK_DEADLOCK FALSE
