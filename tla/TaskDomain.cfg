SPECIFICATION Spec
CONSTANTS
  t1 = t1
  t2 = t2
  t3 = t3
  p2 = p2
  p1 = p1
  e1 = e1
  b1 = b1
  b2 = b2
  None = None
  Tasks = {t1, t2}
  Projects = {p1}
  Executions = {e1}
  Bodies = {b1, b2}
  Times = {0}
  MaxRevision = 5
SYMMETRY Symmetry
INVARIANTS TypeOK SnapshotValid RunsOnCompletedDependencies
PROPERTIES CancellationReachesReadyDependents
CHECK_DEADLOCK FALSE
