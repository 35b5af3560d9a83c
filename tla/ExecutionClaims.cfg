SPECIFICATION Spec
CONSTANTS
  t1 = t1
  c1 = c1
  c2 = c2
  e1 = e1
  e2 = e2
  e3 = e3
  k1 = k1
  k2 = k2
  k3 = k3
  None = None
  Tasks = {t1}
  Clients = {c1, c2}
  Executions = {e1, e2}
  Keys = {k1, k2}
  Backends = {"manual", "codex"}
  Durations = {2}
  MaxTime = 2
  MaxTaskRevision = 3
  MaxProjectRevision = 2
SYMMETRY Symmetry
INVARIANTS TypeOK OneCurrentAttempt KeyNamesOneExecution
PROPERTIES TakeoverIsSafe
CHECK_DEADLOCK FALSE
