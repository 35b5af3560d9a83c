SPECIFICATION Spec
CONSTANTS
  w1 = w1
  w2 = w2
  t1 = t1
  t2 = t2
  k1 = k1
  k2 = k2
  s1 = s1
  Nobody = Nobody
  Workers = {w1, w2}
  Tasks = {t1}
  Keys = {k1}
  Slots = {s1}
  MaxRuns = 2
  MaxExpiries = 1
SYMMETRY Symmetry
INVARIANTS TypeOK DispatchedOnce TerminalRunIsAccounted
PROPERTIES OnlyTheOwnerAdvances StaleRunsFirst
CHECK_DEADLOCK FALSE
