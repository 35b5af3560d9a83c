SPECIFICATION WorkspaceSpec
CONSTANTS
  p1 = p1
  p2 = p2
  k1 = k1
  k2 = k2
  k3 = k3
  k4 = k4
  Nobody = Nobody
  Callers = {p1, p2}
  Keys = {k1, k2, k3}
  MaxInspects = 1
SYMMETRY Symmetry
INVARIANTS WorkspaceTypeOK StatusMatchesDisk
PROPERTIES CleanupIsQuiet
CHECK_DEADLOCK FALSE
