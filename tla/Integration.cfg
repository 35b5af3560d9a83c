SPECIFICATION Spec
CONSTANTS
  p1 = p1
  p2 = p2
  e1 = e1
  e2 = e2
  k1 = k1
  k2 = k2
  k3 = k3
  Base = Base
  Alien = Alien
  None = None
  Callers = {p1, p2}
  Executions = {e1}
  Keys = {k1, k2}
  MaxFence = 2
  MaxRevision = 2
  MaxObservations = 1
SYMMETRY Symmetry
INVARIANTS TypeOK EffectHolderIsCurrent CompletedIsIntegrated
CHECK_DEADLOCK FALSE
