SPECIFICATION Spec
CONSTANTS
  w1 = w1
  w2 = w2
  o1 = o1
  o2 = o2
  None = None
  Workers = {w1, w2}
  Owners = {o1}
  TransientErrors = FALSE
  Reports = {}
  MaxAttempts = 2
  MaxIntents = 2
  MaxTaskRevision = 3
  MaxExecutionRevision = 2
SYMMETRY Symmetry
INVARIANTS OneUnfinishedIntent EffectAtMostOnce ObservationIsTrue
CHECK_DEADLOCK FALSE
