SPECIFICATION FairSpec
CONSTANTS
  w1 = w1
  w2 = w2
  o1 = o1
  o2 = o2
  None = None
  Workers = {w1}
  Owners = {o1}
  TransientErrors = FALSE
  Reports = {"fail", "succeed", "confirm_cancelled", "wait"}
  MaxAttempts = 2
  MaxIntents = 3
  MaxTaskRevision = 0
  MaxExecutionRevision = 2
INVARIANTS TypeOK TaskMatchesTurn
PROPERTIES SupersededIsFrozen IntentsFinalize
CHECK_DEADLOCK FALSE
