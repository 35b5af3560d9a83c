SPECIFICATION Spec
CONSTANTS
  c1 = c1
  c2 = c2
  s1 = s1
  s2 = s2
  g1 = g1
  g2 = g2
  h1 = h1
  h2 = h2
  None = None
  Callers = {c1, c2}
  Processes = {s1, s2}
  Gates = {g1}
  Heads = {h1, h2}
  MaxOps = 3
  MaxPolicies = 1
  MaxChanges = 1
SYMMETRY Symmetry
INVARIANTS TypeOK VerdictIsTrue CompletedOnPassingHead
CHECK_DEADLOCK FALSE
