\* A start and one continuation, two calls at a time.
SPECIFICATION ProductSpec
CONSTANTS
    Callers = {c1, c2}
    MaxOps = 2
    MaxActs <- TwoThenOne
    MaxProfile = 2
    Committing = {}
    Untidy = {2}
    NoHead = NoHead
    Unclear = Unclear
SYMMETRY Symmetry
INVARIANTS ProductTypeOK SdkRunsOnce ResultIsTrue ContinuesKnownTurn
CHECK_DEADLOCK FALSE
