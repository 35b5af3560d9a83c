\* One operation whose turn leaves a commit, one call at a time.
SPECIFICATION ProductSpec
CONSTANTS
    Callers = {c1}
    MaxOps = 1
    MaxActs <- OnlyOne
    MaxProfile = 1
    Committing = {1}
    Untidy = {}
    NoHead = NoHead
    Unclear = Unclear
INVARIANT FinalHeadIsInspected
CHECK_DEADLOCK FALSE
