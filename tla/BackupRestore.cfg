\* Two processes, one backup generation restored twice, five commits.
SPECIFICATION Spec
CONSTANTS
    Processes = {p1, p2}
    None = None
    Torn = Torn
    MaxCommits = 5
    MaxGens = 1
    MaxRestores = 2
SYMMETRY Symmetry
INVARIANTS TypeOK StoreSeesWholeDatabase PendingIsRecoverable ReplacedIsRetained
CHECK_DEADLOCK FALSE
