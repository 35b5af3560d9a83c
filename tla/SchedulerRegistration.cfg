\* Two revisions of a schedule, two operations, two calls at a time.
SPECIFICATION Spec
CONSTANTS
    Keys = {k1, k2}
    Callers = {c1, c2}
    MaxConfig = 2
    MaxObservations = 3
    None = None
SYMMETRY Symmetry
INVARIANTS TypeOK RegistrationIsTrue
PROPERTY ImplementsOperation
CHECK_DEADLOCK FALSE
