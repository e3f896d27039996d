CONSTANTS
    Callers = {c1, c2}
    Epochs = {e1, e2}
    LogicalTimes = {1, 2}
    AuthorizationSequences = {1, 2}
    UINT64_MAX = 2
    Overlap = FALSE
    None = None
SPECIFICATION Spec
SYMMETRY Symmetry
INVARIANT UsedOnce
INVARIANT ReportedIsDurable
INVARIANT ConsumedBeforeProjected
