\* Two handlers and a Stop at any time; one retry after a refusal.
SPECIFICATION WorkflowSpec
CONSTANTS
    Callers = {c1, c2}
    Free = free
    MaxReads = 1
    MaxFences = 2
    MaxDispatches = 2
    MaxResumes = 0
SYMMETRY HandlerSymmetry
INVARIANTS
    WorkflowTypeOK
    WritesAreApproved
    RejectionFindsItsRow
    ActionRunsAlone
PROPERTIES
    NothingBookedAfterStop
    ShownIsHonest
    LedgerSpec
