\* Two concurrent calls, one retry after a provider refusal, two reads a window.
SPECIFICATION Spec
CONSTANTS
    Callers = {c1, c2}
    MaxReads = 2
    MaxFences = 2
    MaxDispatches = 2
    MaxResumes = 1
SYMMETRY CallerSymmetry
INVARIANTS
    TypeOK
    AtMostOneLiveWrite
    HoldCoversLiveWrite
    RowKeepsLiveWrite
    CompletedIsVerified
    StoppedIsClean
PROPERTIES
    QuoteIsCurrent
    FinalRefusalIsFinal
    CompletionIsFinal
    PromiseSpec
