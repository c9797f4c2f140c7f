\* One peer who may leave, two messages, one disturbance.
SPECIFICATION FairGroupKeysSpec
CHECK_DEADLOCK FALSE
CONSTANTS
    Peers = {p1}
    MaxEpoch = 1
    MaxSends = 2
    MaxRuns = 2
    MaxUpsets = 1
INVARIANTS
    GroupKeysTypeOK
    LeaverGetsNoNewKey
    NoStepUsedTwice
PROPERTIES
    SendEnds
