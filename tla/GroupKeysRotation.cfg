\* One peer, one membership change, one message.
SPECIFICATION GroupKeysSpec
CHECK_DEADLOCK FALSE
CONSTANTS
    Peers = {p1}
    MaxEpoch = 1
    MaxSends = 1
    MaxRuns = 2
    MaxUpsets = 0
PROPERTIES
    RotationIsKept
