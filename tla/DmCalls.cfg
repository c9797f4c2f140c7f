SPECIFICATION FairDmCallsSpec
CONSTANTS
    People = {alice, bob}
    OneToOne = TRUE
    MaxCalls = 1
    MaxConns = 1
    MaxFrames = 1
    MaxUpsets = 1
CHECK_DEADLOCK FALSE
INVARIANTS
    DmCallsTypeOK
    LiveLogIsOpen
PROPERTIES
    LogsClose
