SPECIFICATION DmCallsSpec
CONSTANTS
    People = {alice, bob}
    OneToOne = TRUE
    MaxCalls = 1
    MaxConns = 2
    MaxFrames = 1
    MaxUpsets = 1
CHECK_DEADLOCK FALSE
PROPERTIES
    ReconnectKeepsTheSeat
