\* One run and three instructions, under fair ticks; both deployments.
SPECIFICATION FairBridgeSpec
CONSTANTS
    Tasks = {t1}
    Travel = {}
    MaxCommands = 3
    MaxActive = 1
INVARIANTS
    BridgeTypeOK
    NeverRepeated
    NothingPassedOver
    StopEndsAuthority
PROPERTIES
    DeliversOnce
    QueuedRunIsTaken
    InstructionIsTaken
