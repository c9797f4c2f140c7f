\* One run and two instructions, under fair ticks.
SPECIFICATION FairBridgeSpec
CONSTANTS
    Tasks = {t1}
    Travel = {}
    MaxCommands = 2
    MaxActive = 1
PROPERTIES
    StopIsRequested
