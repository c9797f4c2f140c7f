\* A plain and a travel task with an instruction each; both deployments.
SPECIFICATION BridgeSpec
CONSTANTS
    Tasks = {t1, t2}
    Travel = {t2}
    MaxCommands = 1
    MaxActive = 2
INVARIANTS
    OneRunPerWorkspace
    NoOrphanedWork
    TaskTellsTheRun
