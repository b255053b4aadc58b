SPECIFICATION FairSpec
CONSTANTS
    Client = {c1, c2}
    MaxFiles = 2
    Period = 1
    Prompt = FALSE
    MaxTime = 4
    MaxMessages = 2
    MaxRestarts = 1
    MaxFailures = 2
INVARIANTS TypeOK ReadHasFile CurrentKept FilesBounded FilesInOrder
PROPERTIES KeepsLog FilesOnlyGrow AlarmSwitches
CHECK_DEADLOCK FALSE
