SPECIFICATION Spec
CONSTANTS
    Client = {c1}
    MaxFiles = 2
    Period = 2
    Prompt = TRUE
    MaxTime = 8
    MaxMessages = 2
    MaxRestarts = 0
    MaxFailures = 0
PROPERTY OldestGoFirst
CHECK_DEADLOCK FALSE
