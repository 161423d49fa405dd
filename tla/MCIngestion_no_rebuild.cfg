SPECIFICATION Spec
CONSTANTS
    NumMessages = 2
    MaxInFlight = 1
    FailSteps = {}
    FirstCommit = 0
    NoOffset = NoOffset
    NoTask = NoTask
    MaxCrashes = 1
INVARIANT RestartRebuildsState
CHECK_DEADLOCK FALSE
