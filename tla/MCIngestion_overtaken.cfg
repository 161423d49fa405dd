SPECIFICATION Spec
CONSTANTS
    NumMessages = 2
    MaxInFlight = 2
    FailSteps = {}
    FirstCommit = 0
    NoOffset = NoOffset
    NoTask = NoTask
    MaxCrashes = 1
INVARIANT NoMessageLost
CHECK_DEADLOCK FALSE
