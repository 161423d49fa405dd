SPECIFICATION Spec
CONSTANTS
    NumMessages = 2
    MaxInFlight = 1
    FailSteps = {}
    FirstCommit = NoOffset
    NoOffset = NoOffset
    NoTask = NoTask
    MaxCrashes = 1
INVARIANT NoMessageLost
CHECK_DEADLOCK FALSE
