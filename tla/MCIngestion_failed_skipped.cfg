SPECIFICATION Spec
CONSTANTS
    NumMessages = 2
    MaxInFlight = 1
    FailSteps = {"script"}
    FirstCommit = 0
    NoOffset = NoOffset
    NoTask = NoTask
    MaxCrashes = 0
INVARIANT NoMessageLost
CHECK_DEADLOCK FALSE
