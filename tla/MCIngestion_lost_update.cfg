SPECIFICATION Spec
CONSTANTS
    NumMessages = 2
    MaxInFlight = 2
    FailSteps = {}
    FirstCommit = NoOffset
    NoOffset = NoOffset
    NoTask = NoTask
    MaxCrashes = 0
INVARIANT CountsEachMessage
CHECK_DEADLOCK FALSE
