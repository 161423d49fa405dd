SPECIFICATION Spec
CONSTANTS
    NumMessages = 4
    MaxInFlight = 1
    FailSteps = {}
    FirstCommit = 0
    NoOffset = NoOffset
    NoTask = NoTask
    MaxCrashes = 2
INVARIANTS NoMessageLost CountsEachMessage
PROPERTY ImplementsLogReader
CHECK_DEADLOCK FALSE
