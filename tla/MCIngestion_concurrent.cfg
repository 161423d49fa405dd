SPECIFICATION FairSpec
CONSTANTS
    NumMessages = 3
    MaxInFlight = 2
    FailSteps = {"rate", "script", "budget", "apply", "recheck", "commit"}
    FirstCommit = NoOffset
    NoOffset = NoOffset
    NoTask = NoTask
    MaxCrashes = 1
INVARIANTS PermitsBalance CommitFollowsApply
PROPERTIES AppliedOncePerRun EveryMessageProcessed StopEndsLoop
CHECK_DEADLOCK FALSE
