\* A bundle without a router has run its on_init.
CONSTANTS
    Files <- MCFiles
    Bundles <- Lively
    NoScript = NoScript
    Unset = Unset
    MaxTasks = 2
    Requests = {r1}
SPECIFICATION Spec
INVARIANT FailsFast
CHECK_DEADLOCK FALSE
