\* Requests in flight are cut off at the exit.
CONSTANTS
    Files <- MCFiles
    Bundles <- Lively
    NoScript = NoScript
    Unset = Unset
    MaxTasks = 2
    Requests = {r1}
SPECIFICATION Spec
INVARIANT RequestsAnswered
CHECK_DEADLOCK FALSE
