\* A failing on_shutdown leaves the tasks running.
CONSTANTS
    Files <- MCFiles
    Bundles <- Lively
    NoScript = NoScript
    Unset = Unset
    MaxTasks = 2
    Requests = {r1}
SPECIFICATION Spec
INVARIANT StopsEveryTask
CHECK_DEADLOCK FALSE
