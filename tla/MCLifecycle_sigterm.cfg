\* SIGTERM ends a serving process without on_shutdown.
CONSTANTS
    Files <- MCFiles
    Bundles <- Lively
    NoScript = NoScript
    Unset = Unset
    MaxTasks = 2
    Requests = {r1}
SPECIFICATION Spec
INVARIANT SignalsRunShutdown
CHECK_DEADLOCK FALSE
