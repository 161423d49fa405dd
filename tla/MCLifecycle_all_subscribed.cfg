\* Ready although a consumer has failed, or not subscribed yet.
CONSTANTS
    Files <- MCFiles
    Bundles <- Lively
    NoScript = NoScript
    Unset = Unset
    MaxTasks = 2
    Requests = {r1}
SPECIFICATION Spec
INVARIANT AllSubscribed
CHECK_DEADLOCK FALSE
