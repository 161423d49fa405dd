\* Every accepted bundle to its end, and every refused one.
CONSTANTS
    Files <- MCFiles
    Bundles <- MCBundles
    NoScript = NoScript
    Unset = Unset
    MaxTasks = 2
    Requests = {r1}
SPECIFICATION FairSpec
INVARIANTS StoppedTasksRest ReadyTellsTruth FlagIsCleared PlainNamesResolve
PROPERTIES ShutdownCompletes SubscribedShows
\* The process ends.
CHECK_DEADLOCK FALSE
