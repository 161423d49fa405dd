SPECIFICATION FairSpec
CONSTANTS
    Requests = {r1, r2}
    Jobs = {j1, j2}
    Calls = {r1, r2, j1, j2}
    PoolSize = 2
    Workers = 2
    Outcomes = {"returns", "throws"}
    Wrap = 2
    MaxRequests = 1
    SoftLimit = 1
    HardLimit = 2
    Usages = {1, 2, 3}
INVARIANTS SlotExclusive LinesInOrder PermitsBalance StatusTellsEffect
PROPERTY RequestsEnd
CHECK_DEADLOCK FALSE
