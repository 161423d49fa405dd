SPECIFICATION Spec
CONSTANTS
    Partitions = {p1}
    Ids = {i1, i2, i3}
    v1 = v1
    v2 = v2
    v3 = v3
    Values = {v1, v2, v3}
    OrderBy = TRUE
    OrderOf <- MCOrderOf
    NoField = NoField
    Size <- MCSize
    MaxPerPartition = 2
    Unbounded = Unbounded
    Ttl = 1
    Never = Never
    NoPartition = NoPartition
    NoCall = NoCall
    Limits = {0}
    MaxTime = 2
    MaxPushes = 4
    LastPush = 2
    Workers = {w1, w2}
    WorkerOps = {"push", "remove", "trim"}
    TrimAges = {0}
    Sweepers = {s1}
    Readers = {}
INVARIANTS WellFormed MemoryCovers EmptyPartitionIsDropped
PROPERTIES PushKeepsNewest TrimExact
SYMMETRY Symmetry
CHECK_DEADLOCK FALSE
