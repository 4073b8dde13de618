SPECIFICATION LiveSpec
CONSTANTS
    e1 = e1
    e2 = e2
    s1 = s1
    s2 = s2
    Shards = {e1, e2}
    Storages = {s1, s2}
    StorageNodes <- TwoShards
    MaxAppends = 2
    MaxCuts = 2
INVARIANTS
    AckedIsOnAllReplicas
    RealTimeOrder
PROPERTIES
    ImplementsAppendLog
    UsesOrderedMetaLog
    AppendsAreAnswered
CHECK_DEADLOCK FALSE
