CONSTANTS
    n1 = n1
    n2 = n2
    n3 = n3
    ag = ag
    none = none
    NumShards = 2
    IndexReplicas = 1
    IndexNodes <- MCIndexNodes
    Aggregators <- MCAggregators
    StorageNodes <- MCStorageNodes
    NumStorageShards = 2
    Replicas = 2
    Logs <- MCLogs
    QueryTags = {1}
    Directions = {"next", "prev", "nextB"}
    MaxReads = 1
    QuerySeqnums = {0, 2}
    OwnEntries = {2}
    MaxFailures = 1
    None <- none
SPECIFICATION Spec
INVARIANTS
    ShardIndexIsLog
    ReadSeesSession
    AnsweredOnce
PROPERTIES
    ReadsEnd
CHECK_DEADLOCK FALSE
