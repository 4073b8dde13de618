SPECIFICATION Spec
CONSTANTS
    Logs <- MCLogs
    Queries <- MCQueries
    Span = 5
    MyShard = 0
    JoinPositions = {0, 1}
    MaxSuffix = 2
    MaxCache = 2
    PerTagLimit = 1
    SeqCacheCap = 1
    Tags = {1, 2}
    MaxReads = 1
    MaxClears = 1
    None = None
INVARIANTS
    ChainReadIsLogSearch
    
    IndexReachesSession
CHECK_DEADLOCK FALSE
