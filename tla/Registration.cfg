CONSTANTS
    e1 = e1
    e2 = e2
    n1 = n1
    p1 = p1
    sq = sq
    none = none
    Engines <- MCEngines
    NumShards = 1
    StorageNodes <- MCStorageNodes
    Peers <- MCPeers
    Sequencer <- sq
    None <- none
    MaxView = 1
    MaxAppends = 1
    MaxEvents = 2
    LateMessages = FALSE
SYMMETRY Symmetry
SPECIFICATION Spec
INVARIANTS
    ShardHeldOnce
    ActiveEngineIsKnown
    CutIsStored
CHECK_DEADLOCK FALSE
