SPECIFICATION LiveSpec
CONSTANTS
    Primary = p
    Backups = {b1, b2}
    Nodes = {n1}
    Cuts = {c1}
    NumTail = 2
    MaxMetaLogs = 2
    Live = {p, b1}
PROPERTIES
    ReplicatedReachesNodes
    SealCompletes
CHECK_DEADLOCK FALSE
