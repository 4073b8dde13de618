SPECIFICATION Spec
CONSTANTS
    Primary = p
    Backups = {b1, b2, b3}
    Nodes = {n1}
    Cuts = {c1, c2}
    NumTail = 2
    MaxMetaLogs = 2
    Live = {p}
SYMMETRY Symmetry
INVARIANTS
    ReplicatedSurvivesSeal
    SealCoversPropagated
    FinalizedAgree
PROPERTIES
    ImplementsOrderedMetaLog
CHECK_DEADLOCK FALSE
