SPECIFICATION LiveSpec
CONSTANTS
    s1 = s1
    s2 = s2
    t1 = t1
    t2 = t2
    Clients = {c1}
    Storages = {s1, s2}
    CutEnds <- TwoCuts
    Tags = {t1, t2}
    AnyTag = any
    TagOf <- TagsOfTwoCuts
    Holds <- HoldsOfTwoCuts
INVARIANTS
    ReadIsLogSearch
    ReadsSeeSession
PROPERTIES
    WaitingReadsEnd
CHECK_DEADLOCK FALSE
