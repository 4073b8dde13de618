SPECIFICATION LiveSpec
CONSTANTS
    Readers = {r1, r2}
    CutEnds <- ThreeCuts
    Mine = {0, 3, 4}
    MaxLive = 1
INVARIANTS
    ReadsFindTheirEntry
    IndexDataSentOnce
PROPERTIES
    StorageMakesProgress
CHECK_DEADLOCK FALSE
