SPECIFICATION FairSpec
CONSTANTS
    Procs = {p1, p2}
    Nobody = Nobody
    A = A
    B = B
    Roots <- MCRoots
    FirstRoot = A
    Requests <- Chain
    Moves <- BothWays
    MaxVersions = 3
    MaxCalls = 5
    MaxFaults = 1
    MaxTimeouts = 1
CHECK_DEADLOCK FALSE
INVARIANTS
    ConfigNamesAStore
    ReceiptsMoveAlong
    RootsDoNotFork
    ReportsAreTrue
PROPERTIES
    CallsEnd
    LeftRootsAreFrozen
