SPECIFICATION Spec
CONSTANTS
    Procs = {p1, p2}
    NoProc = NoProc
    NoReq = NoReq
    NoKey = NoKey
    k1 = k1
    k2 = k2
    k3 = k3
    b1 = b1
    b2 = b2
    Keys <- MCKeys
    Bodies <- MCBodies
    Requests <- AppendRequests
    MaxAttempts = 4
    MaxFaults = 1
SYMMETRY ProcSymmetry
INVARIANTS
    TypeOK
    ReadableChains
    KeyOnce
    ReceiptsHonoured
    ConflictsAreForeign
    CommitsAreOwnedUp
    RefusalAfterScan
PROPERTIES
    ProjectionNeverRegresses
    LogSpec
