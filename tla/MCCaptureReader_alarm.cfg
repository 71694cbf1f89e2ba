SPECIFICATION ReaderSpec
CONSTANTS
    Procs = {p1}
    NoProc = NoProc
    NoReq = NoReq
    NoKey = NoKey
    k1 = k1
    k2 = k2
    k3 = k3
    b1 = b1
    Keys <- MCKeys
    Bodies <- MCBodies
    Requests <- ChainRequests
    MaxAttempts = 2
    MaxFaults = 0
    Readers = {r1}
INVARIANTS
    NoFalseAlarm
