SPECIFICATION Spec
CONSTANTS
    Procs = {p1, p2, p3}
    Nobody = Nobody
    MaxCalls = 3
    MaxFaults = 1
SYMMETRY ProcSymmetry
CHECK_DEADLOCK FALSE
INVARIANTS
    TreesInUseAreKept
    BodiesAreReclaimable
    AbandonedAreSwept
