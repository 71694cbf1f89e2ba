SPECIFICATION Spec
CONSTANTS
    Procs = {p1, p2}
    Nobody = Nobody
    User = User
    Unset = Unset
    m = m
    d1 = d1
    d2 = d2
    Maps <- OneMap
    Decisions <- TwoDecisions
    Subject <- AboutOneMap
    MaxCalls = 5
    MaxByHand = 1
    MaxLosses = 2
SYMMETRY ProcSymmetry
CHECK_DEADLOCK FALSE
INVARIANTS
    SuccessIsForever
    CommittedIsRecoverable
    OrphansAreBlocked
PROPERTIES
    ImplementsLog
