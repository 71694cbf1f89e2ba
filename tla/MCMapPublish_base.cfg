SPECIFICATION Spec
CONSTANTS
    Procs = {p1, p2}
    Nobody = Nobody
    User = User
    Unset = Unset
    m = m
    d1 = d1
    d2 = d2
    Maps <- OneMap
    Decisions <- TwoDecisions
    Subject <- AboutOneMap
    MaxCalls = 4
    MaxByHand = 0
    MaxLosses = 0
SYMMETRY ProcSymmetry
CHECK_DEADLOCK FALSE
INVARIANTS
    BaseIsCurrent
