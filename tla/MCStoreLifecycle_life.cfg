SPECIFICATION Spec
CONSTANTS
    Procs = {p1, p2}
    Nobody = Nobody
    A = A
    B = B
    K = K
    c1 = c1
    c2 = c2
    Configs = {c1, c2}
    Stores = {A, B}
    Bundles = {K}
    Items <- MCItems
    Asked <- Lives
    MaxCalls = 5
    MaxCrashes = 1
SYMMETRY Symmetric
CHECK_DEADLOCK FALSE
INVARIANTS
    AnswersStand
    PartialCopiesAreShunned
    BackupsAreTrue
    LiveWorkIsKept
    SuccessSweepsUp
