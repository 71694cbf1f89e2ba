SPECIFICATION Spec
CONSTANTS
    Procs = {p1, p2}
    Nothing = Nothing
    Half = Half
    Preparations <- MCPreparations
    Texts <- MCTexts
    Decisions <- MCDecisions
    MaxName = 2
    MaxCalls = 4
    MaxCuts = 2
    MaxEdits = 1
SYMMETRY Symmetric
VIEW View
CHECK_DEADLOCK FALSE
INVARIANTS
    SuccessStands
    NamesAreExclusive
    OnlyDamageBlocks
PROPERTIES
    NothingStandingIsDenied
