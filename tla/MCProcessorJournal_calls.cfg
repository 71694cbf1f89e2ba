SPECIFICATION Spec
CONSTANTS
    Procs = {p1, p2}
    Nothing = Nothing
    Half = Half
    Asks <- MCAsks
    UnitsOf <- MCUnitsOf
    Usages <- MCUsages
    Plan = 2
    Ceiling = 3
    MaxUnits = 3
    MaxAttempts = 5
    MaxRetries = 3
    MaxCalls = 4
    MaxKills = 2
SYMMETRY Symmetric
VIEW View
CHECK_DEADLOCK FALSE
INVARIANTS
    NothingIsSentTwice
    OnlyTornFilesBlock
PROPERTIES
    EveryCallIsCovered
