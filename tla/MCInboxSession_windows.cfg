SPECIFICATION Spec
CONSTANTS
    s1 = s1
    s2 = s2
    t1 = t1
    t2 = t2
    Sessions <- MCSessions
    Texts <- MCTexts
    MaxKeys = 3
SYMMETRY MCSymmetry
INVARIANTS
    ReviewIsCurrent
    AppendsFollowReading
PROPERTIES
    UnknownIsNotDropped
