SPECIFICATION Spec
CONSTANTS
    s1 = s1
    s2 = s2
    t1 = t1
    t2 = t2
    Sessions <- MCOneSession
    Texts <- MCTexts
    MaxKeys = 2
PROPERTIES
    SavedIsNotForgotten
