SPECIFICATION SpecLosing
CONSTANTS
    Server = {n1, n2, n3}
    Nil = Nil
    MaxTerm = 1
    MaxLog = 0
    Contenders = {n1, n3}
    Crashers = {n3}
    Duplicating = FALSE
INVARIANT
    NoSplitBrain
