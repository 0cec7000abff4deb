SPECIFICATION SpecTwoLeaders
CONSTANTS
    n1 = n1
    n2 = n2
    n3 = n3
    Server = {n1, n2, n3}
    Nil = Nil
    MaxTerm = 4
    MaxLog = 2
    Contenders = {}
    Crashers = {n1}
    Duplicating = TRUE
INVARIANTS
    LogMatching
    CommitWithinLog
    
PROPERTIES
    CommitNeverRegresses
