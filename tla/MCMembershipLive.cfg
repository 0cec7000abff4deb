SPECIFICATION FairSpec
CONSTANTS
    Node = {n1, n2}
    Seeds = {n1, n2}
    LongUp = {n2}
    Fanout = 1
    Gossipers = {n1, n2}
    Ageing = {n1, n2}
    Mortal = {n1, n2}
    Leavers = {n2}
    MaxStarts = 2
    Lossy = TRUE
PROPERTIES
    
    HeardThenDead
CHECK_DEADLOCK FALSE
