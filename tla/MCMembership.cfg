SPECIFICATION Spec
CONSTANTS
    Node = {n1, n2, n3}
    Seeds = {n1, n2}
    LongUp = {n3}
    Fanout = 1
    Gossipers = {n2}
    Ageing = {n1}
    Mortal = {n1, n3}
    Leavers = {n2}
    MaxStarts = 2
    Lossy = FALSE
INVARIANTS
    TypeOK
    UniqueMembers
    JoinIsMutual
CHECK_DEADLOCK FALSE
