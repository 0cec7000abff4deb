SPECIFICATION Spec
CONSTANTS
    n1 = n1
    n2 = n2
    n3 = n3
    Server = {n1, n2, n3}
    Nil = Nil
    MaxTerm = 2
    MaxLog = 2
    Contenders = {n1, n2}
    Crashers = {n1, n2, n3}
    Duplicating = FALSE
SYMMETRY Symmetry
INVARIANTS
    TypeOK
    ElectionSafety
    ElectedByMajority
    MajorityIsLeader
PROPERTIES
    DurableGrows
