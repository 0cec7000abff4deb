SPECIFICATION SpecOneLeader
CONSTANTS
    n1 = n1
    n2 = n2
    n3 = n3
    Server = {n1, n2, n3}
    Nil = Nil
    MaxTerm = 5
    MaxLog = 2
    Contenders = {n1, n2, n3}
    Crashers = {n2}
    Duplicating = FALSE
    Flaky = {n1, n3}
INVARIANTS
    RpcTypeOK
    ElectionSafety
    FollowedWasElected
PROPERTIES
    DemotedCommitsNothing
    TickReturns
