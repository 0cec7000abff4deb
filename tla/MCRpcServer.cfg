SPECIFICATION FairSpec
CONSTANTS
    Slot = {s1, s2}
    HeaderLen = 2
    JoinLen = 2
    SyncLen = 1
    ResponseLen = 1
    Request <- MCRequest
    MaxLen = 2
    MaxClients = 2
INVARIANTS
    TypeOK
    NoStaleDispatch
    HandledOnceWhole
PROPERTIES
    ClosedIsDestroyed
    StopEndsLoop
CHECK_DEADLOCK FALSE
