SPECIFICATION Spec
CONSTANTS
    Fd = {3, 5, 7}
    HashSize = 2
    Address = {a1, a2, a3}
    Callback = {f, g}
    None = None
INVARIANTS
    TypeOK
    TableIsHeap
    NoDanglingPointer
PROPERTIES
    ImplementsHandlers
CHECK_DEADLOCK FALSE
