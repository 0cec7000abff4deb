SPECIFICATION Spec
CONSTANTS
    Candidate = {n1, n2}
    Nil = Nil
    MaxTerm = 2
    MaxLog = 3
    PowerFails = TRUE
    DiskErrors = TRUE
INVARIANTS
    TypeOK
    PersistedIsMemory
    RestoredIsOneVersion
