SPECIFICATION Spec
CONSTANTS
    MaxTerm = 3
    MaxLog = 4
INVARIANTS
    TypeOK
    LogIsSuffix
CHECK_DEADLOCK FALSE
