SPECIFICATION Spec
CONSTANTS
    Key = {k1, k2, k3, k4}
    LongKey = {}
    Prefix = k1
    Rules = {r1, r2}
    Nil = Nil
    MaxEntries = 3
INVARIANTS
    TypeOK
    UniqueKeys
PROPERTY
    ImplementsMap
