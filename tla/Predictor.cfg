SPECIFICATION FairSpec
CONSTANTS
    a = a
    b = b
    c = c
    Stills = {a, b, c}
    Bad = {a}
    Pictures <- MCPictures
    Workers = 2
    CacheSize = 2
    BatchSize = 2
    Share = 2
    MaxAsks = 2
INVARIANTS
    TypeOK
    CacheSound
    StuckOnlyLate
PROPERTIES
    VerdictSpec
    Drains
CHECK_DEADLOCK FALSE
