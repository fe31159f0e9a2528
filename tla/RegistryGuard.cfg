SPECIFICATION FairSpec
CONSTANTS
    Users = {u1}
    MaxLogons = 2
    MaxTampers = 2
    MaxPort = 2
    MaxFailures = 1
    NoOne = NoOne
INVARIANTS
    TypeOK
    NothingMissed
    NobodyForgotten
PROPERTIES
    Found
    Corrected
    StopReturns
CHECK_DEADLOCK FALSE
