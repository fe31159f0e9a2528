SPECIFICATION FairSpec
CONSTANTS
    Users = {u1}
    MaxLogons = 2
    MaxTampers = 0
    MaxPort = 1
    MaxFailures = 0
    NoOne = NoOne
PROPERTY Guarded
CHECK_DEADLOCK FALSE
