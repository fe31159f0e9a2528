SPECIFICATION FairSpec
CONSTANTS
    Threads = {t1, t2, t3}
    Boot = Boot
    PoolSize = 3
    Retries = 2
    Tries = 2
    Free = Free
INVARIANTS
    TypeOK
    MarksAreLeases
    OneConnectionLost
    WaitsInVain
PROPERTIES
    LeaseSpec
    CallsReturn
