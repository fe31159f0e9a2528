SPECIFICATION FairSpec
CONSTANTS
    Hosts = {h1, h2}
    ImageBans = 1
    ImageUnit = 1
    RequestUnit = 1
    MaxCount = 2
    DbMayFail = TRUE
    Free = Free
INVARIANTS
    TypeOK
    CacheSound
    BanInForce
    BanHasEnd
PROPERTIES
    NeverUnblocked
    BanSpec
    Recovers
