SPECIFICATION Spec
CONSTANTS
    Hosts = {h1}
    ImageBans = 2
    ImageUnit = 1
    RequestUnit = 1
    MaxCount = 2
    DbMayFail = FALSE
    Free = Free
INVARIANTS
    BanAlwaysInForce
