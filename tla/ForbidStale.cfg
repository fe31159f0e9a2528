SPECIFICATION Spec
CONSTANTS
    Hosts = {h1, h2}
    ImageBans = 1
    ImageUnit = 1
    RequestUnit = 1
    MaxCount = 1
    DbMayFail = FALSE
    Free = Free
INVARIANTS
    BlacklistEnforced
SYMMETRY HostSymmetry
