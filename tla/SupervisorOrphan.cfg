SPECIFICATION Spec
CONSTANTS
    Ports = {51949}
    DefaultPort = 51949
    Servers = {s1}
    None = None
    MaxChanges = 0
    MaxProcs = 2
    MaxEnds = 0
    MaxRestarts = 0
    StartMayFail = FALSE
INVARIANTS
    StopsProxy
