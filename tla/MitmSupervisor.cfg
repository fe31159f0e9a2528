SPECIFICATION MCSpec
CONSTANTS
    Ports = {51949, 8080}
    DefaultPort = 51949
    Servers = {s1}
    None = None
    MaxChanges = 1
    MaxProcs = 3
    MaxEnds = 1
    MaxRestarts = 1
    StartMayFail = TRUE
INVARIANTS
    TypeOK
    NeverForgotten
    StopKillsEarlier
PROPERTIES
    SettlesOnOne
    LatestConfigServed
