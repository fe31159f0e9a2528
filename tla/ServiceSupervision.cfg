SPECIFICATION FairSpec
CONSTANTS
    MainDogs = {1}
    DaemonDogs = {2}
    TokenLife = 1
    MaxFaults = 2
    MaxSetups = 1
    Apart = TRUE
INVARIANTS
    TypeOK
    SetupHolds
    KnowsItsDogs
PROPERTIES
    Heals
    SetupEnds
CHECK_DEADLOCK FALSE
