SPECIFICATION FairSpec
CONSTANTS
    Pages = {p1}
    Features = {f1, f2, f3, f4}
    Delay = 2
    MaxDelay = 4
    MaxImages = 6
    MaxLate = 3
INVARIANTS
    TypeOK
    WillBeFinished
    CountsAgree
    BoundedVisit
PROPERTIES
    VisitSpec
    EveryVisitFinished
