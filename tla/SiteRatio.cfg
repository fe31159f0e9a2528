SPECIFICATION Spec
CONSTANTS
    Pages = {p1}
    Features = {f1, f2, f3}
    Delay = 1
    MaxDelay = 2
    MaxImages = 5
    MaxLate = 1
PROPERTIES
    ListedAtSixty
