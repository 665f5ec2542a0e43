SPECIFICATION FairSpec
CONSTANTS
    a = a
    b = b
    c1 = c1
    c2 = c2
    NonFinite = NonFinite
    None = None
    Commands = {c1, c2}
    Universe <- MCUniverse
    Price <- MCPrice
    Targets <- MCTargets
    Equity = 300
    SteadyLimits <- MCLimits
INVARIANTS
    PreviewsAreWhole
    ColdStartPasses
    NoCircularWait
PROPERTIES
    EveryCommandEnds
CHECK_DEADLOCK FALSE
