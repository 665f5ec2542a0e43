SPECIFICATION FairCourseSpec
CONSTANTS
    k1 = k1
    k2 = k2
    a = a
    b = b
    NonFinite = NonFinite
    MaxQuantity = 2
    Calls = {k1, k2}
    Clients = {k1, k2}
    Cids <- PaperCids
    Previews <- PaperPreviews
    Symbols = {a, b}
    Universe <- UniverseAB
    Price <- PriceAB
    FillPrice <- PriceAB
    Weight <- WeightAB
    Holdings <- HoldingsAB
    Cash = 4
    Equities = {6}
    Limits <- SomeLimits
    Requests <- AnyPlaceRequests
    ExpectedSession = 1
    MaxActive = 1
INVARIANT FilledRunIsOnTarget
PROPERTY EveryRunEnds
CHECK_DEADLOCK FALSE
