SPECIFICATION CourseSpec
CONSTANTS
    k1 = k1
    k2 = k2
    a = a
    b = b
    NonFinite = NonFinite
    MaxQuantity = 2
    Calls = {k1, k2}
    Clients = {k1, k2}
    Cids <- PaperCids
    Previews <- PaperPreviews
    Symbols = {a}
    Universe <- UniverseA
    Price <- PriceA
    FillPrice <- PriceA
    Weight <- WeightA
    Holdings <- HoldingsA
    Cash = 4
    Equities = {4}
    Limits <- AnyNotional
    Requests <- OnlyGoodRequests
    ExpectedSession = 1
    MaxActive = 1
INVARIANT RerunsReuseTheirOrders
CHECK_DEADLOCK FALSE
