SPECIFICATION CourseSpec
CONSTANTS
    k1 = k1
    k2 = k2
    a = a
    b = b
    NonFinite = NonFinite
    MaxQuantity = 2
    Calls = {k1, k2}
    Clients = {k1, k2}
    Cids <- PaperCids
    Previews <- PaperPreviews
    Symbols = {a, b}
    Universe <- UniverseAB
    Price <- PriceAB
    FillPrice <- PriceAB
    Weight <- WeightA
    Holdings <- HoldingsAB
    Cash = 4
    Equities = {2, 4}
    Limits <- AnyNotional
    Requests <- PaperRequests
    ExpectedSession = 1
    MaxActive = 2
INVARIANTS
    NeverOvershoots
    ReconciliationSeesFills
    OrdersAreBackedByEvidence
PROPERTIES
    KeepsLedger
CHECK_DEADLOCK FALSE
