SPECIFICATION Spec
CONSTANTS
    k1 = k1
    k2 = k2
    c1 = c1
    c2 = c2
    Calls = {k1, k2}
    Cids = {c1, c2}
    Quantity <- Quantities
    FillNum = 1
    FillDen = 2
    Outcomes = {"complete_fill", "partial_fill", "rejected", "timeout_before", "timeout_after"}
    Previews <- SomePreviews
INVARIANTS
    TypeOK
    AtMostOnce
    FillsMatchOrders
    OutcomesAreTrue
    ResultIsComplete
    NeverResendsItsOwnOrder
    ExactWithoutOverlap
    OrdersAreReported
PROPERTIES
    KeepsLedger
CHECK_DEADLOCK FALSE
