---------------------------- MODULE MCPaperTrading ----------------------------
(* PaperCourse with values for TLC: one or two symbols, small share        *)
(* counts, and every client order id and preview these can lead to.        *)
EXTENDS PaperCourse

CONSTANTS k1, k2, a, b, MaxQuantity

PaperCids == [symbol : Symbols, side : {"buy", "sell"}, quantity : 1 .. MaxQuantity]

PaperPreviews ==
    [intents : UNION {Injection(1 .. n, PaperCids) : n \in 0 .. Len(Universe)},
     risk_blocked : BOOLEAN, reconciliation_blocked : BOOLEAN]

SomeLimits == [maximum_position_weight |-> 50, minimum_cash_weight |-> 10,
               maximum_order_weight |-> 60, maximum_rebalance_weight |-> 100,
               minimum_order_notional |-> 2]
AnyNotional == [SomeLimits EXCEPT !.minimum_order_notional = 1]

Ask(submit, environment, blocked, session) ==
    [submit |-> submit, environment |-> environment,
     snapshot |-> [blocked |-> blocked, last_session |-> session]]
GoodRequest == Ask(TRUE, "paper", FALSE, 1)
PaperRequests == {GoodRequest, Ask(FALSE, "paper", FALSE, 1),
                  Ask(TRUE, "paper", FALSE, 0)}
AnyPlaceRequests == {GoodRequest, Ask(TRUE, "local", FALSE, 1)}
OnlyGoodRequests == {GoodRequest}

\* One symbol, nothing held: half of the equity is the target.
UniverseA == <<a>>
PriceA == [s \in {a} |-> 1]
WeightA == [s \in {a} |-> 50]
HoldingsA == [s \in {a} |-> 0]

\* Two symbols: a to be bought and b to be reduced, or, with the weight of a
\* only, b held outside of the target.
UniverseAB == <<a, b>>
PriceAB == [s \in {a, b} |-> IF s = a THEN 1 ELSE 2]
WeightAB == [s \in {a, b} |-> 40]
HoldingsAB == [s \in {a, b} |-> IF s = a THEN 0 ELSE 2]
=============================================================================
