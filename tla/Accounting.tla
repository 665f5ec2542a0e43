----------------------------- MODULE Accounting -----------------------------
(***************************************************************************)
(* The backtest's book-keeping: Fill, PortfolioState, apply_fill and       *)
(* mark_to_market (src/src/mltrade/backtest/accounting.py), and the sizing *)
(* helpers of backtest/engine.py that feed them.                           *)
(*                                                                         *)
(* Units.  Prices are whole dollars and costs whole basis points; cash,    *)
(* costs and equity are ten-thousandths of a dollar, so that the cost of a *)
(* fill, a Decimal in the code, is exact.  A weight is a numerator over a  *)
(* common denominator "whole".  The price of a symbol that has no bar is   *)
(* NoPrice; a symbol that is not held has zero shares, where the code      *)
(* drops the entry.                                                        *)
(***************************************************************************)
EXTENDS Loops

CONSTANT NumSymbols

ASSUME SymbolsAssumption == NumSymbols \in Nat \ {0}

Symbols == 1 .. NumSymbols
Unit == 10000           \* ten-thousandths of a dollar in a dollar
NoPrice == 0

Abs(n) == IF n < 0 THEN -n ELSE n
Total(f) == SumTo(f, NumSymbols)
-----------------------------------------------------------------------------
\* A fresh all-cash portfolio.
InitialBook(equity) ==
    [cash |-> equity, held |-> [s \in Symbols |-> 0], costs |-> 0]

\* Looking up a held symbol that has no price raises KeyError.
Priced(book, prices) == \A s \in Symbols : book.held[s] # 0 => prices[s] # NoPrice

MarkToMarket(book, prices) ==
    book.cash + Unit * Total([s \in Symbols |-> book.held[s] * prices[s]])

\* Whole shares bought for the weight, kept when positive; a symbol without a
\* price gets none.
TargetQuantity(weight, whole, equity, price) ==
    IF price = NoPrice THEN 0
    ELSE LET shares == (equity * weight) \div (price * Unit * whole) IN
         IF shares > 0 THEN shares ELSE 0

TargetQuantities(weights, whole, equity, open) ==
    [s \in Symbols |-> TargetQuantity(weights[s], whole, equity, open[s])]

\* Mutant: the difference is taken the wrong way round.
FillsBack(held, target) == [s \in Symbols |-> held[s] - target[s]]

\* The signed share counts that move the holdings to the target, sales of what
\* the target does not name included.
Fills(held, target) == [s \in Symbols |-> target[s] - held[s]]

\* A fill is skipped when its symbol has no price.
Shares(fills, open) ==
    [s \in Symbols |-> IF open[s] = NoPrice THEN 0 ELSE fills[s]]

\* Both directions pay the cost: |quantity| * price * bps / 10000 dollars.
CostOfFill(fill, price, bps) == Abs(fill) * price * bps

\* Mutant: a sale pays its notional too.
ApplyFillsUnsigned(book, fills, open, bps) ==
    LET cost == Total([s \in Symbols |->
                          CostOfFill(Shares(fills, open)[s], open[s], bps)])
        paid == Total([s \in Symbols |-> Abs(Shares(fills, open)[s]) * open[s]])
    IN [cash  |-> book.cash - Unit * paid - cost,
        held  |-> [s \in Symbols |-> book.held[s] + Shares(fills, open)[s]],
        costs |-> book.costs + cost]

\* apply_fill for every fill of a session, in one step: the fills are of
\* different symbols, and neither cash nor costs bound them.
ApplyFills(book, fills, open, bps) ==
    LET cost == Total([s \in Symbols |->
                          CostOfFill(Shares(fills, open)[s], open[s], bps)])
        paid == Total([s \in Symbols |-> Shares(fills, open)[s] * open[s]])
    IN [cash  |-> book.cash - Unit * paid - cost,
        held  |-> [s \in Symbols |-> book.held[s] + Shares(fills, open)[s]],
        costs |-> book.costs + cost]

\* Mutant: the positions are sized on the equity at the previous close.
RebalanceOnStaleEquity(book, stale, weights, whole, open, bps) ==
    ApplyFills(book,
               Fills(book.held, TargetQuantities(weights, whole,
                                    MarkToMarket(book, stale), open)),
               open, bps)

\* The positions are sized on the equity at this session's open, and the fills
\* happen at the same prices.  "last" holds the last closes, which are not used.
Rebalance(book, last, weights, whole, open, bps) ==
    ApplyFills(book,
               Fills(book.held, TargetQuantities(weights, whole,
                                    MarkToMarket(book, open), open)),
               open, bps)
=============================================================================
