--------------------------- MODULE BacktestProofs ---------------------------
(***************************************************************************)
(* Theorems about Accounting and Backtest, for any universe, bars, prices, *)
(* cost levels and solver.  What one rebalance does to its book: it holds  *)
(* exactly the target, conserves wealth less the cost, and spends no more  *)
(* cash than there is, as long as the weights leave a reserve that twice   *)
(* the cost rate fits in.  And of a run: its pieces keep their shapes, no  *)
(* simulation borrows cash, its equity is accounted for at every close, no *)
(* decision rests on what is not yet known, validated bars are tradable,   *)
(* and the windows tile the curve.                                         *)
(***************************************************************************)
EXTENDS Backtest, LoopsProofs

IsBook(b) ==
    /\ b = [cash |-> b.cash, held |-> b.held, costs |-> b.costs]
    /\ b.cash \in Int /\ b.held \in [Symbols -> Nat] /\ b.costs \in Nat

\* The weights leave enough of the whole to pay the cost of selling all that is
\* held and buying all that is wanted.
Affordable(weights, whole, bps) ==
    /\ Total(weights) <= whole
    /\ 2 * bps * whole <= Unit * (whole - Total(weights))

\* The shares bought for a weight cost no more than the weight is worth.
LEMMA TargetQuantityFits ==
    ASSUME NEW w \in Nat, NEW whole \in Nat \ {0}, NEW equity \in Nat,
           NEW price \in Nat
    PROVE  /\ TargetQuantity(w, whole, equity, price) \in Nat
           /\ TargetQuantity(w, whole, equity, price) * price * Unit * whole
                 <= equity * w
           /\ price = NoPrice => TargetQuantity(w, whole, equity, price) = 0
<1>1. equity * w \in Nat
  OBVIOUS
<1>2. CASE price = NoPrice
  BY <1>1, <1>2 DEF TargetQuantity, NoPrice, Unit
<1>3. CASE price # NoPrice
  <2> DEFINE d == price * Unit * whole
             q == (equity * w) \div d
  <2>1. d \in Nat \ {0}
    BY <1>3 DEF NoPrice, Unit
  <2>2. \A n \in Nat, m \in Nat \ {0} : n \div m \in Nat /\ (n \div m) * m <= n
    OBVIOUS
  <2>3. q \in Nat /\ q * d <= equity * w
    BY <1>1, <2>1, <2>2
  <2>4. q * price * Unit * whole = q * d
    BY <2>3 DEF Unit
  <2>5. TargetQuantity(w, whole, equity, price) = q
    BY <1>3, <2>3 DEF TargetQuantity
  <2> HIDE DEF q, d
  <2> QED  BY <1>3, <2>3, <2>4, <2>5
<1> QED  BY <1>2, <1>3

\* Holdings are worth a natural number of dollars.
LEMMA ValueIsNat ==
    ASSUME NEW held \in [Symbols -> Nat], NEW quotes \in [Symbols -> Nat]
    PROVE  Total([s \in Symbols |-> held[s] * quotes[s]]) \in Nat
<1> DEFINE f == [s \in Symbols |-> held[s] * quotes[s]]
<1>1. f \in [1 .. NumSymbols -> Nat]
  BY DEF Symbols
<1> HIDE DEF f
<1> QED  BY <1>1, SumIsNat, SymbolsAssumption DEF Total, f
-----------------------------------------------------------------------------
\* The arithmetic of the reserve: E is the equity, T and H the dollars of the
\* target and of the holdings, W the weights' total, C the cost.
LEMMA ReserveArithmetic ==
    ASSUME NEW E \in Nat, NEW T \in Nat, NEW H \in Nat, NEW C \in Nat,
           NEW W \in Nat, NEW whole \in Nat \ {0}, NEW bps \in Nat, NEW U \in Nat \ {0},
           U * whole * T <= E * W, U * H <= E, C <= bps * T + bps * H,
           W <= whole, 2 * bps * whole <= U * (whole - W)
    PROVE  U * T + C <= E
<1>1. U * T <= E
  <2>1. E * W <= E * whole
    BY TimesMonotone
  <2>2. whole * (U * T) <= whole * E
    <3>1. U * whole * T = whole * (U * T) /\ E * whole = whole * E
      OBVIOUS
    <3>2. E * W \in Int /\ E * whole \in Int /\ U * whole * T \in Int
      OBVIOUS
    <3> QED  BY <2>1, <3>1, <3>2
  <2>3. U * T \in Int
    OBVIOUS
  <2> QED  BY <2>2, <2>3, TimesCancel
<1>2. U * C <= 2 * bps * E
  <2>1. U * C <= U * (bps * T + bps * H)
    BY TimesMonotone
  <2>2. U * (bps * T + bps * H) = bps * (U * T + U * H)
    OBVIOUS
  <2>3. U * T + U * H <= 2 * E
    <3>1. U * T \in Int /\ U * H \in Int
      OBVIOUS
    <3> QED  BY <1>1, <3>1
  <2>4. bps * (U * T + U * H) <= bps * (2 * E)
    BY <2>3, TimesMonotone
  <2>5. bps * (2 * E) = 2 * bps * E
    OBVIOUS
  <2>6. /\ U * C \in Int /\ U * (bps * T + bps * H) \in Int
        /\ bps * (U * T + U * H) \in Int /\ 2 * bps * E \in Int
    OBVIOUS
  <2> QED  BY <2>1, <2>2, <2>4, <2>5, <2>6
<1>3. whole * (U * C) <= E * (U * (whole - W))
  <2>1. whole * (U * C) <= whole * (2 * bps * E)
    BY <1>2, TimesMonotone
  <2>2. whole * (2 * bps * E) = E * (2 * bps * whole)
    OBVIOUS
  <2>3. E * (2 * bps * whole) <= E * (U * (whole - W))
    BY TimesMonotone
  <2>4. /\ whole * (U * C) \in Int /\ whole * (2 * bps * E) \in Int
        /\ E * (2 * bps * whole) \in Int /\ E * (U * (whole - W)) \in Int
    OBVIOUS
  <2> QED  BY <2>1, <2>2, <2>3, <2>4
<1>4. U * (U * whole * T) <= U * (E * W)
  BY TimesMonotone
<1>5. (U * whole) * (U * T + C) <= (U * whole) * E
  <2>1. (U * whole) * (U * T + C) = U * (U * whole * T) + whole * (U * C)
    OBVIOUS
  <2>2. U * (E * W) + E * (U * (whole - W)) = (U * whole) * E
    OBVIOUS
  <2>3. /\ U * (U * whole * T) \in Int /\ whole * (U * C) \in Int
        /\ U * (E * W) \in Int /\ E * (U * (whole - W)) \in Int
    OBVIOUS
  <2> QED  BY <1>3, <1>4, <2>1, <2>2, <2>3
<1>6. U * whole \in Nat \ {0} /\ U * T + C \in Int
  OBVIOUS
<1> QED  BY <1>5, <1>6, TimesCancel
-----------------------------------------------------------------------------
\* The totals of Loops, over the symbols.
LEMMA TotalAdd ==
    ASSUME NEW f \in [Symbols -> Int], NEW g \in [Symbols -> Int],
           NEW h \in [Symbols -> Int], \A s \in Symbols : h[s] = f[s] + g[s]
    PROVE  Total(h) = Total(f) + Total(g)
BY SymbolsAssumption, SumAdd DEF Total, Symbols

LEMMA TotalScale ==
    ASSUME NEW f \in [Symbols -> Int], NEW h \in [Symbols -> Int], NEW a \in Int,
           \A s \in Symbols : h[s] = a * f[s]
    PROVE  Total(h) = a * Total(f)
BY SymbolsAssumption, SumScale DEF Total, Symbols

LEMMA TotalMonotone ==
    ASSUME NEW f \in [Symbols -> Int], NEW g \in [Symbols -> Int],
           \A s \in Symbols : f[s] <= g[s]
    PROVE  Total(f) <= Total(g)
BY SymbolsAssumption, SumMonotone DEF Total, Symbols

LEMMA TotalType ==
    /\ \A f \in [Symbols -> Int] : Total(f) \in Int
    /\ \A f \in [Symbols -> Nat] : Total(f) \in Nat
BY SymbolsAssumption, SumIsInt, SumIsNat DEF Total, Symbols

\* Dollars that holdings are worth.
Worth(held, quotes) == Total([s \in Symbols |-> held[s] * quotes[s]])

\* One rebalance: it holds the target, which is worth no more than the weights
\* allow, pays or is paid the difference, and is charged at most the cost rate
\* on what was held and on what is.
LEMMA RebalanceDef ==
    ASSUME NEW before, IsBook(before), before.cash >= 0,
           NEW weights \in [Symbols -> Nat], NEW whole \in Nat \ {0},
           NEW open \in [Symbols -> Nat], NEW marks, NEW bps \in Nat,
           Priced(before, open),
           NEW next, next = Rebalance(before, marks, weights, whole, open, bps),
           NEW E, E = MarkToMarket(before, open),
           NEW T, T = Worth(next.held, open),
           NEW H, H = Worth(before.held, open),
           NEW C, C = next.costs - before.costs
    PROVE  /\ IsBook(next)
           /\ E \in Nat /\ T \in Nat /\ H \in Nat /\ C \in Nat
           /\ E = before.cash + Unit * H
           /\ next.cash = E - Unit * T - C
           /\ Unit * whole * T <= E * Total(weights)
           /\ C <= bps * T + bps * H
<1> DEFINE t == TargetQuantities(weights, whole, E, open)
           h == before.held
           moved == Shares(Fills(h, t), open)
           tp == [s \in Symbols |-> t[s] * open[s]]
           hp == [s \in Symbols |-> h[s] * open[s]]
           dp == [s \in Symbols |-> moved[s] * open[s]]
           cp == [s \in Symbols |-> CostOfFill(moved[s], open[s], bps)]
<1>1. /\ h \in [Symbols -> Nat] /\ before.cash \in Nat /\ before.costs \in Nat
  BY DEF IsBook
<1>2. H \in Nat /\ E = before.cash + Unit * H /\ E \in Nat
  BY <1>1, ValueIsNat DEF Worth, MarkToMarket, Unit
<1>3. \A s \in Symbols :
          /\ t[s] = TargetQuantity(weights[s], whole, E, open[s])
          /\ t[s] \in Nat
          /\ t[s] * open[s] * Unit * whole <= E * weights[s]
          /\ open[s] = NoPrice => t[s] = 0
  <2> TAKE s \in Symbols
  <2>1. t[s] = TargetQuantity(weights[s], whole, E, open[s])
    BY DEF TargetQuantities
  <2>2. weights[s] \in Nat /\ open[s] \in Nat
    OBVIOUS
  <2> DEFINE w == weights[s]
             p == open[s]
  <2>3. w \in Nat /\ p \in Nat /\ whole \in Nat \ {0} /\ E \in Nat
    BY <1>2, <2>2
  <2> HIDE DEF t, w, p
  <2>4. /\ TargetQuantity(w, whole, E, p) \in Nat
        /\ TargetQuantity(w, whole, E, p) * p * Unit * whole <= E * w
        /\ p = NoPrice => TargetQuantity(w, whole, E, p) = 0
    BY <2>3, TargetQuantityFits, Zenon
  <2> QED  BY <2>1, <2>4, Zenon DEF w, p
<1>4. t \in [Symbols -> Nat]
  BY <1>3 DEF TargetQuantities
<1> HIDE DEF t, h
<1>5. \A s \in Symbols : moved[s] = t[s] - h[s]
  <2> TAKE s \in Symbols
  <2>1. CASE open[s] = NoPrice
    <3>1. t[s] = 0 /\ h[s] = 0
      BY <1>1, <1>3, <2>1 DEF Priced, h
    <3> QED  BY <2>1, <3>1 DEF Shares
  <2>2. CASE open[s] # NoPrice
    BY <2>2 DEF Shares, Fills
  <2> QED  BY <2>1, <2>2
<1>6. /\ next.cash = before.cash - Unit * Total(dp) - Total(cp)
      /\ next.held = [s \in Symbols |-> h[s] + moved[s]]
      /\ next.costs = before.costs + Total(cp)
      /\ next = [cash |-> next.cash, held |-> next.held, costs |-> next.costs]
  BY DEF Rebalance, ApplyFills, t, h
<1> HIDE DEF moved
<1>7. next.held = t
  <2>1. \A s \in Symbols : h[s] + moved[s] = t[s]
    BY <1>1, <1>4, <1>5
  <2> QED  BY <1>4, <1>6, <2>1
<1>8. T = Total(tp) /\ H = Total(hp) /\ T \in Nat
  BY <1>4, <1>7, ValueIsNat DEF Worth, h
<1>9. /\ tp \in [Symbols -> Nat] /\ hp \in [Symbols -> Nat]
       /\ dp \in [Symbols -> Int] /\ cp \in [Symbols -> Nat]
  <2>1. \A s \in Symbols : /\ t[s] * open[s] \in Nat /\ h[s] * open[s] \in Nat
                           /\ moved[s] \in Int
    BY <1>1, <1>4, <1>5
  <2>2. \A s \in Symbols : moved[s] * open[s] \in Int
    BY <2>1
  <2>3. \A s \in Symbols : CostOfFill(moved[s], open[s], bps) \in Nat
    <3> TAKE s \in Symbols
    <3>1. Abs(moved[s]) \in Nat
      BY <2>1 DEF Abs
    <3> QED  BY <3>1 DEF CostOfFill
  <2> QED  BY <2>1, <2>2, <2>3
<1>10. Total(dp) = T - H
  <2>1. \A s \in Symbols : tp[s] = hp[s] + dp[s]
    <3> TAKE s \in Symbols
    <3>1. t[s] * open[s] = h[s] * open[s] + (t[s] - h[s]) * open[s]
      BY <1>1, <1>4
    <3> QED  BY <1>5, <3>1
  <2>5. tp \in [Symbols -> Int] /\ hp \in [Symbols -> Int]
    BY <1>9
  <2> HIDE DEF tp, hp, dp
  <2>2. Total(tp) = Total(hp) + Total(dp)
    BY <1>9, <2>1, <2>5, TotalAdd
  <2>3. Total(dp) \in Int
    BY <1>9, TotalType
  <2> QED  BY <1>2, <1>8, <2>2, <2>3
<1>11. C = Total(cp) /\ C \in Nat
  <2> HIDE DEF cp
  <2>1. Total(cp) \in Nat
    BY <1>9, TotalType
  <2> QED  BY <1>1, <1>6, <2>1
<1>12. C <= bps * T + bps * H
  <2> DEFINE bt == [s \in Symbols |-> bps * tp[s]]
             bh == [s \in Symbols |-> bps * hp[s]]
             b == [s \in Symbols |-> bt[s] + bh[s]]
  <2>1. \A s \in Symbols : cp[s] <= b[s]
    <3> TAKE s \in Symbols
    <3> DEFINE x == t[s]
               y == h[s]
               p == open[s]
    <3>1. x \in Nat /\ y \in Nat /\ p \in Nat
      BY <1>1, <1>4
    <3>2. cp[s] = Abs(x - y) * p * bps
      BY <1>5 DEF CostOfFill
    <3>3. b[s] = bps * (x * p) + bps * (y * p)
      OBVIOUS
    <3> HIDE DEF x, y, p, cp, b
    <3>4. Abs(x - y) \in Nat /\ Abs(x - y) <= x + y
      BY <3>1 DEF Abs
    <3>5. p * bps \in Nat
      BY <3>1
    <3>6. (p * bps) * Abs(x - y) <= (p * bps) * (x + y)
      BY <3>1, <3>4, <3>5, TimesMonotone
    <3>7. (p * bps) * (x + y) = bps * (x * p) + bps * (y * p)
      BY <3>1
    <3>8. (p * bps) * Abs(x - y) = Abs(x - y) * p * bps
      BY <3>1, <3>4
    <3> QED  BY <3>2, <3>3, <3>6, <3>7, <3>8
  <2>2. \A s \in Symbols : bps * tp[s] \in Nat /\ bps * hp[s] \in Nat
    BY <1>9
  <2>3. /\ bt \in [Symbols -> Int] /\ bh \in [Symbols -> Int] /\ b \in [Symbols -> Int]
        /\ cp \in [Symbols -> Int] /\ tp \in [Symbols -> Int] /\ hp \in [Symbols -> Int]
        /\ bps \in Int
    BY <1>9, <2>2
  <2>4. /\ \A s \in Symbols : bt[s] = bps * tp[s]
        /\ \A s \in Symbols : bh[s] = bps * hp[s]
        /\ \A s \in Symbols : b[s] = bt[s] + bh[s]
    OBVIOUS
  <2> HIDE DEF tp, hp, cp, bt, bh, b
  <2>5. Total(bt) = bps * Total(tp)
    BY <2>3, <2>4, TotalScale, Zenon
  <2>6. Total(bh) = bps * Total(hp)
    BY <2>3, <2>4, TotalScale, Zenon
  <2>7. Total(b) = Total(bt) + Total(bh)
    BY <2>3, <2>4, TotalAdd
  <2>8. Total(cp) <= Total(b)
    BY <2>1, <2>3, TotalMonotone
  <2> QED  BY <1>8, <1>11, <2>5, <2>6, <2>7, <2>8
<1>13. Unit * whole * T <= E * Total(weights)
  <2> DEFINE f == [s \in Symbols |-> (Unit * whole) * tp[s]]
             g == [s \in Symbols |-> E * weights[s]]
  <2>1. \A s \in Symbols : f[s] <= g[s]
    <3> TAKE s \in Symbols
    <3>1. (Unit * whole) * (t[s] * open[s]) = t[s] * open[s] * Unit * whole
      BY <1>4 DEF Unit
    <3> QED  BY <1>3, <3>1
  <2>2. f \in [Symbols -> Int] /\ g \in [Symbols -> Int]
    <3>1. \A s \in Symbols : (Unit * whole) * tp[s] \in Int /\ E * weights[s] \in Int
      BY <1>2, <1>9 DEF Unit
    <3> QED  BY <3>1
  <2>3. \A s \in Symbols : f[s] = (Unit * whole) * tp[s] /\ g[s] = E * weights[s]
    OBVIOUS
  <2>4. tp \in [Symbols -> Int] /\ weights \in [Symbols -> Int]
        /\ Unit * whole \in Int /\ E \in Int
    BY <1>2, <1>9 DEF Unit
  <2> HIDE DEF f, g, tp
  <2>5. Total(f) = (Unit * whole) * Total(tp) /\ Total(g) = E * Total(weights)
    BY <2>2, <2>3, <2>4, TotalScale
  <2>6. Total(f) <= Total(g)
    BY <2>1, <2>2, TotalMonotone
  <2> QED  BY <1>8, <2>5, <2>6
<1>14. next.cash = E - Unit * T - C
  <2>1. Unit * (T - H) = Unit * T - Unit * H
    BY <1>2, <1>8 DEF Unit
  <2>2. Unit * T \in Int /\ Unit * H \in Int
    BY <1>2, <1>8 DEF Unit
  <2> QED  BY <1>1, <1>2, <1>6, <1>10, <1>11, <2>1, <2>2
<1>15. IsBook(next)
  <2>1. next.costs = before.costs + C /\ next.costs \in Nat
    BY <1>1, <1>6, <1>11
  <2>2. next.cash \in Int
    <3>1. Unit * T \in Int
      BY <1>8 DEF Unit
    <3> QED  BY <1>2, <1>11, <1>14, <3>1
  <2> QED  BY <1>4, <1>6, <1>7, <2>1, <2>2 DEF IsBook
<1> QED  BY <1>2, <1>8, <1>11, <1>12, <1>13, <1>14, <1>15
-----------------------------------------------------------------------------
\* A rebalance never spends more cash than there is, whatever is sold and
\* bought, when the weights are affordable (engine.py: the sizing on the equity
\* at the open; accounting.py: cash is not bounded below).
THEOREM RebalanceStaysFunded ==
    ASSUME NEW before, IsBook(before), before.cash >= 0,
           NEW weights \in [Symbols -> Nat], NEW whole \in Nat \ {0},
           NEW open \in [Symbols -> Nat], NEW marks, NEW bps \in Nat,
           Priced(before, open), Affordable(weights, whole, bps)
    PROVE  Rebalance(before, marks, weights, whole, open, bps).cash >= 0
<1> DEFINE next == Rebalance(before, marks, weights, whole, open, bps)
           E == MarkToMarket(before, open)
           T == Worth(next.held, open)
           H == Worth(before.held, open)
           C == next.costs - before.costs
           W == Total(weights)
<1>1. /\ E \in Nat /\ T \in Nat /\ H \in Nat /\ C \in Nat
      /\ E = before.cash + Unit * H
      /\ next.cash = E - Unit * T - C
      /\ Unit * whole * T <= E * W
      /\ C <= bps * T + bps * H
  <2> HIDE DEF next, E, T, H, C, W
  <2> QED  BY RebalanceDef DEF next, E, T, H, C, W
<1>2. W \in Nat /\ Unit \in Nat \ {0} /\ before.cash \in Int
  BY TotalType DEF Unit, IsBook
<1>3. W <= whole /\ 2 * bps * whole <= Unit * (whole - W)
  BY DEF Affordable
<1> HIDE DEF next, E, T, H, C, W
<1>4. Unit * H <= E
  <2>1. Unit * H \in Int
    BY <1>1, <1>2
  <2> QED  BY <1>1, <1>2, <2>1
<1>5. Unit * T + C <= E
  BY <1>1, <1>2, <1>3, <1>4, ReserveArithmetic
<1>6. Unit * T \in Int
  BY <1>1, <1>2
<1>7. next.cash >= 0
  BY <1>1, <1>5, <1>6
<1> QED  BY <1>7 DEF next

\* A rebalance is worth what it was at the same prices, less its cost.
THEOREM RebalanceConservesWealth ==
    ASSUME NEW before, IsBook(before), before.cash >= 0,
           NEW weights \in [Symbols -> Nat], NEW whole \in Nat \ {0},
           NEW open \in [Symbols -> Nat], NEW marks, NEW bps \in Nat,
           Priced(before, open),
           NEW next, next = Rebalance(before, marks, weights, whole, open, bps)
    PROVE  /\ IsBook(next) /\ next.costs - before.costs \in Nat
           /\ MarkToMarket(next, open)
                 = MarkToMarket(before, open) - (next.costs - before.costs)
<1> DEFINE E == MarkToMarket(before, open)
           T == Worth(next.held, open)
           H == Worth(before.held, open)
           C == next.costs - before.costs
<1>1. /\ IsBook(next)
      /\ E \in Nat /\ T \in Nat /\ C \in Nat
      /\ next.cash = E - Unit * T - C
  <2> HIDE DEF E, T, H, C
  <2> QED  BY RebalanceDef DEF E, T, H, C
<1>2. MarkToMarket(next, open) = next.cash + Unit * T
  BY DEF MarkToMarket, Worth
<1> HIDE DEF E, T, C
<1>3. Unit * T \in Int
  BY <1>1 DEF Unit
<1>4. MarkToMarket(next, open) = E - C
  BY <1>1, <1>2, <1>3
<1> QED  BY <1>1, <1>4 DEF E, C
-----------------------------------------------------------------------------

\* Weights the optimizer may hand over.
Allowed == {w \in [Symbols -> Nat] : Total(w) <= 100 - MinCash}

\* What is true of a sequence whatever its elements are.
IsSequence(s) == s \in Seq(ToSet(s))

LEMMA AppendSequence ==
    ASSUME NEW s, IsSequence(s), NEW e
    PROVE  /\ IsSequence(Append(s, e))
           /\ Len(s) \in Nat
           /\ Len(Append(s, e)) = Len(s) + 1
           /\ \A i \in 1 .. Len(s) : Append(s, e)[i] = s[i]
           /\ Append(s, e)[Len(s) + 1] = e
<1> DEFINE S == ToSet(s) \cup {e}
           t == Append(s, e)
<1>1. s \in Seq(S) /\ e \in S
  BY DEF IsSequence
<1> HIDE DEF S
<1>2. t \in Seq(S) /\ Len(s) \in Nat /\ Len(t) = Len(s) + 1 /\ DOMAIN t = 1 .. Len(t)
  BY <1>1
<1>3. /\ \A i \in 1 .. Len(s) : t[i] = s[i]
      /\ t[Len(s) + 1] = e
  BY <1>1
<1>4. t \in Seq({t[i] : i \in DOMAIN t})
  <2> HIDE DEF t
  <2> DEFINE R == {t[i] : i \in DOMAIN t}
  <2>1. \A i \in 1 .. Len(t) : t[i] \in R
    BY <1>2
  <2>2. t = [i \in 1 .. Len(t) |-> t[i]] /\ Len(t) \in Nat
    BY <1>2
  <2> HIDE DEF R
  <2>3. t \in [1 .. Len(t) -> R]
    BY <2>1, <2>2
  <2>4. t \in Seq(R)
    BY <2>2, <2>3
  <2> QED  BY <2>4 DEF R
<1> QED  BY <1>2, <1>3, <1>4 DEF IsSequence, ToSet
-----------------------------------------------------------------------------
\* Nothing in the portfolio is worth nothing.
LEMMA EmptyTotal == Total(NoWeights) = 0 /\ NoWeights \in [Symbols -> Nat]
<1>1. NoWeights \in [Symbols -> Int] /\ NoWeights \in [Symbols -> Nat]
  BY DEF NoWeights
<1>2. \A s \in Symbols : NoWeights[s] = NoWeights[s] + NoWeights[s]
  BY DEF NoWeights
<1>3. Total(NoWeights) = Total(NoWeights) + Total(NoWeights)
  BY <1>1, <1>2, TotalAdd
<1> QED  BY <1>1, <1>3, TotalType

\* What build_target returns is allowed, whatever the solver answered.
LEMMA BuildTargetAllowed ==
    ASSUME NEW q \in SUBSET Symbols, NEW w \in Solutions
    PROVE  BuildTarget(q, w).weights \in Allowed
<1>1. NoWeights \in Allowed
  BY EmptyTotal, OptimizerAssumption DEF Allowed
<1>2. ASSUME w # Failed, WithinLimits(Quantized(q, w))
      PROVE  Quantized(q, w) \in Allowed
  <2>1. w \in [Symbols -> Int]
    BY <1>2, BacktestAssumption
  <2>2. \A s \in Symbols : w[s] \div Ticks \in Int
    BY <2>1, OptimizerAssumption
  <2>3. Quantized(q, w) \in [Symbols -> Nat]
    BY <2>2 DEF Quantized
  <2> QED  BY <1>2, <2>3 DEF WithinLimits, Allowed
<1> QED  BY <1>1, <1>2 DEF BuildTarget, AllCashFlat, AllCashBlocked

\* The optimizer's reserve pays for its trades at every level of cost.
LEMMA AllowedAffordable ==
    ASSUME NEW w \in Allowed, NEW bps \in Nat, 2 * bps <= 100 * MinCash
    PROVE  w \in [Symbols -> Nat] /\ Affordable(w, 100, bps)
<1>1. w \in [Symbols -> Nat] /\ Total(w) \in Nat /\ Total(w) <= 100 - MinCash
  BY TotalType DEF Allowed
<1> DEFINE W == Total(w)
<1> HIDE DEF W
<1>2. W \in Nat /\ W <= 100 - MinCash /\ MinCash \in Nat
  BY <1>1, OptimizerAssumption DEF W
<1>3. W <= 100 /\ 2 * bps * 100 <= Unit * (100 - W)
  BY <1>2 DEF Unit
<1> QED  BY <1>1, <1>3 DEF Affordable, W

\* So does the baseline's, up to the highest cost a configuration accepts.
LEMMA EqualWeightsAffordable ==
    ASSUME NEW bps \in 0 .. 100
    PROVE  /\ EqualWeights \in [Symbols -> Nat] /\ EqualWhole \in Nat
           /\ Affordable(EqualWeights, EqualWhole, bps)
<1> DEFINE h == [s \in Symbols |-> Has(s)]
           n == Total(h)
<1>1. h \in [Symbols -> Nat] /\ h \in [Symbols -> Int]
  BY DEF Has
<1>2. /\ EqualWeights \in [Symbols -> Nat] /\ EqualWeights \in [Symbols -> Int]
      /\ \A s \in Symbols : EqualWeights[s] = 95 * h[s]
  BY DEF EqualWeights, Has
<1>3. EqualWhole = 100 * n
  BY DEF EqualWhole
<1> HIDE DEF h
<1>4. n \in Nat
  BY <1>1, TotalType
<1>5. Total(EqualWeights) = 95 * n
  BY <1>1, <1>2, TotalScale
<1> HIDE DEF n
<1>6. 200 * (bps * n) <= 50000 * n
  <2>1. n * bps <= n * 100
    BY <1>4, TimesMonotone
  <2>2. n * bps = bps * n /\ bps * n \in Int
    BY <1>4
  <2> QED  BY <1>4, <2>1, <2>2
<1>7. 2 * bps * (100 * n) = 200 * (bps * n)
  BY <1>4
<1> QED  BY <1>2, <1>3, <1>4, <1>5, <1>6, <1>7 DEF Affordable, Unit

\* When the baseline has no symbol to hold, no symbol has a price.
LEMMA NobodyQuoted ==
    ASSUME EqualWhole = 0, NEW d, NEW field
    PROVE  Quotes(d, field) = [s \in Symbols |-> NoPrice]
<1> DEFINE h == [s \in Symbols |-> Has(s)]
<1>1. h \in [1 .. NumSymbols -> Nat] /\ \A s \in Symbols : h[s] = Has(s)
  BY DEF Has, Symbols
<1>2. EqualWhole = 100 * Total(h)
  BY DEF EqualWhole
<1> HIDE DEF h
<1>3. Total(h) = 0
  BY <1>1, <1>2, TotalType DEF Symbols
<1>4. \A s \in Symbols : Has(s) = 0
  <2> TAKE s \in Symbols
  <2>1. h[s] <= SumTo(h, NumSymbols)
    BY <1>1, SumPoint, SymbolsAssumption DEF Symbols
  <2> QED  BY <1>1, <1>3, <2>1 DEF Total, Symbols, Has
<1>5. \A s \in Symbols : d \notin SessionsOf(bars, s)
  BY <1>4 DEF Has, BarSymbols, SessionsOf
<1> QED  BY <1>5 DEF Quotes
-----------------------------------------------------------------------------
\* What holdings are worth changes by what the prices' move earns them.
LEMMA MoveIsGained ==
    ASSUME NEW b, IsBook(b), NEW from \in [Symbols -> Nat], NEW to \in [Symbols -> Nat]
    PROVE  /\ MarkToMarket(b, from) \in Int /\ MarkToMarket(b, to) \in Int
           /\ Move(b.held, from, to) \in Int
           /\ MarkToMarket(b, to) = MarkToMarket(b, from) + Move(b.held, from, to)
<1> DEFINE f == [s \in Symbols |-> b.held[s] * from[s]]
           g == [s \in Symbols |-> b.held[s] * to[s]]
           h == [s \in Symbols |-> b.held[s] * (to[s] - from[s])]
<1>1. \A s \in Symbols : /\ b.held[s] * from[s] \in Int /\ b.held[s] * to[s] \in Int
                         /\ b.held[s] * (to[s] - from[s]) \in Int
                         /\ b.held[s] * to[s]
                               = b.held[s] * from[s] + b.held[s] * (to[s] - from[s])
  BY DEF IsBook
<1>2. /\ f \in [Symbols -> Int] /\ g \in [Symbols -> Int] /\ h \in [Symbols -> Int]
      /\ \A s \in Symbols : g[s] = f[s] + h[s]
  BY <1>1
<1>3. /\ MarkToMarket(b, from) = b.cash + Unit * Total(f)
      /\ MarkToMarket(b, to) = b.cash + Unit * Total(g)
      /\ Move(b.held, from, to) = Unit * Total(h)
  BY DEF MarkToMarket, Move
<1> HIDE DEF f, g, h
<1>4. Total(g) = Total(f) + Total(h)
  BY <1>2, TotalAdd
<1>5. Total(f) \in Int /\ Total(g) \in Int /\ Total(h) \in Int /\ b.cash \in Int
  BY <1>2, TotalType DEF IsBook
<1> QED  BY <1>3, <1>4, <1>5 DEF Unit

\* A fresh portfolio.
LEMMA InitialBookDef ==
    LET b == InitialBook(InitialEquity * Unit) IN
    /\ IsBook(b) /\ b.cash = InitialEquity * Unit /\ b.cash \in Nat /\ b.costs = 0
    /\ MarkToMarket(b, NoWeights) = InitialEquity * Unit
<1> DEFINE b == InitialBook(InitialEquity * Unit)
<1>1. /\ IsBook(b) /\ b.cash = InitialEquity * Unit /\ b.cash \in Nat /\ b.costs = 0
      /\ \A s \in Symbols : b.held[s] = 0
  BY BacktestAssumption DEF InitialBook, IsBook, Unit
<1>2. [s \in Symbols |-> b.held[s] * NoWeights[s]] = NoWeights
  BY <1>1 DEF NoWeights
<1> HIDE DEF b
<1>3. MarkToMarket(b, NoWeights) = b.cash + Unit * 0
  BY <1>2, EmptyTotal DEF MarkToMarket
<1>4. MarkToMarket(b, NoWeights) = InitialEquity * Unit
  BY <1>1, <1>3 DEF Unit
<1> QED  BY <1>1, <1>4 DEF b
-----------------------------------------------------------------------------
(* The bars of a run and their sessions *)

Bars == [symbol : Nat \ {0}, session : Nat \ {0}]

\* A sequence and the set of its elements.
LEMMA SequenceSet ==
    ASSUME NEW S, NEW seq \in Seq(S)
    PROVE  /\ Len(seq) \in Nat /\ DOMAIN seq = 1 .. Len(seq)
           /\ ToSet(seq) = {seq[i] : i \in 1 .. Len(seq)}
           /\ ToSet(seq) \subseteq S
BY DEF ToSet

\* Filtering and sorting lose the order and what is filtered out, nothing else.
LEMMA PicksSet ==
    ASSUME NEW S, NEW seq \in Seq(S), NEW T \in SUBSET S
    PROVE  /\ Picks(seq, T) \in Seq(T)
           /\ ToSet(Picks(seq, T)) = ToSet(seq) \cap T
<1>1. Len(seq) \in Nat /\ DOMAIN seq = 1 .. Len(seq) /\ ToSet(seq) = {seq[i] : i \in 1 .. Len(seq)}
  BY SequenceSet
<1>2. PICK at : PickedAt(Picks(seq, T), at, seq, T, Len(seq))
  BY <1>1, PicksDef
<1> DEFINE p == Picks(seq, T)
<1>3. /\ p \in Seq(T) /\ \A i \in 1 .. Len(p) : at[i] \in 1 .. Len(seq) /\ p[i] = seq[at[i]]
      /\ \A m \in 1 .. Len(seq) : seq[m] \in T => \E i \in 1 .. Len(p) : at[i] = m
  BY <1>2 DEF PickedAt
<1> HIDE DEF p
<1>4. ToSet(p) = {p[i] : i \in 1 .. Len(p)} /\ ToSet(p) \subseteq T
  BY <1>3, SequenceSet
<1>5. ToSet(p) \subseteq ToSet(seq) \cap T
  BY <1>1, <1>3, <1>4
<1>6. ASSUME NEW x \in ToSet(seq) \cap T  PROVE x \in ToSet(p)
  <2>1. PICK m \in 1 .. Len(seq) : x = seq[m]
    BY <1>1, <1>6
  <2>2. PICK i \in 1 .. Len(p) : at[i] = m
    BY <1>3, <1>6, <2>1
  <2>3. p[i] = x
    BY <1>3, <2>1, <2>2
  <2> QED  BY <1>4, <2>3
<1>7. ToSet(p) = ToSet(seq) \cap T
  BY <1>5, <1>6
<1> QED  BY <1>3, <1>7 DEF p

LEMMA SortedSet ==
    ASSUME NEW N \in Nat, NEW seq, DOMAIN seq = 1 .. N, NEW key \in [1 .. N -> Int]
    PROVE  /\ Len(SortedBy(seq, key)) = N
           /\ ToSet(SortedBy(seq, key)) = ToSet(seq)
           /\ \A S : (\A i \in 1 .. N : seq[i] \in S) => SortedBy(seq, key) \in Seq(S)
<1>1. ToSet(seq) = {seq[i] : i \in 1 .. N}
  BY DEF ToSet
<1>2. PICK p : SortedAs(SortedBy(seq, key), p, seq, key, N)
  BY SortedDef
<1> DEFINE q == SortedBy(seq, key)
<1> HIDE DEF q
<1>3. /\ q = [k \in 1 .. N |-> seq[p[k]]] /\ p \in [1 .. N -> 1 .. N]
      /\ \A i \in 1 .. N : \E k \in 1 .. N : p[k] = i
  BY <1>2 DEF q, SortedAs
<1>4. \A S : (\A i \in 1 .. N : seq[i] \in S) => q \in Seq(S)
  BY <1>3
<1>5. Len(q) = N /\ ToSet(q) = {q[i] : i \in 1 .. N}
  <2>1. DOMAIN q = 1 .. N
    BY <1>3
  <2>2. Len(q) = N
    BY <1>3
  <2>3. ToSet(q) = {q[i] : i \in 1 .. N}
    BY <2>1 DEF ToSet
  <2> QED  BY <2>2, <2>3
<1>6. ToSet(q) \subseteq {seq[i] : i \in 1 .. N}
  BY <1>3, <1>5
<1>7. ASSUME NEW i \in 1 .. N  PROVE seq[i] \in ToSet(q)
  <2>1. PICK k \in 1 .. N : p[k] = i
    BY <1>3
  <2>2. q[k] = seq[i]
    BY <1>3, <2>1
  <2> QED  BY <1>5, <2>2
<1>8. ToSet(q) = ToSet(seq)
  BY <1>1, <1>6, <1>7
<1> QED  BY <1>4, <1>5, <1>8 DEF q

\* The frozen panel's bars are some of the panel's.
LEMMA FrozenType ==
    ASSUME NEW bs \in Panels
    PROVE  FrozenBars(bs) \in Seq(Bars) /\ ToSet(FrozenBars(bs)) \subseteq ToSet(bs)
<1> DEFINE T == {bar \in ToSet(bs) : bar.symbol \in Symbols}
           own == Picks(bs, T)
           N == Len(own)
           symbols == [i \in DOMAIN own |-> own[i].symbol]
           bySymbol == SortedBy(own, symbols)
           sessions == [i \in DOMAIN own |-> bySymbol[i].session]
<1>1. bs \in Seq(Bars) /\ T \in SUBSET Bars /\ T \subseteq ToSet(bs)
  <2>1. bs \in Seq(Bars)
    BY BacktestAssumption DEF Bars
  <2> QED  BY <2>1, SequenceSet
<1>2. FrozenBars(bs) = SortedBy(bySymbol, sessions)
  BY DEF FrozenBars
<1> HIDE DEF T
<1>3. own \in Seq(T) /\ ToSet(own) \subseteq ToSet(bs)
  BY <1>1, PicksSet
<1>4. own \in Seq(Bars)
  BY <1>1, <1>3
<1>5. N \in Nat /\ DOMAIN own = 1 .. N /\ own \in [1 .. N -> Bars]
  BY <1>4, SequenceSet
<1>6. \A q \in [1 .. N -> Bars] : \A i \in 1 .. N : q[i].symbol \in Int /\ q[i].session \in Int
  BY DEF Bars
<1> HIDE DEF own, N
<1>7. symbols \in [1 .. N -> Int]
  BY <1>5, <1>6
<1> HIDE DEF symbols
<1>8. Len(bySymbol) = N /\ ToSet(bySymbol) = ToSet(own) /\ bySymbol \in Seq(Bars)
  BY <1>5, <1>7, SortedSet
<1> HIDE DEF bySymbol
<1>9. bySymbol \in [1 .. N -> Bars]
  BY <1>8
<1>10. sessions \in [1 .. N -> Int]
  BY <1>5, <1>6, <1>9
<1> HIDE DEF sessions
<1>11. /\ SortedBy(bySymbol, sessions) \in Seq(Bars)
       /\ ToSet(SortedBy(bySymbol, sessions)) = ToSet(bySymbol)
  BY <1>5, <1>9, <1>10, SortedSet
<1> QED  BY <1>2, <1>3, <1>8, <1>11
-----------------------------------------------------------------------------
\* The sessions of a symbol's bars, ascending.
LEMMA HistoryDef ==
    ASSUME NEW bs \in Seq(Bars), NEW s
    PROVE  /\ \A i \in DOMAIN History(bs, s) : i \in Nat /\ History(bs, s)[i] \in Nat
           /\ \A i, j \in DOMAIN History(bs, s) :
                 i <= j => History(bs, s)[i] <= History(bs, s)[j]
<1> DEFINE T == {bar \in ToSet(bs) : bar.symbol = s}
           own == Picks(bs, T)
           N == Len(own)
           sessions == [i \in DOMAIN own |-> own[i].session]
           h == SortedBy(sessions, sessions)
<1>1. History(bs, s) = h
  BY DEF History
<1>2. T \in SUBSET Bars
  BY SequenceSet
<1> HIDE DEF T
<1>3. own \in Seq(Bars)
  BY <1>2, PicksSet
<1>4. N \in Nat /\ DOMAIN own = 1 .. N /\ own \in [1 .. N -> Bars]
  BY <1>3
<1>5. sessions \in [1 .. N -> Nat]
  BY <1>4 DEF Bars
<1> HIDE DEF own, N, sessions
<1>6. N \in Nat /\ DOMAIN sessions = 1 .. N /\ sessions \in [1 .. N -> Int]
  BY <1>4, <1>5
<1>7. PICK p : SortedAs(h, p, sessions, sessions, N)
  BY <1>6, SortedDef
<1> HIDE DEF h
<1>8. /\ p \in [1 .. N -> 1 .. N] /\ h = [k \in 1 .. N |-> sessions[p[k]]]
      /\ \A k, l \in 1 .. N : k <= l => sessions[p[k]] <= sessions[p[l]]
  BY <1>7 DEF SortedAs
<1>9. DOMAIN h = 1 .. N /\ \A k \in 1 .. N : h[k] = sessions[p[k]] /\ h[k] \in Nat
  BY <1>5, <1>8
<1> QED  BY <1>1, <1>8, <1>9

\* The data of a row ends at its session, that of its label no earlier.
LEMMA RowDates ==
    ASSUME NEW bs \in Seq(Bars), NEW r \in FeatureRows(bs)
    PROVE  /\ r.decision_session \in Nat /\ r.label_end_session \in Nat
           /\ r.label_end_session # NoLabel =>
                 r.decision_session <= r.label_end_session
<1>1. PICK s : \E i \in DOMAIN History(bs, s) : r = Row(History(bs, s), s, i)
  BY DEF FeatureRows
<1> DEFINE h == History(bs, s)
<1>2. PICK i \in DOMAIN h : r = Row(h, s, i)
  BY <1>1
<1>3. /\ \A j \in DOMAIN h : j \in Nat /\ h[j] \in Nat
      /\ \A j, k \in DOMAIN h : j <= k => h[j] <= h[k]
  BY HistoryDef
<1> HIDE DEF h
<1>4. /\ r.decision_session = h[i]
      /\ r.label_end_session = IF i + Horizon \in DOMAIN h THEN h[i + Horizon] ELSE NoLabel
  BY <1>2 DEF Row
<1>5. i + Horizon \in DOMAIN h => i <= i + Horizon
  BY <1>3, FeaturesAssumption
<1> QED  BY <1>3, <1>4, <1>5 DEF NoLabel

\* A forecast rests on labels that end before the embargo, and on features of
\* sessions up to its own.
LEMMA BatchDates ==
    ASSUME NEW bs \in Seq(Bars), NEW d \in Nat
    PROVE  /\ \A e \in ForecastBatch(FeatureRows(bs), d).labels : e \in Nat /\ e + Embargo <= d
           /\ \A e \in ForecastBatch(FeatureRows(bs), d).inputs : e \in Nat /\ e <= d
<1> DEFINE rows == FeatureRows(bs)
<1>1. \A r \in rows : /\ r.decision_session \in Nat /\ r.label_end_session \in Nat
                      /\ r.label_end_session # NoLabel =>
                            r.decision_session <= r.label_end_session
  BY RowDates
<1> HIDE DEF rows
<1>2. \A r \in TrainingSplit(rows, d) :
         /\ r.label_end_session \in Nat /\ r.label_end_session + Embargo <= d
         /\ r.decision_session \in Nat /\ r.decision_session <= d
  BY <1>1, WalkForwardAssumption DEF TrainingSplit, EmbargoStart
<1>3. \A r \in CrossSection(rows, d) : r.decision_session = d
  BY DEF CrossSection
<1> QED  BY <1>2, <1>3 DEF ForecastBatch, rows
-----------------------------------------------------------------------------
\* The bars end at their last session.
LEMMA LastSessionDef ==
    ASSUME NEW bs \in Seq(Bars), bs # <<>>
    PROVE  /\ LastSession(bs) \in BarSessions(bs)
           /\ \A e \in BarSessions(bs) : e \in Nat \ {0} /\ e <= LastSession(bs)
<1> DEFINE N == Len(bs)
           f == [i \in 1 .. N |-> bs[i].session]
           D == BarSessions(bs)
<1>1. N \in Nat \ {0} /\ bs \in [1 .. N -> Bars] /\ ToSet(bs) = {bs[i] : i \in 1 .. N}
  BY SequenceSet
<1>2. \A i \in 1 .. N : bs[i].session \in Nat \ {0}
  BY <1>1 DEF Bars
<1>3. D = {bs[i].session : i \in 1 .. N}
  BY <1>1 DEF BarSessions
<1> HIDE DEF N, D
<1>4. f \in [1 .. N -> Nat] /\ \A i \in 1 .. N : f[i] = bs[i].session
  BY <1>2
<1> HIDE DEF f
<1>5. \A i \in 1 .. N : f[i] <= SumTo(f, N)
  BY <1>1, <1>4, SumPoint
<1>6. SumTo(f, N) \in Nat
  BY <1>1, <1>4, SumIsNat
<1>7. D \in SUBSET (Nat \ {0}) /\ D \in SUBSET (0 .. SumTo(f, N)) /\ D # {}
  <2>1. \A e \in D : e \in Nat \ {0} /\ e <= SumTo(f, N)
    BY <1>2, <1>3, <1>4, <1>5
  <2>2. 1 \in 1 .. N
    BY <1>1
  <2> QED  BY <1>3, <1>6, <2>1, <2>2
<1>8. \E m \in D : \A e \in D : e <= m
  BY <1>6, <1>7, GreatestNumber
<1>9. LastSession(bs) = CHOOSE m \in D : \A e \in D : e <= m
  BY DEF LastSession, D
<1>10. LastSession(bs) \in D /\ \A e \in D : e <= LastSession(bs)
  BY <1>8, <1>9
<1> QED  BY <1>7, <1>10 DEF D

\* The session map holds each session with a bar once, ascending.
LEMMA SessionMapDef ==
    ASSUME NEW bs \in Seq(Bars), bs # <<>>
    PROVE  /\ Len(SessionMap(bs)) \in Nat
           /\ Len(SessionMap(bs)) = Cardinality(BarSessions(bs))
           /\ \A i \in 1 .. Len(SessionMap(bs)) :
                 SessionMap(bs)[i] \in BarSessions(bs) /\ SessionMap(bs)[i] \in Nat
           /\ \A i, j \in 1 .. Len(SessionMap(bs)) :
                 i < j => SessionMap(bs)[i] < SessionMap(bs)[j]
<1> DEFINE L == LastSession(bs)
           D == BarSessions(bs)
           days == [d \in 1 .. L |-> d]
           m == Picks(days, D)
           n == Len(m)
<1>1. L \in Nat /\ D \in SUBSET (1 .. L)
  <2>1. L \in D /\ \A e \in D : e \in Nat \ {0} /\ e <= L
    BY LastSessionDef
  <2> HIDE DEF L, D
  <2> QED  BY <2>1
<1>2. SessionMap(bs) = m
  BY DEF SessionMap
<1> HIDE DEF L, D
<1>3. Len(days) = L /\ \A d \in 1 .. L : days[d] = d
  BY <1>1
<1> HIDE DEF days
<1>4. PICK at : PickedAt(m, at, days, D, L)
  BY <1>1, <1>3, PicksDef
<1>5. /\ m \in Seq(D) /\ at \in [1 .. n -> 1 .. L]
      /\ \A i \in 1 .. n : m[i] = days[at[i]]
      /\ \A i, j \in 1 .. n : i < j => at[i] < at[j]
      /\ \A d \in 1 .. L : days[d] \in D => \E i \in 1 .. n : at[i] = d
  BY <1>4 DEF PickedAt
<1> HIDE DEF m
<1>6. n \in Nat /\ \A i \in 1 .. n : m[i] \in D /\ m[i] = at[i] /\ m[i] \in Nat
  BY <1>1, <1>3, <1>5
<1> HIDE DEF n
<1>7. /\ at \in [1 .. n -> D]
      /\ \A i, j \in 1 .. n : at[i] = at[j] => i = j
      /\ \A d \in D : \E i \in 1 .. n : at[i] = d
  <2>1. \A i \in 1 .. n : at[i] \in D
    BY <1>6
  <2>2. \A i, j \in 1 .. n : at[i] = at[j] => i = j
    BY <1>5, <1>6
  <2>3. \A d \in D : \E i \in 1 .. n : at[i] = d
    BY <1>1, <1>3, <1>5
  <2> QED  BY <1>5, <2>1, <2>2, <2>3
<1>8. at \in Bijection(1 .. n, D)
  BY <1>7 DEF Bijection, Injection, Surjection, IsInjective
<1>9. Cardinality(D) = n
  <2>1. IsFiniteSet(1 .. n) /\ Cardinality(1 .. n) = n
    BY <1>6, FS_Interval
  <2>2. ExistsBijection(1 .. n, D)
    BY <1>8 DEF ExistsBijection
  <2> QED  BY <2>1, <2>2, FS_Bijection
<1> QED  BY <1>2, <1>5, <1>6, <1>9 DEF n, D
-----------------------------------------------------------------------------
(* The inductive invariant *)

BarsOK == /\ bars \in Panels \cup {FrozenBars(bs) : bs \in Panels}
          /\ prices \in Paths
          /\ stage = "load" => bars \in Panels

\* Every decision is allowed, and a simulation replays one per session.
DecisionsOK ==
    /\ IsSequence(decisions)
    /\ \A i \in 1 .. Len(decisions) : decisions[i].weights \in Allowed
    /\ stage = "simulate" => Len(decisions) = Periods

BookOK == IsBook(book) /\ book.cash >= 0

CurveOK ==
    /\ IsSequence(curve) /\ IsSequence(charges)
    /\ Len(curve) = Len(charges) + 1

\* The books balance in every stage: a simulation that ends is replaced by a
\* fresh one.
WealthOK ==
    /\ gains \in Int /\ last \in [Symbols -> Nat]
    /\ MarkToMarket(book, last) = InitialEquity * Unit + gains - book.costs
    /\ curve[Len(curve)] = MarkToMarket(book, last)

SimOK ==
    /\ stage \in Stages /\ published \in BOOLEAN
    /\ sim \in 1 .. Len(Sensitivity) + 3
    /\ stage \in {"load", "decide", "simulate"} => sim <= Len(Sensitivity) + 2

IInv == BarsOK /\ DecisionsOK /\ BookOK /\ CurveOK /\ WealthOK /\ SimOK
-----------------------------------------------------------------------------
\* The simulations' cost levels.
LEMMA SimsDef ==
    /\ Len(Sensitivity) \in Nat /\ Len(Sims) = Len(Sensitivity) + 2
    /\ \A i \in 1 .. Len(Sensitivity) + 2 :
          /\ Sims[i].bps \in 0 .. 100
          /\ 2 * Sims[i].bps <= 100 * MinCash
<1> DEFINE n == Len(Sensitivity) + 2
<1>1. /\ Len(Sensitivity) \in Nat /\ DOMAIN Sensitivity = 1 .. Len(Sensitivity)
      /\ \A i \in 1 .. Len(Sensitivity) : Sensitivity[i] \in 0 .. 100
      /\ CostBps \in 0 .. 100
  <2>1. Sensitivity \in Seq(0 .. 100) /\ CostBps \in 0 .. 100
    BY BacktestAssumption, Zenon
  <2>2. \A S, s : s \in Seq(S) => /\ Len(s) \in Nat /\ DOMAIN s = 1 .. Len(s)
                                 /\ \A i \in 1 .. Len(s) : s[i] \in S
    OBVIOUS
  <2> QED  BY <2>1, <2>2, Zenon
<1>2. Sims = [i \in 1 .. n |-> [bps |-> IF i \in {1, n} THEN CostBps
                                        ELSE Sensitivity[i - 1],
                               equal_weight |-> i = n]]
  BY DEF Sims
<1>3. \A i \in 1 .. n : Sims[i].bps = IF i \in {1, n} THEN CostBps
                                      ELSE Sensitivity[i - 1]
  BY <1>2
<1>4. \A i \in 1 .. n : i \in {1, n} \/ i - 1 \in 1 .. Len(Sensitivity)
  BY <1>1
<1>5. Len(Sims) = n
  BY <1>1, <1>2
<1> QED  BY <1>1, <1>3, <1>4, <1>5, ReserveAssumption

\* The prices of a session are natural numbers, NoPrice without a bar.
LEMMA QuotesType ==
    ASSUME BarsOK, NEW d, NEW field \in {"open", "close"}
    PROVE  Quotes(d, field) \in [Symbols -> Nat]
<1>1. ASSUME NEW s \in Symbols, d \in SessionsOf(bars, s)
      PROVE  prices[s][d][field] \in Nat
  <2>1. PICK bar \in ToSet(bars) : bar.symbol = s /\ bar.session = d
    BY <1>1 DEF SessionsOf
  <2>2. PICK bs \in Panels : bar \in ToSet(bs)
    BY <2>1, FrozenType DEF BarsOK
  <2>3. prices[s][d].open \in Nat /\ prices[s][d].close \in Nat
    BY <2>1, <2>2, PricesAssumption DEF BarsOK
  <2> QED  BY <2>3
<1> QED  BY <1>1 DEF Quotes, NoPrice
-----------------------------------------------------------------------------
\* The run begins with a fresh portfolio and no decision.
LEMMA InitIInv == Init => IInv
<1> SUFFICES ASSUME Init PROVE IInv
  OBVIOUS
<1>1. BarsOK /\ SimOK
  BY SimsDef DEF Init, BarsOK, SimOK, Stages
<1>2. DecisionsOK
  <2>1. \A S : <<>> \in Seq(S) /\ Len(<<>>) = 0
    OBVIOUS
  <2> QED  BY <2>1 DEF Init, DecisionsOK, IsSequence
<1>3. BookOK
  BY InitialBookDef DEF Init, BookOK
<1> DEFINE e == InitialEquity * Unit
<1>4. e \in Nat
  BY BacktestAssumption DEF Unit
<1>5. curve = <<e>> /\ charges = <<>>
  BY DEF Init
<1> HIDE DEF e
<1>6. CurveOK /\ curve[Len(curve)] = e
  <2>1. ToSet(curve) = {e}
    BY <1>5 DEF ToSet
  <2>2. \A S : <<>> \in Seq(S) /\ Len(<<>>) = 0
    OBVIOUS
  <2> QED  BY <1>5, <2>1, <2>2 DEF CurveOK, IsSequence
<1>7. WealthOK
  <2>1. book = InitialBook(InitialEquity * Unit) /\ last = NoWeights /\ gains = 0
    BY DEF Init
  <2>2. MarkToMarket(book, last) = e /\ book.costs = 0
    BY <2>1, InitialBookDef DEF e
  <2> QED  BY <1>4, <1>6, <2>1, <2>2, EmptyTotal DEF WealthOK, e
<1> QED  BY <1>1, <1>2, <1>3, <1>6, <1>7 DEF IInv

\* The decision of a session, made or kept.
LEMMA DecideIInv ==
    ASSUME IInv, stage = "decide", NEW w \in Allowed, NEW batch, Decide(w, batch)
    PROVE  IInv'
<1>1. DecisionsOK'
  <2> DEFINE e == [weights |-> w, batch |-> batch]
  <2>1. decisions' = Append(decisions, e) /\ e.weights = w
    BY DEF Decide
  <2>2. UNCHANGED <<bars, prices>>
    BY DEF Decide
  <2>3. IsSequence(decisions)
    BY DEF IInv, DecisionsOK
  <2> HIDE DEF e
  <2>4. /\ IsSequence(decisions') /\ Len(decisions) \in Nat
        /\ Len(decisions') = Len(decisions) + 1
        /\ \A i \in 1 .. Len(decisions) : decisions'[i] = decisions[i]
        /\ decisions'[Len(decisions) + 1] = e
    BY <2>1, <2>3, AppendSequence
  <2>5. \A i \in 1 .. Len(decisions') : decisions'[i].weights \in Allowed
    <3> TAKE i \in 1 .. Len(decisions')
    <3>1. i \in 1 .. Len(decisions) \/ i = Len(decisions) + 1
      BY <2>4
    <3> QED  BY <2>1, <2>4, <3>1 DEF IInv, DecisionsOK
  <2>6. stage' = "simulate" => Len(decisions') = Periods'
    <3>1. Periods' = Periods
      BY <2>2 DEF Periods, AllSessions
    <3>2. stage' = "simulate" => Len(decisions) + 1 = Periods
      BY DEF Decide, Day
    <3> QED  BY <2>4, <3>1, <3>2
  <2> QED  BY <2>4, <2>5, <2>6 DEF DecisionsOK
<1>2. UNCHANGED <<published, bars, prices, sim, simVars>>
      /\ stage' \in {"simulate", "decide"}
  BY DEF Decide
<1>3. BarsOK' /\ BookOK' /\ CurveOK' /\ WealthOK' /\ SimOK'
  BY <1>2 DEF IInv, BarsOK, BookOK, CurveOK, WealthOK, SimOK, Stages, simVars
<1> QED  BY <1>1, <1>3 DEF IInv

\* The weights kept are allowed.
LEMMA LastWeightsAllowed ==
    ASSUME IInv PROVE LastWeights \in Allowed
<1>1. CASE decisions = <<>>
  BY <1>1, EmptyTotal, OptimizerAssumption DEF LastWeights, Allowed
<1>2. CASE decisions # <<>>
  <2>1. IsSequence(decisions)
    BY DEF IInv, DecisionsOK
  <2>2. Len(decisions) \in 1 .. Len(decisions)
    BY <1>2, <2>1 DEF IsSequence
  <2>3. Day - 1 = Len(decisions)
    BY <2>2 DEF Day
  <2> QED  BY <1>2, <2>2, <2>3 DEF LastWeights, IInv, DecisionsOK
<1> QED  BY <1>1, <1>2
-----------------------------------------------------------------------------
\* What a session's rebalance is given.
LEMMA TradeInputs ==
    ASSUME IInv, stage = "simulate", Slot <= Periods
    PROVE  /\ Open \in [Symbols -> Nat] /\ Close \in [Symbols -> Nat]
           /\ Sim.bps \in 0 .. 100
           /\ Weights \in [Symbols -> Nat] /\ Whole \in Nat
           /\ Affordable(Weights, Whole, Sim.bps)
           /\ Whole = 0 => Open = [s \in Symbols |-> NoPrice]
<1>1. Open \in [Symbols -> Nat] /\ Close \in [Symbols -> Nat]
  BY QuotesType DEF IInv, Open, Close
<1>2. sim \in 1 .. Len(Sensitivity) + 2
  BY SimsDef DEF IInv, SimOK
<1>3. Sim.bps \in 0 .. 100 /\ 2 * Sim.bps <= 100 * MinCash
  BY <1>2, SimsDef DEF Sim
<1> DEFINE bps == Sim.bps
<1> HIDE DEF bps
<1>4. bps \in 0 .. 100 /\ bps \in Nat /\ 2 * bps <= 100 * MinCash
  BY <1>3 DEF bps
<1>5. CASE Sim.equal_weight
  <2>1. Weights = EqualWeights /\ Whole = EqualWhole
    BY <1>5 DEF Weights, Whole
  <2>2. /\ EqualWeights \in [Symbols -> Nat] /\ EqualWhole \in Nat
        /\ Affordable(EqualWeights, EqualWhole, bps)
    BY <1>4, EqualWeightsAffordable
  <2>3. EqualWhole = 0 => Open = [s \in Symbols |-> NoPrice]
    BY NobodyQuoted DEF Open
  <2> QED  BY <1>1, <1>3, <2>1, <2>2, <2>3, Zenon DEF bps
<1>6. CASE ~Sim.equal_weight
  <2>1. Slot \in 1 .. Len(decisions)
    <3>1. Len(charges) \in Nat /\ Len(decisions) \in Nat
      BY DEF IInv, CurveOK, DecisionsOK, IsSequence
    <3> QED  BY <3>1 DEF IInv, DecisionsOK, Slot
  <2>2. Weights \in Allowed /\ Whole = 100
    BY <1>6, <2>1 DEF Weights, Whole, IInv, DecisionsOK
  <2>3. Weights \in [Symbols -> Nat] /\ Affordable(Weights, 100, bps)
    BY <1>4, <2>2, AllowedAffordable
  <2>4. Whole \in Nat /\ Whole # 0
    BY <2>2
  <2> QED  BY <1>1, <1>3, <2>2, <2>3, <2>4, Zenon DEF bps
<1> QED  BY <1>5, <1>6

\* What it makes of the portfolio.
LEMMA TradeBook ==
    ASSUME IInv, stage = "simulate", Slot <= Periods, Priced(book, Open),
           NEW next, next = Rebalance(book, last, Weights, Whole, Open, Sim.bps)
    PROVE  /\ IsBook(next) /\ next.cash >= 0 /\ next.costs - book.costs \in Nat
           /\ MarkToMarket(next, Open)
                 = MarkToMarket(book, Open) - (next.costs - book.costs)
<1>1. /\ Open \in [Symbols -> Nat] /\ Sim.bps \in Nat
      /\ Weights \in [Symbols -> Nat] /\ Whole \in Nat
      /\ Affordable(Weights, Whole, Sim.bps) /\ Sim.bps \in 0 .. 100
      /\ Whole = 0 => Open = [s \in Symbols |-> NoPrice]
  BY TradeInputs
<1>2. IsBook(book) /\ book.cash >= 0
  BY DEF IInv, BookOK
<1>3. PICK w \in [Symbols -> Nat], whole \in Nat \ {0} :
          /\ Affordable(w, whole, Sim.bps)
          /\ next = Rebalance(book, last, w, whole, Open, Sim.bps)
  <2>1. CASE Whole # 0
    BY <1>1, <2>1
  <2>2. CASE Whole = 0
    <3>1. \A s \in Symbols : Open[s] = NoPrice
      BY <1>1, <2>2
    <3>2. \A e : TargetQuantities(Weights, Whole, e, Open)
                    = TargetQuantities(NoWeights, 1, e, Open)
      BY <3>1 DEF TargetQuantities, TargetQuantity
    <3>3. next = Rebalance(book, last, NoWeights, 1, Open, Sim.bps)
      BY <3>2 DEF Rebalance
    <3>4. Affordable(NoWeights, 1, Sim.bps) /\ NoWeights \in [Symbols -> Nat]
      BY <1>1, EmptyTotal DEF Affordable, Unit
    <3> QED  BY <3>3, <3>4
  <2> QED  BY <2>1, <2>2
<1>4. next.cash >= 0
  BY <1>1, <1>2, <1>3, RebalanceStaysFunded
<1>5. /\ IsBook(next) /\ next.costs - book.costs \in Nat
      /\ MarkToMarket(next, Open)
            = MarkToMarket(book, Open) - (next.costs - book.costs)
  BY <1>1, <1>2, <1>3, RebalanceConservesWealth
<1> QED  BY <1>4, <1>5

\* A session of a simulation.
LEMMA TradeIInv ==
    ASSUME IInv, Trade PROVE IInv'
<1> DEFINE next == Rebalance(book, last, Weights, Whole, Open, Sim.bps)
<1>1. /\ stage = "simulate" /\ Slot <= Periods /\ Priced(book, Open)
      /\ book' = next
      /\ curve' = Append(curve, MarkToMarket(next, Close))
      /\ charges' = Append(charges, next.costs - book.costs)
      /\ gains' = gains + Move(book.held, last, Open) + Move(next.held, Open, Close)
      /\ last' = Close
      /\ UNCHANGED <<stage, published, bars, prices, decisions, sim>>
  BY DEF Trade
<1>2. Open \in [Symbols -> Nat] /\ Close \in [Symbols -> Nat]
  BY <1>1, TradeInputs
<1>3. /\ IsBook(next) /\ next.cash >= 0 /\ next.costs - book.costs \in Nat
      /\ MarkToMarket(next, Open)
            = MarkToMarket(book, Open) - (next.costs - book.costs)
  <2> HIDE DEF next
  <2> QED  BY <1>1, TradeBook DEF next
<1> HIDE DEF next
<1>4. /\ IsBook(book) /\ gains \in Int /\ last \in [Symbols -> Nat]
      /\ MarkToMarket(book, last) = InitialEquity * Unit + gains - book.costs
  BY DEF IInv, BookOK, WealthOK
<1>5. /\ MarkToMarket(book, last) \in Int /\ MarkToMarket(book, Open) \in Int
      /\ Move(book.held, last, Open) \in Int
      /\ MarkToMarket(book, Open)
            = MarkToMarket(book, last) + Move(book.held, last, Open)
  BY <1>2, <1>4, MoveIsGained
<1>6. /\ MarkToMarket(next, Close) \in Int /\ Move(next.held, Open, Close) \in Int
      /\ MarkToMarket(next, Close)
            = MarkToMarket(next, Open) + Move(next.held, Open, Close)
  BY <1>2, <1>3, MoveIsGained
<1>7. BookOK'
  BY <1>1, <1>3 DEF BookOK
<1>8. CurveOK' /\ curve'[Len(curve')] = MarkToMarket(next, Close)
  <2>1. IsSequence(curve) /\ IsSequence(charges) /\ Len(curve) = Len(charges) + 1
    BY DEF IInv, CurveOK
  <2>2. /\ IsSequence(curve') /\ Len(curve) \in Nat /\ Len(curve') = Len(curve) + 1
        /\ curve'[Len(curve) + 1] = MarkToMarket(next, Close)
    BY <1>1, <2>1, AppendSequence
  <2>3. IsSequence(charges') /\ Len(charges') = Len(charges) + 1
    BY <1>1, <2>1, AppendSequence
  <2> QED  BY <2>1, <2>2, <2>3 DEF CurveOK
<1>9. WealthOK'
  <2>1. InitialEquity * Unit \in Int /\ book.costs \in Int /\ next.costs \in Int
    BY <1>3, <1>4, BacktestAssumption DEF IsBook, Unit
  <2>2. MarkToMarket(next, Close) = InitialEquity * Unit + gains' - next.costs
    <3> DEFINE e == InitialEquity * Unit
               m1 == Move(book.held, last, Open)
               m2 == Move(next.held, Open, Close)
               v0 == MarkToMarket(book, last)
               v1 == MarkToMarket(book, Open)
               v2 == MarkToMarket(next, Open)
               v3 == MarkToMarket(next, Close)
    <3>1. /\ e \in Int /\ m1 \in Int /\ m2 \in Int /\ gains \in Int
          /\ v0 \in Int /\ v1 \in Int /\ v3 \in Int
          /\ book.costs \in Int /\ next.costs \in Int
      BY <1>4, <1>5, <1>6, <2>1
    <3>2. /\ v0 = e + gains - book.costs /\ v1 = v0 + m1
          /\ v2 = v1 - (next.costs - book.costs) /\ v3 = v2 + m2
          /\ gains' = gains + m1 + m2
      BY <1>1, <1>3, <1>4, <1>5, <1>6
    <3> HIDE DEF e, m1, m2, v0, v1, v2, v3
    <3>3. v3 = e + gains' - next.costs
      BY <3>1, <3>2
    <3> QED  BY <3>3 DEF e, v3
  <2>3. gains' \in Int
    BY <1>1, <1>4, <1>5, <1>6
  <2> QED  BY <1>1, <1>2, <1>8, <2>2, <2>3 DEF WealthOK
<1>10. BarsOK' /\ DecisionsOK' /\ SimOK'
  BY <1>1 DEF IInv, BarsOK, DecisionsOK, SimOK, Periods, AllSessions
<1> QED  BY <1>7, <1>8, <1>9, <1>10 DEF IInv
-----------------------------------------------------------------------------
\* Between simulations the portfolio is a fresh one.
LEMMA FinishIInv ==
    ASSUME IInv, FinishSimulation PROVE IInv'
<1> DEFINE e == InitialEquity * Unit
<1>1. /\ stage = "simulate" /\ sim' = sim + 1
      /\ stage' = IF sim = Len(Sims) THEN "report" ELSE "simulate"
      /\ book' = InitialBook(e) /\ curve' = <<e>> /\ charges' = <<>>
      /\ last' = NoWeights /\ gains' = 0
      /\ UNCHANGED <<published, bars, prices, decisions>>
  BY DEF FinishSimulation
<1>2. e \in Nat /\ IsBook(InitialBook(e)) /\ InitialBook(e).cash >= 0
      /\ InitialBook(e).costs = 0 /\ MarkToMarket(InitialBook(e), NoWeights) = e
  BY InitialBookDef
<1>3. BookOK'
  BY <1>1, <1>2 DEF BookOK
<1>4. CurveOK' /\ curve'[Len(curve')] = e
  <2> HIDE DEF e
  <2>1. ToSet(curve') = {e}
    BY <1>1 DEF ToSet
  <2>2. \A S : <<>> \in Seq(S) /\ Len(<<>>) = 0
    OBVIOUS
  <2> QED  BY <1>1, <2>1, <2>2 DEF CurveOK, IsSequence
<1>5. WealthOK'
  <2>1. /\ gains' \in Int /\ last' \in [Symbols -> Nat]
        /\ MarkToMarket(book', last') = e /\ book'.costs = 0 /\ gains' = 0
        /\ curve'[Len(curve')] = e
    BY <1>1, <1>2, <1>4, EmptyTotal
  <2> HIDE DEF e
  <2>2. e = e + gains' - book'.costs
    BY <1>2, <2>1
  <2> QED  BY <2>1, <2>2 DEF WealthOK, e
<1>6. SimOK'
  <2>1. sim \in 1 .. Len(Sensitivity) + 2
    BY <1>1, SimsDef DEF IInv, SimOK
  <2> QED  BY <1>1, <2>1, SimsDef DEF IInv, SimOK, Stages
<1>7. BarsOK' /\ DecisionsOK'
  <2>1. stage' = "simulate" => stage = "simulate"
    BY <1>1
  <2> QED  BY <1>1, <2>1 DEF IInv, BarsOK, DecisionsOK, Periods, AllSessions
<1> QED  BY <1>3, <1>4, <1>5, <1>6, <1>7 DEF IInv

LEMMA ReuseIInv ==
    ASSUME IInv, ReuseHeadline PROVE IInv'
<1>1. UNCHANGED <<stage, published, bars, prices, decisions, simVars>>
      /\ sim' = sim + 1 /\ Reused /\ stage = "simulate"
  BY DEF ReuseHeadline
<1>2. SimOK'
  BY <1>1, SimsDef DEF IInv, SimOK, Reused
<1> QED  BY <1>1, <1>2 DEF IInv, BarsOK, DecisionsOK, BookOK, CurveOK, WealthOK,
                           simVars, Periods, AllSessions

\* The other steps touch neither the decisions nor the portfolio.
LEMMA OtherIInv ==
    ASSUME IInv, UNCHANGED <<published, prices, decisions, sim, simVars>>,
           BarsOK', stage' \in Stages \ {"load", "simulate"},
           stage' = "decide" => stage = "load"
    PROVE  IInv'
<1>1. UNCHANGED <<published, prices, decisions, sim, book, curve, charges, last, gains>>
  BY DEF simVars
<1>2. SimOK'
  <2>1. stage' = "decide" => sim <= Len(Sensitivity) + 2
    BY SimsDef DEF IInv, SimOK
  <2> QED  BY <1>1, <2>1 DEF IInv, SimOK
<1> QED  BY <1>1, <1>2 DEF IInv, DecisionsOK, BookOK, CurveOK, WealthOK
-----------------------------------------------------------------------------
\* The invariant is inductive.
LEMMA NextIInv == IInv /\ [Next]_vars => IInv'
<1> SUFFICES ASSUME IInv, [Next]_vars PROVE IInv'
  OBVIOUS
<1>1. CASE LoadPublished
  <2>1. UNCHANGED <<published, bars, prices, decisions, sim, simVars>>
    BY <1>1 DEF LoadPublished
  <2>2. stage = "load" /\ stage' \in {"rejected", "decide", "too_short"}
    BY <1>1 DEF LoadPublished
  <2>3. BarsOK'
    BY <2>1, <2>2 DEF IInv, BarsOK
  <2> QED  BY <2>1, <2>2, <2>3, OtherIInv DEF Stages
<1>2. CASE LoadFrozen
  <2>1. UNCHANGED <<published, prices, decisions, sim, simVars>>
    BY <1>2 DEF LoadFrozen
  <2>2. stage = "load" /\ stage' \in {"rejected", "decide", "too_short"}
    BY <1>2 DEF LoadFrozen
  <2>3. BarsOK'
    <3>1. bars' = FrozenBars(bars) /\ prices' = prices
      BY <1>2 DEF LoadFrozen
    <3>2. bars \in Panels /\ prices \in Paths
      BY <2>2 DEF IInv, BarsOK
    <3> QED  BY <2>2, <3>1, <3>2 DEF BarsOK
  <2> QED  BY <2>1, <2>2, <2>3, OtherIInv DEF Stages
<1>3. ASSUME NEW q \in SUBSET Symbols, NEW w \in Solutions, Retrain(q, w)
      PROVE  IInv'
  <2> DEFINE kept == BuildTarget(q, w).blocked
             next == IF kept THEN LastWeights ELSE BuildTarget(q, w).weights
             batch == IF kept THEN LastBatch ELSE BatchAt(DecisionSession(Day))
  <2>1. stage = "decide" /\ Decide(next, batch)
    BY <1>3 DEF Retrain
  <2>2. next \in Allowed
    BY LastWeightsAllowed, BuildTargetAllowed
  <2> HIDE DEF next, batch
  <2> QED  BY <2>1, <2>2, DecideIInv
<1>4. CASE HoldWeights
  BY <1>4, LastWeightsAllowed, DecideIInv DEF HoldWeights
<1>5. CASE Trade
  BY <1>5, TradeIInv
<1>6. CASE FinishSimulation
  BY <1>6, FinishIInv
<1>7. CASE ReuseHeadline
  BY <1>7, ReuseIInv
<1>8. CASE MissingPrice \/ Report \/ NoForecastNow
           \/ \E q \in SUBSET Symbols, w \in Solutions : ForecastNow(q, w)
  <2>1. /\ UNCHANGED <<published, bars, prices, decisions, sim, simVars>>
        /\ stage' \in {"no_price", "forecast", "forecast_blocked", "done"}
    BY <1>8 DEF MissingPrice, Report, NoForecastNow, ForecastNow
  <2>2. BarsOK'
    BY <2>1 DEF IInv, BarsOK
  <2> QED  BY <2>1, <2>2, OtherIInv DEF Stages
<1>9. CASE UNCHANGED vars
  BY <1>9 DEF vars, simVars, IInv, BarsOK, DecisionsOK, BookOK, CurveOK, WealthOK,
              SimOK, Periods, AllSessions
<1> QED  BY <1>1, <1>2, <1>3, <1>4, <1>5, <1>6, <1>7, <1>8, <1>9 DEF Next

LEMMA AlwaysIInv == Spec => []IInv
BY InitIInv, NextIInv, PTL DEF Spec

\* The run's pieces keep their shapes, and no short position is ever held
\* (accounting.py, engine.py: quantities are not checked when they are applied).
THEOREM BacktestTypeOK == Spec => []TypeOK
<1>1. IInv => TypeOK
  BY SimsDef DEF IInv, SimOK, BookOK, IsBook, CurveOK, WealthOK, TypeOK
<1> QED  BY <1>1, AlwaysIInv, PTL

\* No simulation borrows cash, at any cost level the assumptions allow
\* (accounting.py: cash is not bounded below).
THEOREM BacktestNeverOverdrawn == Spec => []NeverOverdrawn
<1>1. IInv => NeverOverdrawn
  BY DEF IInv, BookOK, NeverOverdrawn
<1> QED  BY <1>1, AlwaysIInv, PTL

\* At every close the equity recorded is what the run started from plus what
\* price moves earned, less the costs (engine.py: _run_sim).
THEOREM BacktestAccountsForWealth == Spec => []WealthIsAccountedFor
<1>1. IInv => WealthIsAccountedFor
  BY DEF IInv, WealthOK, WealthIsAccountedFor
<1> QED  BY <1>1, AlwaysIInv, PTL
-----------------------------------------------------------------------------
(* What the decisions rest on *)

NotStarted == {"load", "rejected", "too_short"}

\* Past the loading there are sessions to trade at, and no more decisions than
\* such sessions.
CalendarOK ==
    /\ stage \in NotStarted => decisions = <<>>
    /\ stage \notin NotStarted =>
          /\ bars \in Seq(Bars) /\ bars # <<>> /\ Periods \in Nat \ {0}
          /\ Len(decisions) <= Periods
    /\ stage = "decide" => Len(decisions) < Periods

\* A batch uses what is older than session e, and labels that end before the
\* embargo of the session it was made at.
RestsOnThePast(b, e) ==
    /\ \A d \in b.labels \cup b.inputs : d \in Nat /\ d < e
    /\ \A d \in b.labels : d + Embargo <= b.at

BatchesOK ==
    \A i \in 1 .. Len(decisions) :
        RestsOnThePast(decisions[i].batch, ExecutionSession(i))

DatesInv == IInv /\ CalendarOK /\ BatchesOK

LEMMA BarsType ==
    ASSUME BarsOK PROVE bars \in Seq(Bars)
<1>1. \A bs \in Panels : bs \in Seq(Bars) /\ FrozenBars(bs) \in Seq(Bars)
  BY FrozenType, BacktestAssumption DEF Bars
<1> QED  BY <1>1 DEF BarsOK

\* Bars that span enough sessions leave at least one to trade at.
LEMMA LongEnoughDef ==
    ASSUME NEW bs \in Seq(Bars), LongEnough(bs)
    PROVE  bs # <<>> /\ Len(SessionMap(bs)) - MinTraining - 1 \in Nat \ {0}
<1>1. Cardinality(BarSessions(bs)) > MinTraining + 1
  BY DEF LongEnough
<1>2. bs # <<>>
  <2> SUFFICES ASSUME bs = <<>> PROVE FALSE
    OBVIOUS
  <2>1. BarSessions(bs) = {}
    BY DEF BarSessions, ToSet
  <2>2. Cardinality(BarSessions(bs)) = 0
    BY <2>1, FS_EmptySet
  <2> QED  BY <1>1, <2>2, WalkForwardAssumption
<1> QED  BY <1>1, <1>2, SessionMapDef, WalkForwardAssumption

\* Decisions are made and executed in the order of the sessions.
LEMMA SessionsDef ==
    ASSUME bars \in Seq(Bars), bars # <<>>, Periods \in Nat \ {0}
    PROVE  /\ \A i \in 1 .. Periods :
                 /\ DecisionSession(i) \in BarSessions(bars) /\ DecisionSession(i) \in Nat
                 /\ ExecutionSession(i) \in BarSessions(bars) /\ ExecutionSession(i) \in Nat
                 /\ DecisionSession(i) < ExecutionSession(i)
           /\ \A i, j \in 1 .. Periods : i < j => ExecutionSession(i) < ExecutionSession(j)
<1> DEFINE m == SessionMap(bars)
           n == Len(m)
<1>1. /\ n \in Nat
      /\ \A i \in 1 .. n : m[i] \in BarSessions(bars) /\ m[i] \in Nat
      /\ \A i, j \in 1 .. n : i < j => m[i] < m[j]
  BY SessionMapDef
<1>2. /\ Periods = n - MinTraining - 1
      /\ \A i : /\ DecisionSession(i) = m[MinTraining + i]
                /\ ExecutionSession(i) = m[MinTraining + i + 1]
  BY DEF Periods, AllSessions, DecisionSession, ExecutionSession
<1> HIDE DEF m, n
<1>3. \A i \in 1 .. Periods : MinTraining + i \in 1 .. n /\ MinTraining + i + 1 \in 1 .. n
  BY <1>1, <1>2, WalkForwardAssumption
<1>4. \A i, j \in 1 .. Periods : i < j => MinTraining + i + 1 < MinTraining + j + 1
  BY WalkForwardAssumption
<1>5. \A i \in 1 .. Periods : MinTraining + i < MinTraining + i + 1
  BY WalkForwardAssumption
<1> QED  BY <1>1, <1>2, <1>3, <1>4, <1>5

LEMMA InitDates == Init => DatesInv
<1> SUFFICES ASSUME Init PROVE DatesInv
  OBVIOUS
<1>1. stage = "load" /\ decisions = <<>> /\ Len(decisions) = 0
  BY DEF Init
<1>2. CalendarOK /\ BatchesOK
  BY <1>1 DEF CalendarOK, BatchesOK, NotStarted
<1> QED  BY <1>2, InitIInv DEF DatesInv

\* The batch in force rests on the past of the session decided on.
LEMMA LastBatchDates ==
    ASSUME DatesInv, stage = "decide"
    PROVE  RestsOnThePast(LastBatch, ExecutionSession(Day))
<1>1. IsSequence(decisions) /\ bars \in Seq(Bars) /\ bars # <<>>
      /\ Periods \in Nat \ {0} /\ Len(decisions) < Periods
  BY DEF DatesInv, IInv, DecisionsOK, CalendarOK, NotStarted
<1>2. CASE decisions = <<>>
  BY <1>2 DEF LastBatch, RestsOnThePast
<1>3. CASE decisions # <<>>
  <2> DEFINE n == Len(decisions)
  <2>1. n \in Nat /\ n \in 1 .. n /\ Day = n + 1 /\ Day - 1 = n
    BY <1>1, <1>3 DEF IsSequence, Day
  <2>2. LastBatch = decisions[n].batch
    BY <1>3, <2>1 DEF LastBatch
  <2> HIDE DEF n
  <2>3. RestsOnThePast(decisions[n].batch, ExecutionSession(n))
    BY <2>1 DEF DatesInv, BatchesOK, n
  <2>4. n \in 1 .. Periods /\ Day \in 1 .. Periods /\ n < Day
    BY <1>1, <2>1 DEF n
  <2>5. /\ ExecutionSession(n) < ExecutionSession(Day)
        /\ ExecutionSession(n) \in Nat /\ ExecutionSession(Day) \in Nat
    BY <1>1, <2>4, SessionsDef
  <2> QED  BY <2>2, <2>3, <2>5 DEF RestsOnThePast
<1> QED  BY <1>2, <1>3

\* So does a new one.
LEMMA BatchAtDates ==
    ASSUME DatesInv, stage = "decide"
    PROVE  RestsOnThePast(BatchAt(DecisionSession(Day)), ExecutionSession(Day))
<1> DEFINE d == DecisionSession(Day)
           e == ExecutionSession(Day)
<1>1. IsSequence(decisions) /\ bars \in Seq(Bars) /\ bars # <<>>
      /\ Periods \in Nat \ {0} /\ Len(decisions) < Periods
  BY DEF DatesInv, IInv, DecisionsOK, CalendarOK, NotStarted
<1>2. Day \in 1 .. Periods
  BY <1>1 DEF Day, IsSequence
<1>3. d \in Nat /\ e \in Nat /\ d < e
  BY <1>1, <1>2, SessionsDef
<1> HIDE DEF d, e
<1>4. /\ BatchAt(d).labels = ForecastBatch(FeatureRows(bars), d).labels
      /\ BatchAt(d).inputs = ForecastBatch(FeatureRows(bars), d).inputs
      /\ BatchAt(d).at = d
  BY DEF BatchAt
<1>5. /\ \A x \in ForecastBatch(FeatureRows(bars), d).labels : x \in Nat /\ x + Embargo <= d
      /\ \A x \in ForecastBatch(FeatureRows(bars), d).inputs : x \in Nat /\ x <= d
  BY <1>1, <1>3, BatchDates
<1>6. \A x \in BatchAt(d).labels : x \in Nat /\ x + Embargo <= d /\ x < e
  BY <1>3, <1>4, <1>5, WalkForwardAssumption
<1>7. \A x \in BatchAt(d).inputs : x \in Nat /\ x < e
  BY <1>3, <1>4, <1>5
<1> QED  BY <1>4, <1>6, <1>7 DEF RestsOnThePast, d, e

LEMMA DecideDates ==
    ASSUME DatesInv, stage = "decide", NEW w, NEW batch, Decide(w, batch),
           RestsOnThePast(batch, ExecutionSession(Day))
    PROVE  CalendarOK' /\ BatchesOK'
<1> DEFINE n == Len(decisions)
<1>1. IsSequence(decisions) /\ bars \in Seq(Bars) /\ bars # <<>>
      /\ Periods \in Nat \ {0} /\ n < Periods
  BY DEF DatesInv, IInv, DecisionsOK, CalendarOK, NotStarted
<1> DEFINE x == [weights |-> w, batch |-> batch]
<1>2. decisions' = Append(decisions, x) /\ x.batch = batch
  BY DEF Decide
<1>3. stage' \in {"simulate", "decide"} /\ (stage' = "decide" => Day # Periods)
  BY DEF Decide
<1>4. UNCHANGED bars
  BY DEF Decide
<1>5. Periods' = Periods /\ \A i : ExecutionSession(i)' = ExecutionSession(i)
  BY <1>4 DEF Periods, AllSessions, ExecutionSession
<1> HIDE DEF x
<1>6. /\ n \in Nat /\ Len(decisions') = n + 1
      /\ \A i \in 1 .. n : decisions'[i] = decisions[i]
      /\ decisions'[n + 1] = x
  BY <1>1, <1>2, AppendSequence
<1>7. CalendarOK'
  BY <1>1, <1>3, <1>4, <1>5, <1>6 DEF CalendarOK, NotStarted, Day
<1>8. BatchesOK'
  <2> SUFFICES ASSUME NEW i \in 1 .. n + 1
               PROVE  RestsOnThePast(decisions'[i].batch, ExecutionSession(i))
    BY <1>5, <1>6 DEF BatchesOK, RestsOnThePast
  <2>1. CASE i = n + 1
    BY <1>2, <1>6, <2>1 DEF Day
  <2>2. CASE i # n + 1
    <3>1. i \in 1 .. n
      BY <1>6, <2>2
    <3> QED  BY <1>6, <3>1 DEF DatesInv, BatchesOK
  <2> QED  BY <2>1, <2>2
<1> QED  BY <1>7, <1>8

LEMMA NextDates == DatesInv /\ [Next]_vars => DatesInv'
<1> SUFFICES ASSUME DatesInv, [Next]_vars PROVE CalendarOK' /\ BatchesOK'
  BY NextIInv DEF DatesInv
<1>1. CASE LoadPublished \/ LoadFrozen
  <2>1. /\ stage = "load" /\ decisions' = decisions /\ Len(decisions) = 0
        /\ stage' \in NotStarted \cup {"decide"}
        /\ stage' = "decide" => LongEnough(bars')
    BY <1>1 DEF LoadPublished, LoadFrozen, DatesInv, CalendarOK, NotStarted
  <2>2. decisions = <<>>
    BY <2>1 DEF DatesInv, CalendarOK, NotStarted
  <2>3. bars' \in Seq(Bars)
    <3>1. bars' = bars \/ bars' = FrozenBars(bars)
      BY <1>1 DEF LoadPublished, LoadFrozen
    <3>2. bars \in Panels
      BY <2>1 DEF DatesInv, IInv, BarsOK
    <3> QED  BY <3>1, <3>2, FrozenType, BacktestAssumption DEF Bars
  <2>4. stage' = "decide" => bars' # <<>> /\ Periods' \in Nat \ {0}
    BY <2>1, <2>3, LongEnoughDef DEF Periods, AllSessions
  <2> QED  BY <2>1, <2>2, <2>3, <2>4 DEF CalendarOK, BatchesOK, NotStarted
<1>2. ASSUME NEW q \in SUBSET Symbols, NEW w \in Solutions, Retrain(q, w)
      PROVE  CalendarOK' /\ BatchesOK'
  <2> DEFINE kept == BuildTarget(q, w).blocked
             weights == IF kept THEN LastWeights ELSE BuildTarget(q, w).weights
             batch == IF kept THEN LastBatch ELSE BatchAt(DecisionSession(Day))
  <2>1. stage = "decide" /\ Decide(weights, batch)
    BY <1>2 DEF Retrain
  <2>2. RestsOnThePast(batch, ExecutionSession(Day))
    BY <2>1, LastBatchDates, BatchAtDates
  <2> HIDE DEF weights, batch
  <2> QED  BY <2>1, <2>2, DecideDates
<1>3. CASE HoldWeights
  BY <1>3, LastBatchDates, DecideDates DEF HoldWeights
<1>4. CASE \/ Trade \/ MissingPrice \/ FinishSimulation \/ ReuseHeadline \/ Report
           \/ NoForecastNow \/ UNCHANGED vars
           \/ \E q \in SUBSET Symbols, w \in Solutions : ForecastNow(q, w)
  <2>1. /\ UNCHANGED <<bars, decisions>>
        /\ \/ stage' = stage
           \/ stage \notin NotStarted /\ stage' \notin NotStarted \cup {"decide"}
    BY <1>4 DEF Trade, MissingPrice, FinishSimulation, ReuseHeadline, Report,
                NoForecastNow, ForecastNow, vars, NotStarted
  <2>2. Periods' = Periods /\ \A i : ExecutionSession(i)' = ExecutionSession(i)
    BY <2>1 DEF Periods, AllSessions, ExecutionSession
  <2>3. CalendarOK'
    BY <2>1, <2>2 DEF DatesInv, CalendarOK
  <2>4. BatchesOK'
    BY <2>1, <2>2 DEF DatesInv, BatchesOK, RestsOnThePast
  <2> QED  BY <2>3, <2>4
<1> QED  BY <1>1, <1>2, <1>3, <1>4 DEF Next

LEMMA AlwaysDates == Spec => []DatesInv
BY InitDates, NextDates, PTL DEF Spec

\* Whatever the bars, nothing that is traded at an open rests on what was known
\* only then or later, and no training label reaches into the embargo
\* (walk_forward.py: the split; engine.py: decide, then execute a session later).
THEOREM BacktestNeverLooksAhead == Spec => []NeverLooksAhead
<1>1. DatesInv => NeverLooksAhead
  <2> SUFFICES ASSUME DatesInv, NEW i \in DOMAIN decisions
               PROVE  /\ \A d \in decisions[i].batch.labels \cup decisions[i].batch.inputs :
                            d < ExecutionSession(i)
                      /\ \A d \in decisions[i].batch.labels :
                            d + Embargo <= decisions[i].batch.at
    BY DEF NeverLooksAhead
  <2>1. i \in 1 .. Len(decisions)
    BY DEF DatesInv, IInv, DecisionsOK, IsSequence
  <2> QED  BY <2>1 DEF DatesInv, BatchesOK, RestsOnThePast
<1> QED  BY <1>1, AlwaysDates, PTL
-----------------------------------------------------------------------------
(* What validated bars are good for *)

ValidOK == published /\ stage \notin NotStarted => ~QualityBlocked(bars)

\* Nothing is held before the first session; then what is held was traded at
\* the last one.
HeldOK ==
    /\ stage \in {"load", "decide"} => \A s \in Symbols : book.held[s] = 0
    /\ published /\ stage = "simulate" =>
          \A s \in Symbols :
              book.held[s] # 0 =>
                  /\ Len(charges) \in 1 .. Periods
                  /\ ExecutionSession(Len(charges)) \in SessionsOf(bars, s)

TradableInv == DatesInv /\ ValidOK /\ HeldOK /\ ValidatedBarsAreTradable

\* A symbol has a price at the sessions it has a bar at.
LEMMA QuotesPriced ==
    ASSUME BarsOK, NEW d, NEW field \in {"open", "close"}, NEW s \in Symbols
    PROVE  Quotes(d, field)[s] # NoPrice <=> d \in SessionsOf(bars, s)
<1>1. ASSUME d \in SessionsOf(bars, s)
      PROVE  prices[s][d][field] # NoPrice
  <2>1. PICK bar \in ToSet(bars) : bar.symbol = s /\ bar.session = d
    BY <1>1 DEF SessionsOf
  <2>2. PICK bs \in Panels : bar \in ToSet(bs)
    BY <2>1, FrozenType DEF BarsOK
  <2>3. prices[s][d].open # NoPrice /\ prices[s][d].close # NoPrice
    BY <2>1, <2>2, PricesAssumption DEF BarsOK
  <2> QED  BY <2>3
<1> QED  BY <1>1 DEF Quotes

\* A rebalance holds only what it has prices for.
LEMMA RebalanceHolds ==
    ASSUME NEW b, IsBook(b), NEW open \in [Symbols -> Nat], Priced(b, open),
           NEW weights, NEW whole, NEW bps, NEW stale, NEW s \in Symbols,
           open[s] = NoPrice
    PROVE  Rebalance(b, stale, weights, whole, open, bps).held[s] = 0
<1> DEFINE sought == TargetQuantities(weights, whole, MarkToMarket(b, open), open)
           fills == Fills(b.held, sought)
<1>1. Rebalance(b, stale, weights, whole, open, bps).held[s]
         = b.held[s] + Shares(fills, open)[s]
  BY DEF Rebalance, ApplyFills
<1>2. Shares(fills, open)[s] = 0
  BY DEF Shares
<1>3. b.held[s] = 0
  BY DEF Priced
<1> QED  BY <1>1, <1>2, <1>3

\* Bars that pass the gate have a bar of a symbol at every session from any of
\* its bars to the end.
LEMMA NoLaterGap ==
    ASSUME bars \in Seq(Bars), bars # <<>>, ~QualityBlocked(bars),
           NEW s \in Symbols, NEW d \in SessionsOf(bars, s),
           NEW e \in BarSessions(bars), d <= e
    PROVE  e \in SessionsOf(bars, s)
<1>1. /\ ~LatestSessionMismatch(bars) /\ ~IncompleteLatestSession(bars)
      /\ ~MissingSession(bars) /\ ~MissingUniverseSymbol(bars)
  BY DEF QualityBlocked
<1>2. LastSession(bars) = ExpectedLast /\ ExpectedLast \in SessionsOf(bars, s)
  BY <1>1 DEF LatestSessionMismatch, IncompleteLatestSession
<1>3. s \in Symbols \cap BarSymbols(bars)
  BY <1>1 DEF MissingUniverseSymbol
<1>4. d .. ExpectedLast \subseteq SessionsOf(bars, s)
  BY <1>1, <1>2, <1>3 DEF MissingSession
<1>5. SessionsOf(bars, s) \subseteq BarSessions(bars)
  BY DEF SessionsOf, BarSessions
<1>6. d \in Nat /\ e \in Nat /\ ExpectedLast \in Nat /\ e <= ExpectedLast
  BY <1>2, <1>5, LastSessionDef
<1> QED  BY <1>4, <1>6

\* At every session, what is held has a price at the open, and what is bought
\* one at the close.
LEMMA AlwaysPriced ==
    ASSUME TradableInv, published, stage = "simulate", Slot <= Periods,
           NEW next, next = Rebalance(book, last, Weights, Whole, Open, Sim.bps)
    PROVE  /\ Slot \in 1 .. Periods
           /\ Priced(book, Open) /\ Priced(next, Close)
           /\ \A s \in Symbols : next.held[s] # 0 =>
                 ExecutionSession(Slot) \in SessionsOf(bars, s)
<1>1. /\ bars \in Seq(Bars) /\ bars # <<>> /\ ~QualityBlocked(bars)
      /\ Periods \in Nat \ {0} /\ BarsOK /\ IsBook(book) /\ IsSequence(charges)
  BY DEF TradableInv, DatesInv, IInv, CalendarOK, ValidOK, NotStarted, BookOK, CurveOK
<1>2. Slot \in 1 .. Periods /\ Len(charges) \in Nat /\ Slot = Len(charges) + 1
  BY <1>1 DEF Slot, IsSequence
<1>3. Open \in [Symbols -> Nat]
  BY <1>1, QuotesType DEF Open
<1>4. \A s \in Symbols :
         /\ Open[s] # NoPrice <=> ExecutionSession(Slot) \in SessionsOf(bars, s)
         /\ Close[s] # NoPrice <=> ExecutionSession(Slot) \in SessionsOf(bars, s)
  BY <1>1, QuotesPriced DEF Open, Close
<1>5. Priced(book, Open)
  <2> SUFFICES ASSUME NEW s \in Symbols, book.held[s] # 0
               PROVE  ExecutionSession(Slot) \in SessionsOf(bars, s)
    BY <1>4 DEF Priced
  <2> DEFINE d == ExecutionSession(Len(charges))
             e == ExecutionSession(Slot)
  <2>1. Len(charges) \in 1 .. Periods /\ d \in SessionsOf(bars, s)
    BY DEF TradableInv, HeldOK
  <2>2. d \in Nat /\ e \in BarSessions(bars) /\ e \in Nat /\ d < e
    BY <1>1, <1>2, <2>1, SessionsDef
  <2> HIDE DEF d, e
  <2>3. d <= e
    BY <2>2
  <2>4. e \in SessionsOf(bars, s)
    BY <1>1, <2>1, <2>2, <2>3, NoLaterGap
  <2> QED  BY <2>4 DEF e
<1>6. \A s \in Symbols : next.held[s] # 0 => Open[s] # NoPrice
  BY <1>1, <1>3, <1>5, RebalanceHolds
<1> QED  BY <1>2, <1>4, <1>5, <1>6 DEF Priced

LEMMA InitTradable == Init => TradableInv
<1> SUFFICES ASSUME Init PROVE TradableInv
  OBVIOUS
<1>1. stage = "load"
  BY DEF Init
<1>2. \A s \in Symbols : book.held[s] = 0
  BY DEF Init, InitialBook
<1>3. ValidOK /\ HeldOK /\ ValidatedBarsAreTradable
  BY <1>1, <1>2 DEF ValidOK, HeldOK, ValidatedBarsAreTradable, NotStarted
<1> QED  BY <1>3, InitDates DEF TradableInv

LEMMA NextTradable == TradableInv /\ [Next]_vars => TradableInv'
<1> SUFFICES ASSUME TradableInv, [Next]_vars
             PROVE  ValidOK' /\ HeldOK' /\ ValidatedBarsAreTradable'
  BY NextDates DEF TradableInv
<1>1. CASE LoadPublished \/ LoadFrozen
  <2>1. /\ stage = "load" /\ stage' \in NotStarted \cup {"decide"}
        /\ UNCHANGED <<published, book>>
        /\ published /\ stage' = "decide" => ~QualityBlocked(bars) /\ bars' = bars
    BY <1>1 DEF LoadPublished, LoadFrozen, NotStarted, simVars
  <2>2. \A s \in Symbols : book.held[s] = 0
    BY <2>1 DEF TradableInv, HeldOK
  <2> QED  BY <2>1, <2>2 DEF ValidOK, HeldOK, ValidatedBarsAreTradable, NotStarted
<1>2. CASE \/ HoldWeights
           \/ \E q \in SUBSET Symbols, w \in Solutions : Retrain(q, w)
  <2>1. /\ stage = "decide" /\ stage' \in {"decide", "simulate"}
        /\ UNCHANGED <<published, bars, book>>
    BY <1>2 DEF HoldWeights, Retrain, Decide, simVars
  <2>2. \A s \in Symbols : book.held[s] = 0
    BY <2>1 DEF TradableInv, HeldOK
  <2>3. ValidOK' /\ ValidatedBarsAreTradable'
    BY <2>1 DEF TradableInv, ValidOK, ValidatedBarsAreTradable, NotStarted
  <2>4. HeldOK'
    BY <2>1, <2>2 DEF HeldOK
  <2> QED  BY <2>3, <2>4
<1>3. CASE Trade
  <2> DEFINE next == Rebalance(book, last, Weights, Whole, Open, Sim.bps)
  <2>1. /\ stage = "simulate" /\ stage' = stage /\ Slot <= Periods /\ book' = next
        /\ charges' = Append(charges, next.costs - book.costs)
        /\ UNCHANGED <<published, bars>>
    BY <1>3 DEF Trade
  <2> HIDE DEF next
  <2>2. ValidOK' /\ ValidatedBarsAreTradable'
    BY <2>1 DEF TradableInv, ValidOK, ValidatedBarsAreTradable, NotStarted
  <2>3. Len(charges') = Slot
    <3>1. IsSequence(charges)
      BY DEF TradableInv, DatesInv, IInv, CurveOK
    <3> QED  BY <2>1, <3>1, AppendSequence DEF Slot
  <2>4. published => /\ Slot \in 1 .. Periods
                     /\ \A s \in Symbols : next.held[s] # 0 =>
                           ExecutionSession(Slot) \in SessionsOf(bars, s)
    BY <2>1, AlwaysPriced DEF next
  <2>5. Periods' = Periods /\ ExecutionSession(Len(charges))' = ExecutionSession(Slot)
    BY <2>1, <2>3 DEF Periods, AllSessions, ExecutionSession
  <2>6. HeldOK'
    BY <2>1, <2>3, <2>4, <2>5 DEF HeldOK
  <2> QED  BY <2>2, <2>6
<1>4. CASE MissingPrice
  <2>1. ~published
    BY <1>4, AlwaysPriced DEF MissingPrice
  <2> QED  BY <1>4, <2>1 DEF MissingPrice, ValidOK, HeldOK, ValidatedBarsAreTradable
<1>5. CASE FinishSimulation
  <2>1. /\ stage = "simulate" /\ stage' \in {"simulate", "report"}
        /\ \A s \in Symbols : book'.held[s] = 0
        /\ UNCHANGED <<published, bars>>
    BY <1>5 DEF FinishSimulation, InitialBook
  <2>2. ValidOK' /\ ValidatedBarsAreTradable'
    BY <2>1 DEF TradableInv, ValidOK, ValidatedBarsAreTradable, NotStarted
  <2>3. HeldOK'
    BY <2>1 DEF HeldOK
  <2> QED  BY <2>2, <2>3
<1>6. CASE ReuseHeadline \/ UNCHANGED vars
  <2>1. UNCHANGED <<stage, published, bars, book, charges>>
    BY <1>6 DEF ReuseHeadline, vars, simVars
  <2> QED  BY <2>1 DEF TradableInv, ValidOK, HeldOK, ValidatedBarsAreTradable,
                       Periods, AllSessions, ExecutionSession
<1>7. CASE \/ Report \/ NoForecastNow
           \/ \E q \in SUBSET Symbols, w \in Solutions : ForecastNow(q, w)
  <2>1. /\ UNCHANGED <<published, bars>> /\ stage \notin NotStarted
        /\ stage' \in {"forecast", "forecast_blocked", "done"}
    BY <1>7 DEF Report, NoForecastNow, ForecastNow, NotStarted
  <2> QED  BY <2>1 DEF TradableInv, ValidOK, HeldOK, ValidatedBarsAreTradable
<1> QED  BY <1>1, <1>2, <1>3, <1>4, <1>5, <1>6, <1>7 DEF Next

LEMMA AlwaysTradable == Spec => []TradableInv
BY InitTradable, NextTradable, PTL DEF Spec

\* Whatever the prices, weights and cost levels, bars that pass the quality gate
\* never lead a simulation to a symbol without a price (quality.py: the rules;
\* engine.py: _run_sim's lookups).
THEOREM ValidatedRunsAreTradable == Spec => []ValidatedBarsAreTradable
<1>1. TradableInv => ValidatedBarsAreTradable
  BY DEF TradableInv
<1> QED  BY <1>1, AlwaysTradable, PTL
-----------------------------------------------------------------------------
(* The windows of a finished simulation *)

\* The windows before any number of them end at a multiple of their length.
Border(j) == j * WindowSessions

LEMMA BorderDef ==
    /\ Border(0) = 0
    /\ \A j \in Nat : /\ Border(j) \in Nat /\ j <= Border(j)
                      /\ Border(j + 1) = Border(j) + WindowSessions
    /\ \A j, k \in Nat : j <= k => Border(j) <= Border(k)
<1>1. WindowSessions \in Nat \ {0}
  BY BacktestAssumption
<1> DEFINE W == WindowSessions
<1> HIDE DEF W
<1>2. W \in Nat \ {0}
  BY <1>1 DEF W
<1>3. \A j \in Nat : j * W \in Nat /\ (j + 1) * W = j * W + W
  BY <1>2
<1>4. \A j, k \in Nat : j <= k => j * W <= k * W
  <2> TAKE j, k \in Nat
  <2> HAVE j <= k
  <2>1. W * j <= W * k
    BY <1>2, TimesMonotone
  <2>2. W * j = j * W /\ W * k = k * W
    BY <1>2
  <2> QED  BY <2>1, <2>2
<1>5. \A j \in Nat : j <= j * W
  <2> TAKE j \in Nat
  <2>1. j * 1 <= j * W
    BY <1>2, TimesMonotone
  <2> QED  BY <2>1
<1>6. 0 * W = 0
  BY <1>2
<1> QED  BY <1>3, <1>4, <1>5, <1>6 DEF Border, W

\* The windows of P sessions follow each other from the first on, none is
\* shorter than the least, and less than a least window is left out.
LEMMA WindowsDef ==
    ASSUME NEW P \in Nat, NEW n, n = WindowCount(P)
    PROVE  /\ n \in Nat
           /\ \A j \in 1 .. n :
                 /\ WindowStart(j) \in 0 .. P /\ WindowEnd(j, P) \in 1 .. P
                 /\ WindowEnd(j, P) - WindowStart(j) >= MinWindow
                 /\ WindowStart(j) = IF j = 1 THEN 0 ELSE WindowEnd(j - 1, P)
           /\ P - (IF n = 0 THEN 0 ELSE WindowEnd(n, P)) < MinWindow
<1> DEFINE T == {j \in 1 .. P : WindowEnd(j, P) - WindowStart(j) >= MinWindow}
<1>1. /\ MinWindow \in Nat \ {0} /\ WindowSessions \in Nat
      /\ WindowSessions >= MinWindow
  BY BacktestAssumption
<1>2. \A j \in 1 .. P :
         /\ WindowStart(j) = Border(j - 1)
         /\ WindowEnd(j, P) = IF Border(j) < P THEN Border(j) ELSE P
  BY DEF WindowStart, WindowEnd, Border
<1>3. \A j \in 1 .. P : /\ j \in Nat /\ j - 1 \in Nat /\ (j - 1) + 1 = j
                        /\ Border(j) = Border(j - 1) + WindowSessions
                        /\ Border(j) \in Nat /\ Border(j - 1) \in Nat
  <2>1. \A j \in 1 .. P : j \in Nat /\ j - 1 \in Nat /\ (j - 1) + 1 = j
    OBVIOUS
  <2>2. \A j \in Nat : Border(j) \in Nat /\ Border(j + 1) = Border(j) + WindowSessions
    BY BorderDef
  <2>3. \A j \in 1 .. P : Border((j - 1) + 1) = Border(j - 1) + WindowSessions
    BY <2>1, <2>2
  <2> QED  BY <2>1, <2>2, <2>3
<1>4. \A j \in T : Border(j - 1) < P
  BY <1>1, <1>2, <1>3
<1>5. ASSUME NEW m \in T, NEW k \in 1 .. m  PROVE k \in T
  <2>1. CASE k = m
    BY <2>1
  <2>2. CASE k # m
    <3>1. k \in 1 .. P /\ k \in Nat /\ m - 1 \in Nat /\ k <= m - 1
      BY <2>2
    <3>2. Border(k) <= Border(m - 1) /\ Border(m - 1) < P
      BY <1>4, <3>1, BorderDef
    <3>3. Border(k) < P
      BY <1>3, <3>1, <3>2
    <3> QED  BY <1>1, <1>2, <1>3, <3>1, <3>3
  <2> QED  BY <2>1, <2>2
<1>6. n = Cardinality(T)
  BY DEF WindowCount
<1>7. n \in 0 .. P /\ T = 1 .. n
  <2>1. T \in SUBSET (1 .. P)
    OBVIOUS
  <2> HIDE DEF T
  <2> QED  BY <1>5, <1>6, <2>1, NoGaps
<1>8. \A j \in 1 .. n :
         /\ j \in 1 .. P /\ Border(j - 1) < P
         /\ WindowEnd(j, P) - WindowStart(j) >= MinWindow
  BY <1>4, <1>7
<1> HIDE DEF T
<1>9. ASSUME NEW j \in 1 .. n
      PROVE  /\ WindowStart(j) \in 0 .. P /\ WindowEnd(j, P) \in 1 .. P
             /\ WindowEnd(j, P) - WindowStart(j) >= MinWindow
             /\ WindowStart(j) = IF j = 1 THEN 0 ELSE WindowEnd(j - 1, P)
  <2>1. j \in 1 .. P /\ WindowStart(j) = Border(j - 1) /\ Border(j - 1) < P
    BY <1>2, <1>8
  <2>2. WindowStart(j) \in 0 .. P /\ WindowEnd(j, P) \in 1 .. P
    BY <1>1, <1>2, <1>3, <1>8, <2>1
  <2>3. j = 1 => Border(j - 1) = 0
    BY BorderDef
  <2>4. j # 1 => WindowEnd(j - 1, P) = Border(j - 1)
    <3> HAVE j # 1
    <3>1. j - 1 \in 1 .. P
      BY <2>1
    <3> QED  BY <1>2, <2>1, <3>1
  <2> QED  BY <1>8, <2>1, <2>2, <2>3, <2>4
<1>10. P - (IF n = 0 THEN 0 ELSE WindowEnd(n, P)) < MinWindow
  <2>1. n \in Nat /\ Border(n) \in Nat /\ n <= Border(n) /\ Border(0) = 0
    BY <1>7, BorderDef
  <2>2. (IF n = 0 THEN 0 ELSE WindowEnd(n, P)) = IF Border(n) < P THEN Border(n) ELSE P
    <3>1. CASE n = 0
      BY <2>1, <3>1
    <3>2. CASE n # 0
      BY <1>2, <1>7, <3>2
    <3> QED  BY <3>1, <3>2
  <2>3. CASE Border(n) < P
    <3>1. n + 1 \in 1 .. P /\ n + 1 \notin 1 .. n /\ (n + 1) - 1 = n
      BY <2>1, <2>3
    <3>2. /\ WindowStart(n + 1) = Border(n)
          /\ WindowEnd(n + 1, P) = IF Border(n + 1) < P THEN Border(n + 1) ELSE P
      BY <1>2, <3>1
    <3>3. WindowEnd(n + 1, P) - WindowStart(n + 1) < MinWindow
      <4>1. ~ (WindowEnd(n + 1, P) - WindowStart(n + 1) >= MinWindow)
        BY <1>7, <3>1 DEF T
      <4>2. WindowEnd(n + 1, P) \in Int /\ WindowStart(n + 1) \in Int
        BY <1>3, <2>1, <3>1, <3>2
      <4> QED  BY <1>1, <4>1, <4>2
    <3>4. Border(n + 1) = Border(n) + WindowSessions
      BY <2>1, BorderDef
    <3> QED  BY <1>1, <2>1, <2>2, <2>3, <3>2, <3>3, <3>4
  <2>4. CASE ~ (Border(n) < P)
    BY <1>1, <2>2, <2>4
  <2> QED  BY <2>3, <2>4
<1> QED  BY <1>7, <1>9, <1>10

\* The costs of a range of sessions.
LEMMA SumOfDef ==
    ASSUME NEW P \in Nat, NEW c \in [1 .. P -> Int],
           NEW a \in 0 .. P, NEW b \in 0 .. P, a <= b
    PROVE  SumOf(c, a, b) = PartialSums(c, P)[b] - PartialSums(c, P)[a]
<1> DEFINE p == PartialSums(c, P)
           L == b - a
           f == [k \in 1 .. L |-> c[a + k]]
           g == [k \in 0 .. L |-> p[a + k]]
<1>1. p \in [0 .. P -> Int] /\ \A k \in 1 .. P : p[k] = p[k - 1] + c[k]
  BY PartialSumsDef
<1>2. SumOf(c, a, b) = SumTo(f, L)
  BY DEF SumOf
<1> HIDE DEF p
<1>3. L \in Nat /\ f \in [1 .. L -> Int] /\ g \in [0 .. L -> Int]
  <2>1. L \in Nat
    OBVIOUS
  <2>2. \A k \in 0 .. L : a + k \in 0 .. P
    OBVIOUS
  <2>3. \A k \in 1 .. L : a + k \in 1 .. P
    OBVIOUS
  <2> HIDE DEF L
  <2> QED  BY <1>1, <2>1, <2>2, <2>3
<1>4. g[L] = p[b] /\ g[0] = p[a]
  BY <1>3
<1>5. \A k \in 1 .. L : f[k] = g[k] - g[k - 1]
  <2> TAKE k \in 1 .. L
  <2>1. /\ a + k \in 1 .. P /\ k \in 0 .. L /\ k - 1 \in 0 .. L
        /\ a + (k - 1) = (a + k) - 1 /\ (a + k) - 1 \in 0 .. P
    OBVIOUS
  <2>2. p[a + k] = p[(a + k) - 1] + c[a + k] /\ p[(a + k) - 1] \in Int /\ c[a + k] \in Int
    BY <1>1, <2>1
  <2>3. f[k] = c[a + k] /\ g[k] = p[a + k] /\ g[k - 1] = p[(a + k) - 1]
    BY <2>1
  <2> HIDE DEF f, g
  <2> QED  BY <2>2, <2>3
<1> HIDE DEF f, g, L
<1>6. SumTo(f, L) = g[L] - g[0]
  BY <1>3, <1>5, SumTelescopes
<1> QED  BY <1>2, <1>4, <1>6 DEF p

\* With what is left out, the windows' costs add up to all costs.
LEMMA WindowCostsAddUp ==
    ASSUME NEW P \in Nat, NEW c \in [1 .. P -> Int], NEW n, n = WindowCount(P),
           NEW covered, covered = IF n = 0 THEN 0 ELSE WindowEnd(n, P)
    PROVE  SumTo([j \in 1 .. n |-> SumOf(c, WindowStart(j), WindowEnd(j, P))], n)
              + SumOf(c, covered, P) = SumTo(c, P)
<1> DEFINE p == PartialSums(c, P)
           End(j) == IF j = 0 THEN 0 ELSE WindowEnd(j, P)
           f == [j \in 1 .. n |-> SumOf(c, WindowStart(j), WindowEnd(j, P))]
           g == [j \in 0 .. n |-> p[End(j)]]
<1>1. p \in [0 .. P -> Int] /\ p[0] = 0
  BY PartialSumsDef
<1>2. /\ n \in Nat
      /\ \A j \in 1 .. n :
            /\ WindowStart(j) \in 0 .. P /\ WindowEnd(j, P) \in 1 .. P
            /\ WindowEnd(j, P) - WindowStart(j) >= MinWindow
            /\ WindowStart(j) = IF j = 1 THEN 0 ELSE WindowEnd(j - 1, P)
  BY WindowsDef
<1>3. \A j \in 0 .. n : End(j) \in 0 .. P
  BY <1>2
<1>4. covered \in 0 .. P /\ covered = End(n)
  BY <1>2
<1>5. ASSUME NEW j \in 1 .. n
      PROVE  f[j] = p[End(j)] - p[End(j - 1)]
  <2>1. WindowStart(j) = End(j - 1) /\ WindowEnd(j, P) = End(j)
    BY <1>2
  <2>2. /\ WindowStart(j) \in 0 .. P /\ WindowEnd(j, P) \in 0 .. P
        /\ WindowStart(j) <= WindowEnd(j, P)
    BY <1>2, BacktestAssumption
  <2>3. SumOf(c, WindowStart(j), WindowEnd(j, P)) = p[WindowEnd(j, P)] - p[WindowStart(j)]
    BY <2>2, SumOfDef
  <2> HIDE DEF p
  <2> QED  BY <2>1, <2>3
<1> HIDE DEF p
<1>6. g \in [0 .. n -> Int] /\ f \in [1 .. n -> Int]
  <2>1. \A j \in 0 .. n : p[End(j)] \in Int
    BY <1>1, <1>3
  <2>2. g \in [0 .. n -> Int]
    BY <2>1
  <2>3. \A j \in 1 .. n : f[j] \in Int
    <3> TAKE j \in 1 .. n
    <3>1. j \in 0 .. n /\ j - 1 \in 0 .. n
      BY <1>2
    <3>2. p[End(j)] \in Int /\ p[End(j - 1)] \in Int
      BY <2>1, <3>1
    <3>3. f[j] = p[End(j)] - p[End(j - 1)]
      BY <1>5
    <3> HIDE DEF f, End
    <3> QED  BY <3>2, <3>3
  <2> QED  BY <2>2, <2>3
<1>7. \A j \in 1 .. n : f[j] = g[j] - g[j - 1]
  <2> TAKE j \in 1 .. n
  <2>1. j \in 0 .. n /\ j - 1 \in 0 .. n
    BY <1>2
  <2>2. g[j] = p[End(j)] /\ g[j - 1] = p[End(j - 1)]
    BY <2>1
  <2> HIDE DEF f, g, End
  <2> QED  BY <1>5, <2>2
<1>8. g[n] = p[covered] /\ g[0] = 0
  BY <1>1, <1>2, <1>4
<1>9. SumTo(f, n) = g[n] - g[0]
  <2> HIDE DEF f, g
  <2> QED  BY <1>2, <1>6, <1>7, SumTelescopes
<1>10. SumOf(c, covered, P) = p[P] - p[covered]
  <2>1. covered <= P /\ P \in 0 .. P
    BY <1>4
  <2> QED  BY <1>4, <2>1, SumOfDef DEF p
<1>11. p[covered] \in Int /\ p[P] \in Int
  BY <1>1, <1>4
<1>12. SumTo(f, n) + SumOf(c, covered, P) = p[P]
  <2> HIDE DEF f, g
  <2> QED  BY <1>8, <1>9, <1>10, <1>11
<1> QED  BY <1>12 DEF SumTo, p
-----------------------------------------------------------------------------
(* The headline and its windows *)

\* A finished simulation of this run: one cost per session, one point more.
Finished(r) ==
    /\ r.charges \in Seq(Int) /\ Len(r.charges) = Periods
    /\ r.curve[1] = InitialEquity * Unit
    /\ r.total_costs = SumTo(r.charges, Periods)

\* The simulation under way has been charged what it reports.
ChargesOK ==
    /\ charges \in Seq(Int) /\ book.costs = SumTo(charges, Len(charges))
    /\ curve[1] = InitialEquity * Unit

\* Once the first simulation is over, its result is the first.
ResultsOK ==
    /\ stage \in NotStarted \cup {"decide"} => sim = 1
    /\ stage \in {"report", "forecast", "done", "forecast_blocked"} => sim > 1
    /\ sim = 1 => results = <<>>
    /\ sim > 1 => /\ IsSequence(results) /\ results # <<>>
                  /\ Finished(results[1])

WindowsOK ==
    stage \in {"forecast", "done", "forecast_blocked"} =>
        windows = EvaluationWindows(results[1])

WindowsInv == DatesInv /\ ChargesOK /\ ResultsOK /\ WindowsOK

\* The sessions between two are those executed between them.
LEMMA SessionsBetween ==
    ASSUME bars \in Seq(Bars), bars # <<>>, Periods \in Nat \ {0},
           NEW a \in 0 .. Periods, NEW b \in 1 .. Periods, a < b
    PROVE  Cardinality({k \in 1 .. Periods :
                  ExecutionSession(k) \in ExecutionSession(a + 1) .. ExecutionSession(b)})
              = b - a
<1> DEFINE K == {k \in 1 .. Periods :
                  ExecutionSession(k) \in ExecutionSession(a + 1) .. ExecutionSession(b)}
<1>1. /\ \A k \in 1 .. Periods : ExecutionSession(k) \in Nat
      /\ \A j, k \in 1 .. Periods : j < k => ExecutionSession(j) < ExecutionSession(k)
  BY SessionsDef
<1>2. a + 1 \in 1 .. Periods
  OBVIOUS
<1>3. \A j, k \in 1 .. Periods : j <= k <=> ExecutionSession(j) <= ExecutionSession(k)
  <2> TAKE j, k \in 1 .. Periods
  <2>1. j < k \/ j = k \/ k < j
    OBVIOUS
  <2> QED  BY <1>1, <2>1
<1>4. K = a + 1 .. b
  <2>1. \A k \in 1 .. Periods : k \in K <=> a + 1 <= k /\ k <= b
    BY <1>1, <1>2, <1>3
  <2>2. a + 1 .. b \subseteq 1 .. Periods
    OBVIOUS
  <2>3. K \subseteq 1 .. Periods
    OBVIOUS
  <2>4. \A k : k \in a + 1 .. b => a + 1 <= k /\ k <= b
    OBVIOUS
  <2>5. \A k \in 1 .. Periods : a + 1 <= k /\ k <= b => k \in a + 1 .. b
    OBVIOUS
  <2> HIDE DEF K
  <2>6. K \subseteq a + 1 .. b
    BY <2>1, <2>3, <2>5
  <2>7. a + 1 .. b \subseteq K
    BY <2>1, <2>2, <2>4
  <2> QED  BY <2>6, <2>7
<1>5. Cardinality(a + 1 .. b) = b - a
  <2>1. a + 1 \in Int /\ b \in Int /\ ~ (a + 1 > b) /\ b - (a + 1) + 1 = b - a
    OBVIOUS
  <2> QED  BY <2>1, FS_Interval
<1> QED  BY <1>4, <1>5

\* What WindowsTile says of a result and its windows.
Tiles(r, ws) ==
    LET n == Len(ws)
        periods == Len(r.charges)
        exported == EquityCurve(r)
        covered == IF n = 0 THEN 0 ELSE ws[n].end IN
    /\ \A j \in 1 .. n :
          /\ ws[j].end - ws[j].start >= MinWindow
          /\ ws[j].start = (IF j = 1 THEN 0 ELSE ws[j - 1].end)
          /\ ws[j].initial = (IF j = 1 THEN InitialEquity * Unit ELSE ws[j - 1].final)
          /\ exported[ws[j].end] =
                [session |-> ws[j].end_session, equity |-> ws[j].final]
          /\ Cardinality({k \in 1 .. periods : exported[k].session \in
                     ws[j].start_session .. ws[j].end_session})
                = ws[j].end - ws[j].start
    /\ periods - covered < MinWindow
    /\ covered = periods => n > 0 /\ ws[n].final = r.curve[periods + 1]
    /\ SumTo([j \in 1 .. n |-> ws[j].costs], n) + SumOf(r.charges, covered, periods)
          = r.total_costs

\* The windows reported from a finished simulation tile it.
LEMMA WindowsTileIt ==
    ASSUME bars \in Seq(Bars), bars # <<>>, Periods \in Nat \ {0},
           NEW r, Finished(r)
    PROVE  Tiles(r, EvaluationWindows(r))
<1> DEFINE ws == EvaluationWindows(r)
<1> DEFINE P == Periods
           n == WindowCount(P)
           S(j) == WindowStart(j)
           E(j) == WindowEnd(j, P)
           exported == EquityCurve(r)
           covered == IF n = 0 THEN 0 ELSE E(n)
<1>1. /\ P \in Nat \ {0} /\ Len(r.charges) = P /\ DOMAIN r.charges = 1 .. P
      /\ r.charges \in [1 .. P -> Int] /\ r.curve[1] = InitialEquity * Unit
      /\ r.total_costs = SumTo(r.charges, P)
  BY DEF Finished
<1>2. /\ n \in Nat
      /\ \A j \in 1 .. n :
            /\ S(j) \in 0 .. P /\ E(j) \in 1 .. P /\ E(j) - S(j) >= MinWindow
            /\ S(j) = IF j = 1 THEN 0 ELSE E(j - 1)
      /\ P - covered < MinWindow
  <2>1. P \in Nat
    BY <1>1
  <2> QED  BY <2>1, WindowsDef
<1>3. ws = [j \in 1 .. n |-> Metrics(r, S(j), E(j))]
  BY <1>1 DEF EvaluationWindows
<1> HIDE DEF ws
<1>4. MinWindow \in Nat \ {0}
  BY BacktestAssumption
<1>5. \A k \in 1 .. P : exported[k] = [session |-> ExecutionSession(k),
                                       equity |-> r.curve[k + 1]]
  BY <1>1 DEF EquityCurve
<1> HIDE DEF P, n, S, E, exported
<1>6. \A j \in 1 .. n : /\ ws[j].start = S(j) /\ ws[j].end = E(j)
                        /\ ws[j].start_session = ExecutionSession(S(j) + 1)
                        /\ ws[j].end_session = ExecutionSession(E(j))
                        /\ ws[j].initial = r.curve[S(j) + 1]
                        /\ ws[j].final = r.curve[E(j) + 1]
                        /\ ws[j].costs = SumOf(r.charges, S(j), E(j))
  BY <1>3 DEF Metrics
<1>7. Len(ws) = n
  BY <1>2, <1>3
<1>8. ASSUME NEW j \in 1 .. n
      PROVE  /\ ws[j].end - ws[j].start >= MinWindow
             /\ ws[j].start = (IF j = 1 THEN 0 ELSE ws[j - 1].end)
             /\ ws[j].initial = (IF j = 1 THEN InitialEquity * Unit ELSE ws[j - 1].final)
             /\ exported[ws[j].end] =
                   [session |-> ws[j].end_session, equity |-> ws[j].final]
             /\ Cardinality({k \in 1 .. P : exported[k].session \in
                        ws[j].start_session .. ws[j].end_session})
                   = ws[j].end - ws[j].start
  <2>1. j # 1 => j - 1 \in 1 .. n
    BY <1>2
  <2>2. /\ ws[j].end - ws[j].start >= MinWindow
        /\ ws[j].start = (IF j = 1 THEN 0 ELSE ws[j - 1].end)
    <3>1. E(j) - S(j) >= MinWindow /\ S(j) = IF j = 1 THEN 0 ELSE E(j - 1)
      BY <1>2
    <3>2. j # 1 => ws[j - 1].end = E(j - 1)
      BY <1>6, <2>1
    <3>3. ws[j].start = S(j) /\ ws[j].end = E(j)
      BY <1>6
    <3> QED  BY <3>1, <3>2, <3>3
  <2>3. ws[j].initial = (IF j = 1 THEN InitialEquity * Unit ELSE ws[j - 1].final)
    <3>1. CASE j = 1
      <4>1. S(j) + 1 = 1
        BY <1>2, <3>1
      <4> QED  BY <1>1, <1>6, <3>1, <4>1
    <3>2. CASE j # 1
      <4>1. S(j) = E(j - 1)
        BY <1>2, <3>2
      <4> QED  BY <1>6, <2>1, <3>2, <4>1
    <3> QED  BY <3>1, <3>2
  <2>4. exported[ws[j].end] = [session |-> ws[j].end_session, equity |-> ws[j].final]
    BY <1>2, <1>5, <1>6
  <2>5. Cardinality({k \in 1 .. P : ExecutionSession(k) \in
                        ExecutionSession(S(j) + 1) .. ExecutionSession(E(j))})
           = E(j) - S(j)
    <3>1. S(j) \in 0 .. P /\ E(j) \in 1 .. P /\ S(j) < E(j)
      BY <1>2, <1>4
    <3> QED  BY <3>1, SessionsBetween DEF P
  <2>6. {k \in 1 .. P : exported[k].session \in ws[j].start_session .. ws[j].end_session}
           = {k \in 1 .. P : ExecutionSession(k) \in
                 ExecutionSession(S(j) + 1) .. ExecutionSession(E(j))}
    <3>1. \A k \in 1 .. P : exported[k].session = ExecutionSession(k)
      <4> TAKE k \in 1 .. P
      <4> DEFINE point == [session |-> ExecutionSession(k), equity |-> r.curve[k + 1]]
      <4>1. exported[k] = point /\ point.session = ExecutionSession(k)
        BY <1>5
      <4> QED  BY <4>1
    <3> QED  BY <1>6, <3>1
  <2> QED  BY <1>6, <2>2, <2>3, <2>4, <2>5, <2>6
<1>9. (IF n = 0 THEN 0 ELSE ws[n].end) = covered
  BY <1>2, <1>6
<1>10. covered = P => n > 0 /\ ws[n].final = r.curve[P + 1]
  <2> HAVE covered = P
  <2>1. n # 0 /\ E(n) = P
    BY <1>1
  <2>2. n > 0 /\ n \in 1 .. n
    BY <1>2, <2>1
  <2> QED  BY <1>6, <2>1, <2>2
<1>11. SumTo([j \in 1 .. n |-> ws[j].costs], n) + SumOf(r.charges, covered, P)
          = r.total_costs
  <2>1. [j \in 1 .. n |-> ws[j].costs] = [j \in 1 .. n |-> SumOf(r.charges, S(j), E(j))]
    BY <1>6
  <2>2. SumTo([j \in 1 .. n |-> SumOf(r.charges, S(j), E(j))], n)
           + SumOf(r.charges, covered, P) = SumTo(r.charges, P)
    <3>1. P \in Nat
      BY <1>1
    <3> QED  BY <1>1, <3>1, WindowCostsAddUp DEF n, S, E
  <2> QED  BY <1>1, <2>1, <2>2
<1> QED  BY <1>1, <1>2, <1>7, <1>8, <1>9, <1>10, <1>11 DEF exported, Tiles, ws

\* No costs, no total.
LEMMA EmptySum == <<>> \in Seq(Int) /\ Len(<<>>) = 0 /\ SumTo(<<>>, 0) = 0
<1>1. <<>> \in Seq(Int) /\ Len(<<>>) = 0
  OBVIOUS
<1>2. \A f \in Seq(Int) : Len(f) = 0 => f \in [1 .. 0 -> Int]
  OBVIOUS
<1>3. <<>> \in [1 .. 0 -> Int]
  BY <1>1, <1>2
<1>4. 0 \in Nat
  OBVIOUS
<1>5. PartialSums(<<>>, 0)[0] = 0
  BY <1>3, <1>4, PartialSumsDef
<1> QED  BY <1>1, <1>5 DEF SumTo

LEMMA InitWindows == Init => WindowsInv
<1> SUFFICES ASSUME Init PROVE WindowsInv
  OBVIOUS
<1> DEFINE e == InitialEquity * Unit
<1>1. /\ stage = "load" /\ sim = 1 /\ charges = <<>> /\ results = <<>>
      /\ book = InitialBook(e) /\ curve = <<e>>
  BY DEF Init
<1>2. InitialBook(e).costs = 0
  BY DEF InitialBook
<1> HIDE DEF e
<1>3. curve[1] = e
  BY <1>1
<1>4. ChargesOK
  BY <1>1, <1>2, <1>3, EmptySum DEF ChargesOK, e
<1>5. ResultsOK /\ WindowsOK
  BY <1>1 DEF ResultsOK, WindowsOK, NotStarted
<1> QED  BY <1>4, <1>5, InitDates DEF WindowsInv

\* A session's cost is charged to the book and kept.
LEMMA TradeCharges ==
    ASSUME DatesInv, ChargesOK, Trade PROVE ChargesOK'
<1> DEFINE next == Rebalance(book, last, Weights, Whole, Open, Sim.bps)
           n == Len(charges)
           x == next.costs - book.costs
<1>1. /\ stage = "simulate" /\ Slot <= Periods /\ Priced(book, Open)
      /\ book' = next /\ charges' = Append(charges, x)
      /\ curve' = Append(curve, MarkToMarket(next, Close))
  BY DEF Trade
<1>2. x \in Nat /\ next.costs \in Nat
  <2> HIDE DEF next
  <2>1. IsBook(next) /\ next.costs - book.costs \in Nat
    BY <1>1, TradeBook DEF DatesInv, next
  <2> QED  BY <2>1 DEF IsBook
<1>3. /\ charges \in Seq(Int) /\ book.costs = SumTo(charges, n) /\ n \in Nat
      /\ curve[1] = InitialEquity * Unit /\ book.costs \in Nat
  BY DEF ChargesOK, DatesInv, IInv, BookOK, IsBook
<1> HIDE DEF next, n
<1>4. next.costs = book.costs + x
  BY <1>2, <1>3
<1> HIDE DEF x
<1>5. /\ charges' \in Seq(Int) /\ Len(charges') = n + 1
      /\ charges' \in [1 .. n + 1 -> Int] /\ charges \in [1 .. n -> Int]
      /\ \A k \in 1 .. n : charges[k] = charges'[k]
      /\ charges'[n + 1] = x
  <2>1. x \in Int
    BY <1>2
  <2>2. charges' \in Seq(Int) /\ Len(charges') = n + 1 /\ charges'[n + 1] = x
    BY <1>1, <1>3, <2>1 DEF n
  <2>3. \A k \in 1 .. n : charges[k] = charges'[k]
    BY <1>1, <1>3, <2>1 DEF n
  <2>4. \A c \in Seq(Int) : c \in [1 .. Len(c) -> Int]
    OBVIOUS
  <2>5. charges' \in [1 .. n + 1 -> Int]
    BY <2>2, <2>4
  <2>6. charges \in [1 .. n -> Int]
    BY <1>3, <2>4 DEF n
  <2> QED  BY <2>2, <2>3, <2>5, <2>6
<1>6. SumTo(charges', n + 1) = SumTo(charges, n) + x
  BY <1>3, <1>5, SumExtend
<1>7. curve'[1] = curve[1]
  <2>1. IsSequence(curve) /\ Len(curve) = n + 1
    BY DEF DatesInv, IInv, CurveOK, n
  <2>2. 1 \in 1 .. Len(curve)
    BY <1>3, <2>1
  <2> QED  BY <1>1, <2>1, <2>2, AppendSequence
<1> QED  BY <1>1, <1>3, <1>4, <1>5, <1>6, <1>7 DEF ChargesOK

\* The first simulation to end becomes the headline.
LEMMA FinishResults ==
    ASSUME WindowsInv, FinishSimulation PROVE ChargesOK' /\ ResultsOK'
<1> DEFINE e == InitialEquity * Unit
           x == [curve |-> curve, charges |-> charges, total_costs |-> book.costs]
<1>1. /\ stage = "simulate" /\ Slot = Periods + 1 /\ sim' = sim + 1
      /\ results' = Append(results, x)
      /\ stage' = IF sim = Len(Sims) THEN "report" ELSE "simulate"
      /\ book' = InitialBook(e) /\ curve' = <<e>> /\ charges' = <<>>
      /\ UNCHANGED bars
  BY DEF FinishSimulation
<1>2. ChargesOK'
  <2>1. InitialBook(e).costs = 0
    BY DEF InitialBook
  <2> HIDE DEF e
  <2>2. curve'[1] = e
    BY <1>1
  <2> QED  BY <1>1, <2>1, <2>2, EmptySum DEF ChargesOK, e
<1>3. sim \in Nat \ {0} /\ sim' > 1 /\ sim' # 1
  BY <1>1, SimsDef DEF WindowsInv, DatesInv, IInv, SimOK
<1>4. Periods' = Periods
  BY <1>1 DEF Periods, AllSessions
<1>5. Finished(x)
  <2>1. charges \in Seq(Int) /\ book.costs = SumTo(charges, Len(charges))
        /\ curve[1] = InitialEquity * Unit
    BY DEF WindowsInv, ChargesOK
  <2>2. Periods \in Nat
    BY <1>1 DEF WindowsInv, DatesInv, CalendarOK, NotStarted
  <2>3. Len(charges) = Periods
    BY <1>1, <2>1, <2>2 DEF Slot
  <2> QED  BY <2>1, <2>3 DEF Finished
<1> HIDE DEF x
<1>6. /\ IsSequence(results') /\ results' # <<>>
      /\ results'[1] = IF sim = 1 THEN x ELSE results[1]
  <2>1. CASE sim = 1
    <3>1. results = <<>> /\ IsSequence(<<>>) /\ Len(<<>>) = 0
      <4>1. \A S : <<>> \in Seq(S) /\ Len(<<>>) = 0
        OBVIOUS
      <4> QED  BY <2>1, <4>1 DEF WindowsInv, ResultsOK, IsSequence
    <3>2. results' = Append(<<>>, x)
      BY <1>1, <3>1
    <3>3. /\ IsSequence(results') /\ Len(results') = Len(<<>>) + 1
          /\ results'[Len(<<>>) + 1] = x
      BY <3>1, <3>2, AppendSequence, Zenon
    <3>4. results' # <<>> /\ results'[1] = x
      BY <3>1, <3>3
    <3> QED  BY <2>1, <3>3, <3>4
  <2>2. CASE sim # 1
    <3>1. IsSequence(results) /\ results # <<>>
      BY <1>3, <2>2 DEF WindowsInv, ResultsOK
    <3>2. 1 \in 1 .. Len(results)
      BY <3>1 DEF IsSequence
    <3> QED  BY <1>1, <2>2, <3>1, <3>2, AppendSequence
  <2> QED  BY <2>1, <2>2
<1>7. Finished(results[1])'
  <2>1. sim # 1 => Finished(results[1])
    BY <1>3 DEF WindowsInv, ResultsOK
  <2>2. Finished(results'[1])
    BY <1>5, <1>6, <2>1
  <2> QED  BY <1>4, <2>2 DEF Finished
<1>8. ResultsOK'
  BY <1>1, <1>3, <1>6, <1>7 DEF ResultsOK, NotStarted
<1> QED  BY <1>2, <1>8

LEMMA NextWindows == WindowsInv /\ [Next]_vars => WindowsInv'
<1> SUFFICES ASSUME WindowsInv, [Next]_vars
             PROVE  ChargesOK' /\ ResultsOK' /\ WindowsOK'
  BY NextDates DEF WindowsInv
<1>1. CASE \/ LoadPublished \/ LoadFrozen \/ HoldWeights
           \/ \E q \in SUBSET Symbols, w \in Solutions : Retrain(q, w)
  <2>1. /\ stage \in {"load", "decide"}
        /\ stage' \in NotStarted \cup {"decide", "simulate"}
        /\ UNCHANGED <<sim, book, curve, charges, results>>
    BY <1>1 DEF LoadPublished, LoadFrozen, HoldWeights, Retrain, Decide, simVars, NotStarted
  <2>2. sim = 1 /\ results = <<>>
    BY <2>1 DEF WindowsInv, ResultsOK, NotStarted
  <2> QED  BY <2>1, <2>2 DEF WindowsInv, ChargesOK, ResultsOK, WindowsOK, NotStarted
<1>2. CASE Trade
  <2>1. ChargesOK'
    BY <1>2, TradeCharges DEF WindowsInv
  <2>2. stage = "simulate" /\ UNCHANGED <<stage, sim, results, bars, windows>>
    BY <1>2 DEF Trade
  <2> QED  BY <2>1, <2>2 DEF WindowsInv, ResultsOK, WindowsOK, Finished, Periods, AllSessions
<1>3. CASE FinishSimulation
  <2>1. stage' \in {"report", "simulate"}
    BY <1>3 DEF FinishSimulation
  <2> QED  BY <1>3, <2>1, FinishResults DEF WindowsOK
<1>4. CASE ReuseHeadline
  <2>1. /\ stage = "simulate" /\ stage' = "simulate" /\ sim' = sim + 1 /\ 1 < sim
        /\ results' = Append(results, results[1])
        /\ UNCHANGED <<book, curve, charges, bars>>
    BY <1>4 DEF ReuseHeadline, Reused, simVars
  <2>2. sim \in Nat
    BY SimsDef DEF WindowsInv, DatesInv, IInv, SimOK
  <2>3. IsSequence(results) /\ results # <<>> /\ Finished(results[1])
    BY <2>1 DEF WindowsInv, ResultsOK
  <2>4. 1 \in 1 .. Len(results)
    BY <2>3 DEF IsSequence
  <2>5. IsSequence(results') /\ results' # <<>> /\ results'[1] = results[1]
    BY <2>1, <2>3, <2>4, AppendSequence
  <2>6. Finished(results[1])'
    BY <2>1, <2>3, <2>5 DEF Finished, Periods, AllSessions
  <2> QED  BY <2>1, <2>2, <2>5, <2>6
              DEF WindowsInv, ChargesOK, ResultsOK, WindowsOK, NotStarted
<1>5. CASE \/ MissingPrice \/ Report \/ NoForecastNow \/ UNCHANGED vars
           \/ \E q \in SUBSET Symbols, w \in Solutions : ForecastNow(q, w)
  <2>1. UNCHANGED <<sim, book, curve, charges, results, bars>>
    BY <1>5 DEF MissingPrice, Report, NoForecastNow, ForecastNow, vars, simVars
  <2>2. ChargesOK' /\ (sim > 1 => Finished(results[1])')
    BY <2>1 DEF WindowsInv, ChargesOK, ResultsOK, Finished, Periods, AllSessions
  <2>3. \/ stage = "simulate" /\ stage' = "no_price"
        \/ stage \in {"report", "forecast"} /\ stage' \in {"forecast", "forecast_blocked", "done"}
        \/ stage' = stage
    BY <1>5 DEF MissingPrice, Report, NoForecastNow, ForecastNow, vars
  <2>4. ResultsOK'
    BY <2>1, <2>2, <2>3 DEF WindowsInv, ResultsOK, NotStarted
  <2>5. CASE Report
    <3>1. windows' = EvaluationWindows(results[1])
      BY <2>5 DEF Report
    <3>2. EvaluationWindows(results[1])' = EvaluationWindows(results[1])
      BY <2>1 DEF EvaluationWindows, Metrics, ExecutionSession, AllSessions
    <3> QED  BY <2>2, <2>4, <3>1, <3>2 DEF WindowsOK
  <2>6. CASE ~Report
    <3>1. /\ windows' = windows
          /\ stage' \in {"forecast", "done", "forecast_blocked"} =>
                stage \in {"forecast", "done", "forecast_blocked"}
      BY <1>5, <2>6 DEF MissingPrice, NoForecastNow, ForecastNow, vars
    <3>2. EvaluationWindows(results[1])' = EvaluationWindows(results[1])
      BY <2>1 DEF EvaluationWindows, Metrics, ExecutionSession, AllSessions
    <3> QED  BY <2>2, <2>4, <3>1, <3>2 DEF WindowsInv, WindowsOK
  <2> QED  BY <2>5, <2>6
<1> QED  BY <1>1, <1>2, <1>3, <1>4, <1>5 DEF Next

LEMMA AlwaysWindows == Spec => []WindowsInv
BY InitWindows, NextWindows, PTL DEF Spec

\* The reported windows tile the headline backtest, whatever its length and the
\* length of a window: their ends meet, their sessions and their costs add up,
\* and they end at points of the exported curve (engine.py: the evaluation
\* windows and compute_equity_curve).
THEOREM BacktestWindowsTile == Spec => []WindowsTile
<1>1. WindowsInv => WindowsTile
  <2> SUFFICES ASSUME WindowsInv, stage \in {"forecast", "done", "forecast_blocked"}
               PROVE  WindowsTile
    BY DEF WindowsTile
  <2>1. bars \in Seq(Bars) /\ bars # <<>> /\ Periods \in Nat \ {0}
    BY DEF WindowsInv, DatesInv, CalendarOK, NotStarted
  <2>2. Finished(results[1]) /\ windows = EvaluationWindows(results[1])
    BY DEF WindowsInv, ResultsOK, WindowsOK
  <2>3. Tiles(results[1], windows)
    BY <2>1, <2>2, WindowsTileIt
  <2> QED  BY <2>3 DEF WindowsTile, Tiles
<1> QED  BY <1>1, AlwaysWindows, PTL
=============================================================================
