------------------------------ MODULE Backtest ------------------------------
(***************************************************************************)
(* A research run: run_research (src/src/mltrade/workflows/research.py) on *)
(* a published snapshot, or run_real_research (workflows/research_real.py) *)
(* on the frozen panel, around run_backtest (backtest/engine.py).  The     *)
(* walk-forward decisions are made once, then replayed by one simulation   *)
(* per cost level and by the equal-weight baseline; then the windows are   *)
(* reported and the forecast of the last session makes the target.  The    *)
(* run is sequential; what it cannot know is the bars it is given, their   *)
(* prices, and what the model predicts and the solver answers.             *)
(***************************************************************************)
EXTENDS BarQuality, WalkForward, Optimizer

CONSTANTS Panels,         \* the bars a run may be given
          Paths,          \* their prices: symbol -> session -> [open, close]
          RetrainEvery,   \* retrain_every_sessions
          CostBps,        \* the headline cost
          Sensitivity,    \* the other cost levels, a sequence
          WindowSessions, \* evaluation_window_sessions
          MinWindow,      \* the shortest window reported, 63 sessions
          InitialEquity,  \* in dollars
          Solutions       \* what the solver may answer

ASSUME BacktestAssumption ==
    /\ Panels \subseteq Seq([symbol : Nat \ {0}, session : Nat \ {0}])
    /\ RetrainEvery \in Nat \ {0}
    /\ MinWindow \in Nat \ {0} /\ WindowSessions \in Nat /\ WindowSessions >= MinWindow
    /\ InitialEquity \in Nat
    /\ CostBps \in 0 .. 100 /\ Sensitivity \in Seq(0 .. 100)
    /\ Solutions \subseteq [Symbols -> Int] \cup {Failed}

\* PortfolioLimits only asks that the reserve be positive: this is what its
\* default of 5 percent gives for every cost level BacktestConfig accepts.
ASSUME ReserveAssumption ==
    /\ 2 * CostBps <= 100 * MinCash
    /\ \A i \in DOMAIN Sensitivity : 2 * Sensitivity[i] <= 100 * MinCash

VARIABLES stage,      \* where the run is
          published,  \* the bars come from a snapshot, not the frozen panel
          bars, prices,
          decisions,  \* per decision session, the weights and their batch
          sim,        \* the simulation under way
          book,       \* its portfolio
          curve,      \* its equity: before the first session, then per close
          charges,    \* its costs per session
          results,    \* the finished simulations' curves and charges
          windows,    \* the evaluation windows
          target,     \* the target of the last session
          last,       \* history: the last close of each symbol traded at
          gains       \* history: what price moves have earned the simulation

\* SnapshotBarSource.fetch keeps the universe's rows and sorts them; it checks
\* nothing else.
FrozenBars(bs) ==
    LET own == Picks(bs, {bar \in ToSet(bs) : bar.symbol \in Symbols})
        bySymbol == SortedBy(own, [i \in DOMAIN own |-> own[i].symbol])
    IN SortedBy(bySymbol, [i \in DOMAIN own |-> bySymbol[i].session])

\* A DailyBar has positive prices.
ASSUME PricesAssumption ==
    \A path \in Paths, bs \in Panels :
        \A bar \in ToSet(bs) :
            bar.symbol \in Symbols =>
                /\ path[bar.symbol][bar.session].open \in Nat \ {NoPrice}
                /\ path[bar.symbol][bar.session].close \in Nat \ {NoPrice}

simVars == <<book, curve, charges, last, gains>>
vars == <<stage, published, bars, prices, decisions, sim, simVars, results,
          windows, target>>

Stages == {"load", "decide", "simulate", "report", "forecast", "done",
           "rejected", "too_short", "no_price", "forecast_blocked"}
-----------------------------------------------------------------------------
\* The sessions that have a bar, ascending: one is decided on after the
\* warm-up, and executed at the next one's open.
SessionMap(bs) == Picks([d \in 1 .. LastSession(bs) |-> d], BarSessions(bs))
AllSessions == SessionMap(bars)
Periods == Len(AllSessions) - MinTraining - 1
DecisionSession(i) == AllSessions[MinTraining + i]
ExecutionSession(i) == AllSessions[MinTraining + i + 1]

\* A session's prices of the symbols that have a bar then.
Quotes(session, field) ==
    [s \in Symbols |-> IF session \in SessionsOf(bars, s)
                       THEN prices[s][session][field] ELSE NoPrice]

\* The simulations, in order: the headline, the sensitivity levels, the baseline.
Sims ==
    LET n == Len(Sensitivity) + 2 IN
    [i \in 1 .. n |-> [bps |-> IF i \in {1, n} THEN CostBps ELSE Sensitivity[i - 1],
                       equal_weight |-> i = n]]
Sim == Sims[sim]

\* 95 percent of the equity, in equal parts over the symbols that have bars.
Has(s) == IF s \in BarSymbols(bars) THEN 1 ELSE 0
EqualWeights == [s \in Symbols |-> 95 * Has(s)]
EqualWhole == 100 * Total([s \in Symbols |-> Has(s)])
-----------------------------------------------------------------------------
Init ==
    /\ stage = "load"
    /\ published \in BOOLEAN
    /\ bars \in Panels /\ prices \in Paths
    /\ decisions = <<>> /\ results = <<>> /\ windows = <<>>
    /\ target = AllCashFlat
    /\ sim = 1
    /\ book = InitialBook(InitialEquity * Unit)
    /\ curve = <<InitialEquity * Unit>> /\ charges = <<>>
    /\ last = NoWeights /\ gains = 0

\* run_backtest's own check of its bars.
LongEnough(bs) == Cardinality(BarSessions(bs)) > MinTraining + 1

\* Nothing that the quality report blocks is published.
LoadPublished ==
    /\ stage = "load" /\ published
    /\ stage' = IF QualityBlocked(bars) THEN "rejected"
                ELSE IF LongEnough(bars) THEN "decide" ELSE "too_short"
    /\ UNCHANGED <<published, bars, prices, decisions, sim, simVars, results,
                   windows, target>>

LoadFrozen ==
    /\ stage = "load" /\ ~published
    /\ bars' = FrozenBars(bars)
    /\ stage' = IF bars' = <<>> THEN "rejected"
                ELSE IF LongEnough(bars') THEN "decide" ELSE "too_short"
    /\ UNCHANGED <<published, prices, decisions, sim, simVars, results, windows,
                   target>>
-----------------------------------------------------------------------------
Day == Len(decisions) + 1

\* The weights in force before this decision: none, all cash, at first.
LastWeights == IF decisions = <<>> THEN NoWeights ELSE decisions[Day - 1].weights
LastBatch == IF decisions = <<>> THEN [labels |-> {}, inputs |-> {}, at |-> 0]
             ELSE decisions[Day - 1].batch

\* What the weights rest on, kept with them.
BatchAt(d) ==
    [labels |-> ForecastBatch(FeatureRows(bars), d).labels,
     inputs |-> ForecastBatch(FeatureRows(bars), d).inputs,
     at |-> d]

Decide(weights, batch) ==
    /\ decisions' = Append(decisions, [weights |-> weights, batch |-> batch])
    /\ stage' = IF Day = Periods THEN "simulate" ELSE "decide"
    /\ UNCHANGED <<published, bars, prices, sim, simVars, results, windows, target>>

\* A retraining session whose forecast is not blocked.  A blocked target keeps
\* the weights in force; a flat one sells everything.
Retrain(qualified, solution) ==
    LET d == DecisionSession(Day)
        answer == BuildTarget(qualified, solution) IN
    /\ stage = "decide"
    /\ (Day - 1) % RetrainEvery = 0
    /\ ~ForecastBlocked(FeatureRows(bars), d)
    /\ qualified \subseteq ForecastBatch(FeatureRows(bars), d).symbols
    /\ Decide(IF answer.blocked THEN LastWeights ELSE answer.weights,
              IF answer.blocked THEN LastBatch ELSE BatchAt(d))

\* Any other session, or a blocked forecast: too little history, nothing to
\* predict, or a prediction that is not finite.
HoldWeights ==
    /\ stage = "decide"
    /\ Decide(LastWeights, LastBatch)
-----------------------------------------------------------------------------
Slot == Len(charges) + 1                     \* the execution session
Open == Quotes(ExecutionSession(Slot), "open")
Close == Quotes(ExecutionSession(Slot), "close")
Weights == IF Sim.equal_weight THEN EqualWeights ELSE decisions[Slot].weights
Whole == IF Sim.equal_weight THEN EqualWhole ELSE 100

\* A sensitivity level that is the headline's is not simulated again.
Reused == 1 < sim /\ sim < Len(Sims) /\ Sim.bps = CostBps

\* What a move of the prices earns holdings.
Move(held, from, to) == Unit * Total([s \in Symbols |-> held[s] * (to[s] - from[s])])

\* One session of a simulation: rebalance at the open, mark at the close.
Trade ==
    LET next == Rebalance(book, last, Weights, Whole, Open, Sim.bps) IN
    /\ stage = "simulate" /\ ~Reused /\ Slot <= Periods
    /\ Priced(book, Open) /\ Priced(next, Close)
    /\ book' = next
    /\ curve' = Append(curve, MarkToMarket(next, Close))
    /\ charges' = Append(charges, next.costs - book.costs)
    /\ gains' = gains + Move(book.held, last, Open) + Move(next.held, Open, Close)
    /\ last' = Close
    /\ UNCHANGED <<stage, published, bars, prices, decisions, sim, results,
                   windows, target>>

\* A held symbol has no price: KeyError, which nothing catches.
MissingPrice ==
    /\ stage = "simulate" /\ ~Reused /\ Slot <= Periods
    /\ ~ (/\ Priced(book, Open)
          /\ Priced(Rebalance(book, last, Weights, Whole, Open, Sim.bps), Close))
    /\ stage' = "no_price"
    /\ UNCHANGED <<published, bars, prices, decisions, sim, simVars, results,
                   windows, target>>

\* The simulation is over: the next one starts from cash, on the same decisions.
FinishSimulation ==
    /\ stage = "simulate" /\ ~Reused /\ Slot = Periods + 1
    /\ results' = Append(results, [curve |-> curve, charges |-> charges,
                                   total_costs |-> book.costs])
    /\ sim' = sim + 1
    /\ stage' = IF sim = Len(Sims) THEN "report" ELSE "simulate"
    /\ book' = InitialBook(InitialEquity * Unit)
    /\ curve' = <<InitialEquity * Unit>> /\ charges' = <<>>
    /\ last' = NoWeights /\ gains' = 0
    /\ UNCHANGED <<published, bars, prices, decisions, windows, target>>

ReuseHeadline ==
    /\ stage = "simulate" /\ Reused
    /\ results' = Append(results, results[1])
    /\ sim' = sim + 1
    /\ UNCHANGED <<stage, published, bars, prices, decisions, simVars, windows, target>>
-----------------------------------------------------------------------------
SumOf(seq, first, end) ==
    SumTo([k \in 1 .. end - first |-> seq[first + k]], end - first)

\* Mutant: the slice of the curve loses its last point.
ShortSlice(result, start, end) ==
    [start |-> start, end |-> end,
     start_session |-> ExecutionSession(start + 1),
     end_session |-> ExecutionSession(end),
     initial |-> result.curve[start + 1], final |-> result.curve[end],
     costs |-> SumOf(result.charges, start, end),
     hits |-> Cardinality({k \in start + 1 .. end :
                              result.curve[k + 1] > result.curve[k]})]

\* An EvaluationWindow: compute_metrics over the periods start + 1 .. end, that
\* is the curve's ends, the costs and the sessions that gained, with the first
\* and the last session.  The ratios drawn from the curve and the turnover are
\* left out.
Metrics(result, start, end) ==
    [start |-> start, end |-> end,
     start_session |-> ExecutionSession(start + 1),
     end_session |-> ExecutionSession(end),
     initial |-> result.curve[start + 1], final |-> result.curve[end + 1],
     costs |-> SumOf(result.charges, start, end),
     hits |-> Cardinality({k \in start + 1 .. end :
                              result.curve[k + 1] > result.curve[k]})]

\* Windows follow each other; the loop stops at the first one that is too short.
WindowStart(j) == (j - 1) * WindowSessions
WindowEnd(j, periods) == IF j * WindowSessions < periods THEN j * WindowSessions
                         ELSE periods
WindowCount(periods) ==
    Cardinality({j \in 1 .. periods :
                    WindowEnd(j, periods) - WindowStart(j) >= MinWindow})

EvaluationWindows(result) ==
    LET periods == Len(result.charges) IN
    [j \in 1 .. WindowCount(periods) |->
        Metrics(result, WindowStart(j), WindowEnd(j, periods))]

\* compute_equity_curve, from which the dashboard is drawn: it makes the same
\* decisions and the headline simulation again, and dates the points.
EquityCurve(result) ==
    [k \in DOMAIN result.charges |->
        [session |-> ExecutionSession(k), equity |-> result.curve[k + 1]]]

Report ==
    /\ stage = "report"
    /\ windows' = EvaluationWindows(results[1])
    /\ stage' = "forecast"
    /\ UNCHANGED <<published, bars, prices, decisions, sim, simVars, results, target>>
-----------------------------------------------------------------------------
\* The current decision, at the last session, outside the backtest.
ForecastNow(qualified, solution) ==
    LET d == LastSession(bars) IN
    /\ stage = "forecast"
    /\ ~ForecastBlocked(FeatureRows(bars), d)
    /\ qualified \subseteq ForecastBatch(FeatureRows(bars), d).symbols
    /\ target' = BuildTarget(qualified, solution)
    /\ stage' = "done"
    /\ UNCHANGED <<published, bars, prices, decisions, sim, simVars, results, windows>>

\* ForecastBlocked propagates to the caller, the finished backtest is lost.
NoForecastNow ==
    /\ stage = "forecast"
    /\ stage' = "forecast_blocked"
    /\ UNCHANGED <<published, bars, prices, decisions, sim, simVars, results,
                   windows, target>>

Next ==
    \/ LoadPublished \/ LoadFrozen
    \/ \E q \in SUBSET Symbols, w \in Solutions : Retrain(q, w)
    \/ HoldWeights
    \/ Trade \/ MissingPrice \/ FinishSimulation \/ ReuseHeadline
    \/ Report
    \/ \E q \in SUBSET Symbols, w \in Solutions : ForecastNow(q, w)
    \/ NoForecastNow

Spec == Init /\ [][Next]_vars
-----------------------------------------------------------------------------
(* Properties *)

\* No short position is ever held, and the run's pieces keep their shapes: the
\* curve has one point more than the sessions traded.
TypeOK ==
    /\ stage \in Stages /\ published \in BOOLEAN
    /\ book.cash \in Int /\ book.costs \in Nat /\ book.held \in [Symbols -> Nat]
    /\ Len(curve) = Len(charges) + 1
    /\ sim \in 1 .. Len(Sims) + 1
    /\ gains \in Int

\* Nothing the weights traded at a session's open rest on was known only at or
\* after that session, and the labels they were trained on end at least Embargo
\* sessions before the decision (walk_forward.py, engine.py: decision and
\* execution sessions).
NeverLooksAhead ==
    \A i \in DOMAIN decisions :
        LET b == decisions[i].batch IN
        /\ \A d \in b.labels \cup b.inputs : d < ExecutionSession(i)
        /\ \A d \in b.labels : d + Embargo <= b.at

\* Bars that pass the quality gate never lead a backtest to a held symbol
\* without a price: the gate's rules are enough for _run_sim's lookups.
ValidatedBarsAreTradable == published => stage # "no_price"

\* Whatever is bought and sold at an open, and at whatever cost level, the
\* session ends without borrowed cash: the optimizer's reserve pays the costs
\* (accounting.py allows negative cash, "margin / error case").
NeverOverdrawn == book.cash >= 0

\* Double entry: at every close, what the portfolio is worth is what it started
\* from, plus what price moves earned its holdings, less the costs charged,
\* and that is the point the curve records.
WealthIsAccountedFor ==
    stage = "simulate" =>
        /\ MarkToMarket(book, last) = InitialEquity * Unit + gains - book.costs
        /\ curve[Len(curve)] = MarkToMarket(book, last)

\* The evaluation windows tile the headline backtest: each starts where the one
\* before it ended, from the same equity, none is shorter than the least, less
\* than a least window is left out, and with it the costs add up to the total.
\* The sessions a window names are those it covers, and it ends at a point of
\* the exported curve ("consistent with the reported headline metrics").
WindowsTile ==
    stage \in {"forecast", "done", "forecast_blocked"} =>
        LET n == Len(windows)
            periods == Len(results[1].charges)
            exported == EquityCurve(results[1])
            covered == IF n = 0 THEN 0 ELSE windows[n].end IN
        /\ \A j \in 1 .. n :
              /\ windows[j].end - windows[j].start >= MinWindow
              /\ windows[j].start = (IF j = 1 THEN 0 ELSE windows[j - 1].end)
              /\ windows[j].initial = (IF j = 1 THEN InitialEquity * Unit
                                       ELSE windows[j - 1].final)
              /\ exported[windows[j].end] =
                    [session |-> windows[j].end_session, equity |-> windows[j].final]
              /\ Cardinality({k \in 1 .. periods : exported[k].session \in
                         windows[j].start_session .. windows[j].end_session})
                    = windows[j].end - windows[j].start
        /\ periods - covered < MinWindow
        /\ covered = periods => n > 0 /\ windows[n].final = results[1].curve[periods + 1]
        /\ SumTo([j \in 1 .. n |-> windows[j].costs], n)
              + SumOf(results[1].charges, covered, periods)
              = results[1].total_costs
=============================================================================
