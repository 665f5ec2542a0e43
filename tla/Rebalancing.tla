----------------------------- MODULE Rebalancing -----------------------------
(***************************************************************************)
(* From portfolio weights to a blocked or unblocked preview, the pure part *)
(* of a paper run: _target_positions_from_weights (src/src/mltrade/        *)
(* workflows/paper.py), reconcile (execution/reconciliation.py) and the    *)
(* body of ExecutionService.preview (execution/service.py) between its     *)
(* broker reads and the Preview it returns.                                *)
(***************************************************************************)
EXTENDS RiskPolicy, Loops, SequencesExt

CONSTANTS Universe,   \* the symbols, in alphabetical order
          Price,      \* symbol -> the snapshot's close, in dollars
          Weight,     \* symbol -> the optimizer's weight, in percent
          Limits      \* the limits of Settings, percents and dollars

\* int(equity * weight / price) shares of each symbol, kept when positive.
Shares(equity, s) == (equity * Weight[s]) \div (100 * Price[s])
TargetPositions(equity) ==
    [s \in {s \in DOMAIN Weight : Shares(equity, s) > 0} |-> Shares(equity, s)]

Held(positions, s) == IF s \in DOMAIN positions THEN positions[s] ELSE 0

\* The differences reconcile() reports between what the run believes and what
\* the broker says.
Differences(internal, broker) ==
    {<<"cash", d>> : d \in {internal.cash} \ {broker.cash}}
    \cup {<<"position", s>> : s \in
            {s \in DOMAIN internal.positions \cup DOMAIN broker.positions :
                Held(internal.positions, s) # Held(broker.positions, s)}}
    \cup {<<"open_order", c>> : c \in SymDiff(internal.open, broker.open)}

\* Mutant: the whole target is ordered, whatever is held.
WholeTarget(target, positions, s) == target[s]

\* The signed share counts that are not zero and worth an order: deltas are
\* taken over the target's symbols only.
Delta(target, positions, s) == target[s] - Held(positions, s)
\* Mutant: shares compared with the least notional, instead of dollars.
TradedByShares(target, positions) ==
    {s \in DOMAIN target :
        Abs(Delta(target, positions, s)) >= Limits.minimum_order_notional}

Traded(target, positions) ==
    {s \in DOMAIN target :
        /\ Delta(target, positions, s) # 0
        /\ Abs(Delta(target, positions, s)) * Price[s]
              >= Limits.minimum_order_notional}

\* One intent per traded symbol, in the order of the symbols.
IntentOf(target, positions, s) ==
    LET d == Delta(target, positions, s) IN
    [symbol |-> s, side |-> IF d > 0 THEN "buy" ELSE "sell", quantity |-> Abs(d)]
Intents(target, positions) ==
    LET traded == Picks(Universe, Traded(target, positions)) IN
    [i \in DOMAIN traded |-> IntentOf(target, positions, traded[i])]

\* The weights are the target's at the snapshot's prices, over the equity of
\* the preview's own account read; cash is what they leave, or nothing.
RiskContext(target, intents, account, differences, snapshot, expected) ==
    LET funded == account.equity > 0
        nav == IF funded THEN account.equity ELSE 1
        weights == [s \in DOMAIN target |->
                       IF funded THEN target[s] * Price[s] ELSE 0]
    IN [snapshot_blocked |-> snapshot.blocked,
        snapshot_last_session |-> snapshot.last_session,
        expected_last_session |-> expected,
        decision_session |-> snapshot.last_session,
        expected_decision_session |-> expected,
        model_version |-> "ridge-trend-v1",
        expected_model_version |-> "ridge-trend-v1",
        feature_version |-> "trend-momentum-v1",
        expected_feature_version |-> "trend-momentum-v1",
        weights |-> weights,
        nav |-> nav,
        cash_weight |-> IF Gross(weights) <= nav THEN nav - Gross(weights) ELSE 0,
        order_notionals |-> [c \in Range(intents) |->
            IF c.side = "buy" THEN c.quantity * Price[c.symbol]
            ELSE -(c.quantity * Price[c.symbol])],
        equity |-> account.equity,
        intent_client_ids |-> intents,
        maximum_position_weight |-> Limits.maximum_position_weight,
        minimum_cash_weight |-> Limits.minimum_cash_weight,
        maximum_order_weight |-> Limits.maximum_order_weight,
        maximum_rebalance_weight |-> Limits.maximum_rebalance_weight,
        minimum_order_notional |-> Limits.minimum_order_notional,
        broker_account_active |-> account.active,
        broker_account_blocked |-> account.blocked,
        reconciliation_ok |-> differences = {},
        live_trading_enabled |-> FALSE]
=============================================================================
