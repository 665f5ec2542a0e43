------------------------------ MODULE RiskPolicy ------------------------------
(***************************************************************************)
(* evaluate_pre_trade (src/src/mltrade/risk/policy.py): the seventeen      *)
(* rules of the pre-trade gate, each as the condition under which it       *)
(* passes.  A context is a record with the fields of PreTradeContext.      *)
(*                                                                         *)
(* Units.  Notionals and equity are whole dollars.  The weights and        *)
(* cash_weight of a context are numerators over its denominator "nav", so  *)
(* that a weight q * price / equity stays exact; the limits are percents   *)
(* of the net asset value.  NonFinite stands for a NaN or an infinity.     *)
(***************************************************************************)
EXTENDS Integers, Sequences, Functions

CONSTANT NonFinite

Finite(v) == v # NonFinite
AllFinite(f) == \A x \in DOMAIN f : Finite(f[x])

Abs(n) == IF n < 0 THEN -n ELSE n
Gross(f) == SumFunction([x \in DOMAIN f |-> Abs(f[x])])

\* part / whole <= percent / 100.
AtMostPercent(part, percent, whole) == 100 * part <= percent * whole
-----------------------------------------------------------------------------
\* Where the weights come from: the data, the session, the versions.
SnapshotHealth(ctx) == ~ctx.snapshot_blocked
SnapshotFreshness(ctx) == ctx.snapshot_last_session = ctx.expected_last_session
DecisionSessionFreshness(ctx) ==
    ctx.decision_session = ctx.expected_decision_session
ModelVersion(ctx) == ctx.model_version = ctx.expected_model_version
FeatureVersion(ctx) == ctx.feature_version = ctx.expected_feature_version

FiniteValues(ctx) ==
    /\ Finite(ctx.equity)
    /\ Finite(ctx.cash_weight)
    /\ AllFinite(ctx.weights)
    /\ AllFinite(ctx.order_notionals)

\* The target portfolio.
PositionLimit(ctx) ==
    /\ AllFinite(ctx.weights)
    /\ \A s \in DOMAIN ctx.weights :
          AtMostPercent(Abs(ctx.weights[s]), ctx.maximum_position_weight, ctx.nav)
GrossExposure(ctx) == AllFinite(ctx.weights) /\ Gross(ctx.weights) <= ctx.nav
NetExposure(ctx) ==
    /\ AllFinite(ctx.weights)
    /\ SumFunction(ctx.weights) \in 0 .. ctx.nav
CashReserve(ctx) ==
    /\ Finite(ctx.cash_weight)
    /\ ~ (100 * ctx.cash_weight < ctx.minimum_cash_weight * ctx.nav)

\* The orders.
PerOrderNotional(ctx) ==
    /\ Finite(ctx.equity) /\ AllFinite(ctx.order_notionals)
    /\ \A c \in DOMAIN ctx.order_notionals :
          AtMostPercent(Abs(ctx.order_notionals[c]), ctx.maximum_order_weight,
                        ctx.equity)
TotalRebalanceNotional(ctx) ==
    /\ Finite(ctx.equity) /\ AllFinite(ctx.order_notionals)
    /\ AtMostPercent(Gross(ctx.order_notionals), ctx.maximum_rebalance_weight,
                     ctx.equity)
MinimumOrderNotional(ctx) ==
    /\ AllFinite(ctx.order_notionals)
    /\ \A c \in DOMAIN ctx.order_notionals :
          Abs(ctx.order_notionals[c]) >= ctx.minimum_order_notional
DuplicateIntent(ctx) == IsInjective(ctx.intent_client_ids)

\* The account, and the switch that must stay off.
BrokerAccountStatus(ctx) ==
    ctx.broker_account_active /\ ~ctx.broker_account_blocked
ReconciliationRule(ctx) == ctx.reconciliation_ok
LiveTradingDisabled(ctx) == ~ctx.live_trading_enabled
-----------------------------------------------------------------------------
\* Every rule is evaluated, whatever the others say; the report blocks when
\* one of them does.
Report(ctx) ==
    [snapshot_health            |-> SnapshotHealth(ctx),
     snapshot_freshness         |-> SnapshotFreshness(ctx),
     decision_session_freshness |-> DecisionSessionFreshness(ctx),
     model_version              |-> ModelVersion(ctx),
     feature_version            |-> FeatureVersion(ctx),
     finite_values              |-> FiniteValues(ctx),
     position_limit             |-> PositionLimit(ctx),
     gross_exposure             |-> GrossExposure(ctx),
     net_exposure               |-> NetExposure(ctx),
     cash_reserve               |-> CashReserve(ctx),
     per_order_notional         |-> PerOrderNotional(ctx),
     total_rebalance_notional   |-> TotalRebalanceNotional(ctx),
     minimum_order_notional     |-> MinimumOrderNotional(ctx),
     duplicate_intent           |-> DuplicateIntent(ctx),
     broker_account_status      |-> BrokerAccountStatus(ctx),
     reconciliation             |-> ReconciliationRule(ctx),
     live_trading_disabled      |-> LiveTradingDisabled(ctx)]

RiskBlocked(ctx) == FALSE \in Range(Report(ctx))
=============================================================================
