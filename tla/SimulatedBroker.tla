--------------------------- MODULE SimulatedBroker ---------------------------
(***************************************************************************)
(* SimulatedBroker (src/src/mltrade/execution/simulated.py): the order     *)
(* registry, the fills and the counter that numbers broker orders.         *)
(*                                                                         *)
(* What a new order meets is looked up in the caller's outcome_map, which  *)
(* the caller may change between two submissions (the integration tests    *)
(* do, and their _RetryBroker does it between an attempt and its retry):   *)
(* the outcome of each submission is a free choice from Outcomes.          *)
(***************************************************************************)
EXTENDS BrokerProtocol, Integers, Sequences

CONSTANTS Quantity,         \* the share quantity of each intent
          FillNum, FillDen, \* partial_fill_fraction = FillNum / FillDen
          Outcomes          \* the SubmitOutcomes a new order can meet

SubmitOutcome == {"complete_fill", "partial_fill", "rejected",
                  "timeout_before", "timeout_after"}

ASSUME BrokerAssumption ==
    /\ Quantity \in [Cids -> Nat \ {0}]
    /\ FillNum \in Nat \ {0} /\ FillDen \in Nat /\ FillNum < FillDen
    /\ Outcomes \subseteq SubmitOutcome

VARIABLES orders,   \* _orders: client order id -> order, for the recorded ones
          fills,    \* _fills, oldest first
          counter   \* _counter, the number of broker ids issued

brokerVars == <<orders, fills, counter>>

BrokerInit ==
    /\ orders = [c \in {} |-> 0]
    /\ fills = <<>>
    /\ counter = 0

Known(c) == c \in DOMAIN orders

StatusOf(o) ==
    CASE o = "complete_fill" -> "filled"
      [] o = "partial_fill"  -> "partially_filled"
      [] o = "rejected"      -> "rejected"
      [] OTHER               -> "new"

\* Mutant: a partial fill rounded up.
FilledRoundedUp(c, o) ==
    CASE o = "complete_fill" -> Quantity[c]
      [] o = "partial_fill"  -> (Quantity[c] * FillNum + FillDen - 1) \div FillDen
      [] OTHER               -> 0

FilledOf(c, o) ==
    CASE o = "complete_fill" -> Quantity[c]
      [] o = "partial_fill"  -> (Quantity[c] * FillNum) \div FillDen
      [] OTHER               -> 0
-----------------------------------------------------------------------------
(* An order is recorded under its client order id with the next broker id, *)
(* and gets its fill.  placed_by, a history component, is the call whose   *)
(* attempt this was.                                                       *)
RecordOrder(c, o, by) ==
    /\ orders' = [d \in DOMAIN orders \cup {c} |->
           IF d = c
           THEN [id |-> counter, status |-> StatusOf(o),
                 filled_quantity |-> FilledOf(c, o), placed_by |-> by]
           ELSE orders[d]]
    /\ counter' = counter + 1
    /\ fills' = IF o \in {"complete_fill", "partial_fill"}
                THEN Append(fills, [order_id |-> counter, client_order_id |-> c,
                                    quantity |-> FilledOf(c, o)])
                ELSE fills

\* Mutant: no deduplication by client order id.
SubmitAnew(c, o, by) ==
    IF o = "timeout_before" THEN UNCHANGED brokerVars ELSE RecordOrder(c, o, by)

\* submit(intent): a known order is handed back untouched.
BrokerSubmit(c, o, by) ==
    IF Known(c) \/ o = "timeout_before"
    THEN UNCHANGED brokerVars
    ELSE RecordOrder(c, o, by)

\* What submit hands back: an order's status, or the BrokerTimeout it raises.
BrokerReply(c, o) ==
    IF Known(c) THEN orders[c].status
    ELSE IF o \in {"timeout_before", "timeout_after"} THEN "timeout"
    ELSE StatusOf(o)
=============================================================================
