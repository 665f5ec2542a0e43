-------------------------- MODULE SimulatedExecution --------------------------
(***************************************************************************)
(* ExecutionService.submit over SimulatedBroker: the composition the       *)
(* offline workflows and the integration tests run.  A broker call is      *)
(* synchronous, so a step of the service and the broker call it makes are  *)
(* one action; two calls of submit on one broker interleave between their  *)
(* broker calls.  The callers share the broker, which neither the service  *)
(* nor the Broker protocol excludes, or else one is done before the next   *)
(* one starts, as in the offline workflows.                                *)
(***************************************************************************)
EXTENDS ExecutionService, SimulatedBroker, FiniteSets

VARIABLE shared  \* calls may overlap; settled once and for all at the start

vars == <<pc, preview, outcomes, submitted, orders, fills, counter, shared>>

Init == ServiceInit /\ BrokerInit /\ shared \in BOOLEAN

Active == {k \in Calls : pc[k] \in InLoop}

\* submit() is called with preview p.
Start(k, p) ==
    /\ shared \/ Active = {}
    /\ Submit(k, p)
    /\ UNCHANGED <<brokerVars, shared>>

\* get_order_by_client_id before the first attempt.
Check(k) ==
    /\ CheckExisting(k, Known(Current(k)))
    /\ UNCHANGED brokerVars

\* broker.submit, as the first attempt or as the retry.
Attempt(k, o) ==
    /\ Attempting(k)
    /\ BrokerSubmit(Current(k), o, k)
    /\ IF BrokerReply(Current(k), o) = "timeout"
       THEN TimedOut(k)
       ELSE Returned(k, BrokerReply(Current(k), o))

\* get_order_by_client_id after the first attempt timed out.
Query(k) ==
    /\ QueryAfterTimeout(k, Known(Current(k)))
    /\ UNCHANGED brokerVars

Advance(k) ==
    /\ \/ Check(k)
       \/ \E o \in Outcomes : Attempt(k, o)
       \/ Query(k)
    /\ UNCHANGED shared

Next == \E k \in Calls :
    \/ \E p \in Previews : Start(k, p)
    \/ Advance(k)

Spec == Init /\ [][Next]_vars
-----------------------------------------------------------------------------
Order == [id : Nat, status : OrderStatus, filled_quantity : Nat,
          placed_by : Calls]
Fill == [order_id : Nat, client_order_id : Cids, quantity : Nat]

\* The values the variables take: the service's and the broker's.
TypeOK ==
    /\ ServiceTypeOK
    /\ DOMAIN orders \subseteq Cids
    /\ orders \in [DOMAIN orders -> Order]
    /\ fills \in Seq(Fill)
    /\ counter \in Nat
    /\ shared \in BOOLEAN

(* At-most-once order creation (the promise of service.py's module doc):   *)
(* every broker id ever issued is still the id of exactly one recorded     *)
(* order, so no client order id was ever recorded twice, however the       *)
(* checks and attempts of several calls interleave and time out.           *)
AtMostOnce ==
    /\ \A c \in DOMAIN orders : orders[c].id < counter
    /\ \A n \in 0 .. counter - 1 : \E c \in DOMAIN orders : orders[c].id = n
    /\ \A c, d \in DOMAIN orders : orders[c].id = orders[d].id => c = d

(* The broker's fills and its orders tell the same story: an order has a   *)
(* fill iff its status says it was filled in part or whole, that fill has  *)
(* the order's id and filled quantity, and only a whole fill reaches the   *)
(* intent's quantity.                                                      *)
FillsMatchOrders ==
    /\ \A i \in DOMAIN fills : LET f == fills[i] IN
          /\ f.client_order_id \in DOMAIN orders
          /\ f.order_id = orders[f.client_order_id].id
          /\ f.quantity = orders[f.client_order_id].filled_quantity
    /\ \A i, j \in DOMAIN fills : fills[i].order_id = fills[j].order_id => i = j
    /\ \A c \in DOMAIN orders : LET x == orders[c] IN
          /\ x.status \in {"filled", "partially_filled"} <=>
                \E i \in DOMAIN fills : fills[i].client_order_id = c
          /\ x.status = "filled" <=> x.filled_quantity = Quantity[c]

(* An order exists only on behalf of an unblocked preview that proposed    *)
(* it: no interleaving lets a call with a blocked preview reach the broker.*)
OnlyUnblockedIntentsArePlaced ==
    \A c \in DOMAIN orders : LET k == orders[c].placed_by IN
        /\ ~preview[k].risk_blocked /\ ~preview[k].reconciliation_blocked
        /\ c \in Range(preview[k].intents)

(* What a call reports is so at the broker, for as long as anybody can     *)
(* read the report: "submitted" and "already_existed" name a recorded      *)
(* order, "rejected" one the broker rejected.                              *)
OutcomesAreTrue ==
    \A k \in Calls : \A i \in DOMAIN outcomes[k] :
        LET o == outcomes[k][i] IN
        /\ o.status \in {"submitted", "already_existed", "rejected"} =>
              o.client_order_id \in DOMAIN orders
        /\ o.status = "rejected" =>
              orders[o.client_order_id].status = "rejected"

(* A SubmitResult is complete: one outcome per intent in the preview's     *)
(* order, and a count that equals the outcomes reported as at the broker.  *)
ConfirmedOutcomes(k) == {i \in DOMAIN outcomes[k] :
    outcomes[k][i].status \in {"submitted", "already_existed"}}

ResultIsComplete ==
    \A k \in Calls :
        /\ \A i \in DOMAIN outcomes[k] :
              outcomes[k][i].client_order_id = preview[k].intents[i]
        /\ pc[k] = "returned" => Len(outcomes[k]) = Len(preview[k].intents)
        /\ submitted[k] = Cardinality(ConfirmedOutcomes(k))

(* A timeout never causes a blind resubmission (MVP design, section on     *)
(* execution): a call that is about to send an order, for the first time   *)
(* or again, has not had it recorded by an attempt of its own.             *)
NeverResendsItsOwnOrder ==
    \A k \in Calls : Attempting(k) /\ Known(Current(k)) =>
                         orders[Current(k)].placed_by # k

(* Where no two calls overlap, the checks suffice: the service never sends *)
(* the broker an order that it already holds, so nothing rests on the      *)
(* broker's own deduplication; and "submitted" means what IntentOutcome    *)
(* says: the order is live at the broker (one found after a timeout        *)
(* included), never one that it rejected.                                  *)
ExactWithoutOverlap ==
    ~shared => \A k \in Calls :
        /\ Attempting(k) => ~Known(Current(k))
        /\ \A i \in DOMAIN outcomes[k] :
              LET o == outcomes[k][i] IN o.status = "submitted" =>
                  orders[o.client_order_id].status
                      \in {"new", "partially_filled", "filled"}

(* An order is known from its outcome once the call that placed it returns *)
(* (service.py:10-26): that call reports it "submitted" and it is live, or *)
(* "rejected" and it is, or "timeout_failed" and its recording was what    *)
(* the retry's timeout hid.  No order is left that its call says it did    *)
(* not place or found there, so an order missing from every count is one   *)
(* that was rejected or that some call gave up on.                         *)
Reports(outcome, order) ==
    \/ outcome = "submitted" /\ order # "rejected"
    \/ outcome = "rejected" /\ order = "rejected"
    \/ outcome = "timeout_failed" /\ order = "new"

OrdersAreReported ==
    \A c \in DOMAIN orders : LET k == orders[c].placed_by IN
        pc[k] = "returned" =>
            \E i \in DOMAIN outcomes[k] :
                /\ outcomes[k][i].client_order_id = c
                /\ Reports(outcomes[k][i].status, orders[c].status)

-----------------------------------------------------------------------------
(* What the outcomes of a call amount to, in the terms of OrderLedger.     *)
Verdict(status) ==
    CASE status \in {"submitted", "already_existed"} -> "exists"
      [] status = "rejected" -> "rejected"
      [] status = "timeout_failed" -> "unsure"
      [] status = "blocked" -> "refused"

AnswerOf(o) == [client_order_id |-> o.client_order_id,
                verdict |-> Verdict(o.status)]

ledgerBar == [c \in Cids |-> IF Known(c) THEN {orders[c].id} ELSE {}]
rejectedBar == {c \in DOMAIN orders : orders[c].status = "rejected"}
answersBar == [k \in Calls |-> {AnswerOf(outcomes[k][i]) : i \in DOMAIN outcomes[k]}]

Ledger == INSTANCE OrderLedger
    WITH ledger <- ledgerBar, rejected <- rejectedBar, answers <- answersBar

(* The service over the simulated broker keeps the ledger's promise: at    *)
(* most one order per intent, and no false answer.                         *)
KeepsLedger == Ledger!Spec
-----------------------------------------------------------------------------
(* The inductive invariant behind the above.                               *)

\* Where a call is in its loop agrees with the outcomes it has collected.
LoopInv ==
    \A k \in Calls :
        /\ Len(outcomes[k]) <= Len(preview[k].intents)
        /\ pc[k] = "idle" => outcomes[k] = <<>>
        /\ pc[k] \in InLoop => /\ ~Blocked(preview[k])
                               /\ Len(outcomes[k]) < Len(preview[k].intents)

\* A recorded order is one of the intents its call is done with, or the one
\* whose first attempt has just timed out.
PlacedInv ==
    \A c \in DOMAIN orders : LET k == orders[c].placed_by IN
        /\ ~Blocked(preview[k])
        /\ pc[k] # "idle"
        /\ \E i \in DOMAIN preview[k].intents :
              /\ preview[k].intents[i] = c
              /\ \/ i <= Len(outcomes[k])
                 \/ i = Len(outcomes[k]) + 1 /\ pc[k] = "query"

(* Every reachable state satisfies the strengthening the proofs use.       *)
IndInv == TypeOK /\ LoopInv /\ PlacedInv /\ AtMostOnce /\ OutcomesAreTrue
=============================================================================
