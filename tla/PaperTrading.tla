----------------------------- MODULE PaperTrading -----------------------------
(***************************************************************************)
(* run_paper (src/src/mltrade/workflows/paper.py) over the Alpaca adapter: *)
(* a run reads the account step by step, builds a preview from what it     *)
(* read, persists it, and submits it order by order, while the exchange    *)
(* fills and ends orders, the network loses messages and the process may   *)
(* die at any point.  A restart is another run: nothing a run keeps in     *)
(* memory outlives it.  Every run decides on the same session, so equal    *)
(* intents have equal client order ids.                                    *)
(***************************************************************************)
EXTENDS ExecutionService, AlpacaExchange, Rebalancing, FiniteSets

CONSTANTS Requests,         \* what a run may be asked to do
          ExpectedSession,  \* the last completed session by the clock
          MaxActive         \* how many runs may be in progress at once

Snapshot == [blocked : BOOLEAN, last_session : Nat]
Request == [submit : BOOLEAN, environment : {"paper", "local"},
            snapshot : Snapshot]

ASSUME PaperAssumption ==
    /\ Calls = Clients /\ IsFiniteSet(Calls)
    /\ Universe \in Seq(Symbols)
    /\ IsInjective(Universe) /\ Range(Universe) = Symbols
    /\ Price \in [Symbols -> Nat \ {0}] /\ FillPrice \in [Symbols -> Nat \ {0}]
    /\ DOMAIN Weight \subseteq Symbols /\ Weight \in [DOMAIN Weight -> Int]
    /\ Holdings \in [Symbols -> Int] /\ Cash \in Int /\ Equities \subseteq Int
    /\ {Limits.minimum_order_notional, Limits.maximum_position_weight,
        Limits.minimum_cash_weight} \subseteq Nat \ {0}
    /\ Requests \subseteq Request
    /\ MaxActive \in Nat \ {0}

VARIABLES stage,     \* run -> where run_paper is, outside of submit
          request,   \* run -> what it was asked to do
          seen,      \* run -> the broker's answers to its reads, so far
          saved      \* the previews in the database, each with its run

runVars == <<stage, request, seen, saved>>
vars == <<pc, preview, outcomes, submitted, orders, counter, positions, cash,
          equity, restricted, http, stage, request, seen, saved>>

\* The broker reads of a run: run_paper's own, preview's, reconcile's.
Reads == <<"account", "positions", "open_orders",
           "account", "positions",
           "account", "positions", "open_orders">>

NoRequest == [submit |-> FALSE, environment |-> "local",
              snapshot |-> [blocked |-> TRUE, last_session |-> 0]]

Init ==
    /\ ServiceInit
    /\ ExchangeInit
    /\ stage = [k \in Calls |-> "idle"]
    /\ request = [k \in Calls |-> NoRequest]
    /\ seen = [k \in Calls |-> <<>>]
    /\ saved = {}

Running(k) == stage[k] \in {"reading", "saving", "deciding"} \/ pc[k] \in InLoop
-----------------------------------------------------------------------------
MoveTo(k, place) ==
    /\ stage' = [stage EXCEPT ![k] = place]
    /\ UNCHANGED <<request, saved>>

\* run_paper is called; anything but a paper environment is refused.
Start(k, r) ==
    /\ stage[k] = "idle"
    /\ Cardinality({j \in Calls : Running(j)}) < MaxActive
    /\ request' = [request EXCEPT ![k] = r]
    /\ stage' = [stage EXCEPT ![k] =
                     IF r.environment = "paper" THEN "reading" ELSE "raised"]
    /\ UNCHANGED <<seen, saved, serviceVars, exchangeVars>>

View(read) ==
    CASE read = "account"     -> [cash |-> cash, equity |-> equity,
                                  active |-> TRUE, blocked |-> restricted]
      [] read = "positions"   -> positions
      [] read = "open_orders" -> OpenOrders

\* The next read is answered from the exchange as it is now.
Read(k) ==
    /\ stage[k] = "reading"
    /\ seen' = [seen EXCEPT ![k] = Append(@, View(Reads[Len(@) + 1]))]
    /\ MoveTo(k, IF Len(seen[k]) + 1 = Len(Reads) THEN "saving" ELSE "reading")
    /\ UNCHANGED <<serviceVars, exchangeVars>>

\* The target is sized by the first account read, the deltas are taken from
\* the second positions read, and reconciliation compares the first three
\* reads with the last three.
Target(k) == TargetPositions(seen[k][1].equity)
Believed(k) == [cash |-> seen[k][1].cash, positions |-> seen[k][2],
                open |-> seen[k][3]]
\* Mutant: reconciliation is handed the preview's reads instead of its own.
AtBrokerReused(k) == [cash |-> seen[k][4].cash, positions |-> seen[k][5],
                      open |-> seen[k][8]]
AtBroker(k) == [cash |-> seen[k][6].cash, positions |-> seen[k][7],
                open |-> seen[k][8]]
\* The preview and its risk report are committed in one transaction.
SavePreview(k) ==
    /\ stage[k] = "saving"
    /\ \E target \in {Target(k)}, differences \in {Differences(Believed(k), AtBroker(k))} :
       \E intents \in {Intents(target, seen[k][5])} :
       \E context \in {RiskContext(target, intents, seen[k][4], differences,
                                    request[k].snapshot, ExpectedSession)} :
          saved' = saved \cup {[run |-> k, preview |->
              [intents |-> intents, risk_blocked |-> RiskBlocked(context),
               reconciliation_blocked |-> differences # {}]]}
    /\ stage' = [stage EXCEPT ![k] = "deciding"]
    /\ seen' = [seen EXCEPT ![k] = <<>>]
    /\ UNCHANGED <<request, serviceVars, exchangeVars>>

SavedBy(k) == (CHOOSE r \in saved : r.run = k).preview

\* Mutant: a dry run is submitted too.
DecideDryToo(k) ==
    /\ stage[k] = "deciding"
    /\ IF ~SavedBy(k).risk_blocked
       THEN Submit(k, SavedBy(k)) /\ MoveTo(k, "submitting")
       ELSE MoveTo(k, "done") /\ UNCHANGED serviceVars
    /\ UNCHANGED <<seen, exchangeVars>>

\* A dry run and a blocked preview end here; any other preview is submitted.
Decide(k) ==
    /\ stage[k] = "deciding"
    /\ IF request[k].submit /\ ~SavedBy(k).risk_blocked
       THEN Submit(k, SavedBy(k)) /\ MoveTo(k, "submitting")
       ELSE MoveTo(k, "done") /\ UNCHANGED serviceVars
    /\ UNCHANGED <<seen, exchangeVars>>

\* GET by client order id, before the POST: 404 means there is none.
Check(k) ==
    /\ CheckExisting(k, Known(Current(k)))
    /\ UNCHANGED <<exchangeVars, runVars>>

SetPost(k, state) ==
    /\ http' = [http EXCEPT ![k] = state]
    /\ UNCHANGED <<orders, counter, positions, cash, equity, restricted, runVars>>

Post(k) ==
    /\ Attempting(k) /\ http[k] = "idle"
    /\ SetPost(k, "sent")
    /\ UNCHANGED serviceVars

\* Mutant: the HTTP status of the reply is not checked.
ReceiveUnchecked(k) ==
    /\ Attempting(k) /\ http[k] \in Answered
    /\ Returned(k, IF http[k] = "refused" THEN "new" ELSE http[k])
    /\ SetPost(k, "idle")

\* The reply arrives: an order, or an HTTP error, which raise_for_status turns
\* into an exception that nothing catches.
Receive(k) ==
    /\ Attempting(k) /\ http[k] \in Answered
    /\ IF http[k] = "refused" THEN Raised(k) ELSE Returned(k, http[k])
    /\ SetPost(k, "idle")

\* Mutant: a lost reply is waited for without a timeout.
WaitForever(k) ==
    /\ Attempting(k) /\ http[k] = "sent"
    /\ Raised(k)
    /\ SetPost(k, "abandoned")

\* No reply within the timeout: httpx raises, and the adapter turns this into
\* no BrokerTimeout.  The request may still be on its way.
GiveUp(k) ==
    /\ Attempting(k) /\ http[k] \in {"sent", "lost"}
    /\ Raised(k)
    /\ SetPost(k, IF http[k] = "sent" THEN "abandoned" ELSE "idle")

Advance(k) ==
    \/ Read(k)
    \/ SavePreview(k)
    \/ Decide(k)
    \/ Check(k)
    \/ Post(k)
    \/ Receive(k)
    \/ GiveUp(k)

\* The process dies, or a broker or database call fails, between two steps.
Crash(k) ==
    /\ Running(k)
    /\ IF pc[k] \in InLoop
       THEN GoTo(k, "raised") /\ UNCHANGED stage
       ELSE stage' = [stage EXCEPT ![k] = "raised"] /\ UNCHANGED serviceVars
    /\ http' = [http EXCEPT ![k] = IF @ = "sent" THEN "abandoned" ELSE "idle"]
    /\ seen' = [seen EXCEPT ![k] = <<>>]
    /\ UNCHANGED <<request, saved, orders, counter, positions, cash, equity,
                   restricted>>

Exchange ==
    /\ \/ \E k \in Calls : http[k] \in {"sent", "abandoned"} /\ Process(k, Current(k))
       \/ \E k \in Calls : Lose(k)
       \/ \E c \in OpenOrders : \E n \in 1 .. Remaining(c) : Fill(c, n)
       \/ \E c \in OpenOrders : End(c)
       \/ Reprice
       \/ BarTrading
    /\ UNCHANGED <<serviceVars, runVars>>

Next ==
    \/ \E k \in Calls : \/ \E r \in Requests : Start(k, r)
                        \/ Advance(k)
                        \/ Crash(k)
    \/ Exchange

Spec == Init /\ [][Next]_vars

\* A run that has started is sequential code whose every wait is bounded by
\* the adapter's timeout.  Starting one, and all that the exchange and the
\* network do, is up to others.
FairSpec == Spec /\ \A k \in Calls : WF_vars(Advance(k))
-----------------------------------------------------------------------------
(* Evidence before action: whatever reaches the exchange was asked for by  *)
(* a submitting run in the paper environment on a healthy snapshot of the  *)
(* expected session, was in that run's preview, and that preview was       *)
(* committed, unblocked, before.  It holds for orders that arrive after    *)
(* their run has died, too.                                                *)
Backed(k, c) ==
    /\ request[k].submit /\ request[k].environment = "paper"
    /\ ~request[k].snapshot.blocked
    /\ request[k].snapshot.last_session = ExpectedSession
    /\ \E r \in saved : /\ r.run = k /\ ~Blocked(r.preview)
                        /\ c \in Range(r.preview.intents)

OrdersAreBackedByEvidence ==
    /\ \A c \in DOMAIN orders : Backed(orders[c].placed_by, c)
    /\ \A k \in Calls : http[k] # "idle" => Backed(k, Current(k))

Sides == {"buy", "sell"}

\* The sides on which shares of symbol s have traded.
SidesTraded(s) == {c.side : c \in {c \in DOMAIN orders :
                                  c.symbol = s /\ orders[c].filled_quantity > 0}}

(* Reconciliation vouches for the positions in between: where it finds no  *)
(* difference, what the deltas are taken from is what the last read shows, *)
(* though neither of the reads compared is the one they are taken from.    *)
(* (Trades that cancel out between the reads are beyond it.)               *)
ReconciliationSeesFills ==
    \A k \in Calls :
        stage[k] = "saving" /\ Differences(Believed(k), AtBroker(k)) = {} =>
            \A s \in Symbols : seen[k][5][s] = seen[k][7][s] \/ SidesTraded(s) = Sides

(* Every run ends, whatever the exchange and the network do.               *)
EveryRunEnds == \A k \in Calls : Running(k) ~> ~Running(k)
-----------------------------------------------------------------------------
(* Many runs over the exchange, crashes and lost messages included, keep   *)
(* what order submission promises: one order per intent at most, and no    *)
(* run is told what is not so.                                             *)
Verdict(status) ==
    CASE status \in {"submitted", "already_existed"} -> "exists"
      [] status = "rejected" -> "rejected"
      [] status = "timeout_failed" -> "unsure"
      [] status = "blocked" -> "refused"

AnswerOf(o) == [client_order_id |-> o.client_order_id,
                verdict |-> Verdict(o.status)]

ledgerBar == [c \in Cids |-> IF Known(c) THEN {orders[c].id} ELSE {}]
rejectedBar == {c \in DOMAIN orders : orders[c].status = "rejected"}
answersBar == [k \in Calls |-> {AnswerOf(outcomes[k][i]) : i \in DOMAIN outcomes[k]}]

Ledger == INSTANCE OrderLedger
    WITH ledger <- ledgerBar, rejected <- rejectedBar, answers <- answersBar

KeepsLedger == Ledger!Spec
-----------------------------------------------------------------------------
\* The shares of symbol s that the open orders of one side may still trade.
Pending(s, side) ==
    LET open == {c \in OpenOrders : c.symbol = s /\ c.side = side}
    IN SumFunction([c \in open |-> Remaining(c)])

(* "Re-running the same decision must find or reuse the existing intent    *)
(* and must not create a duplicate order": what is held and what is on     *)
(* order never exceeds the target the decision asks for.                   *)
RerunsReuseTheirOrders ==
    \A s \in DOMAIN TargetPositions(equity) :
        positions[s] + Pending(s, "buy") <= TargetPositions(equity)[s]
=============================================================================
