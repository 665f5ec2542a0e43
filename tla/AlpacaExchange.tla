---------------------------- MODULE AlpacaExchange ----------------------------
(***************************************************************************)
(* The exchange behind AlpacaPaperBroker, external to the repository: what *)
(* the adapter (src/src/mltrade/execution/alpaca.py) may meet behind       *)
(* HTTP.  It accepts a client order id once, fills an accepted order bit   *)
(* by bit, may end it early (canceled, expired), and does so at any time   *)
(* between the client's requests.  A POST and its reply travel separately: *)
(* either may be lost, and a request whose client has given up may still   *)
(* be processed later.                                                     *)
(*                                                                         *)
(* A client order id is a record: the symbol, the side and the quantity    *)
(* are what the hash distinguishes within one decision session.            *)
(***************************************************************************)
EXTENDS BrokerProtocol, Integers

CONSTANTS Clients,          \* the HTTP clients that may post an order
          Symbols,          \* the instruments
          FillPrice,        \* symbol -> the price its fills are made at
          Holdings,         \* symbol -> the position the account starts with
          Cash,             \* the cash the account starts with
          Equities          \* the equities the market may give the account

VARIABLES orders,      \* client order id -> the order accepted under it
          counter,     \* how many orders were accepted
          positions,   \* symbol -> shares held
          cash,        \* the account's cash
          equity,      \* the account's equity at the market's prices
          restricted,  \* the account may not trade
          http         \* client -> what has become of its POST

exchangeVars == <<orders, counter, positions, cash, equity, restricted, http>>

(* What http[k] may be, "idle" apart.                                      *)
(* "sent": on its way; "lost": the request or its reply will never arrive; *)
(* "abandoned": on its way, but nobody waits for the reply; "refused": an  *)
(* HTTP error is on its way back; a status: the order is.                  *)
Answered == {"refused", "new", "rejected"}

ExchangeInit ==
    /\ orders = [c \in {} |-> 0]
    /\ counter = 0
    /\ positions = Holdings
    /\ cash = Cash
    /\ equity \in Equities
    /\ restricted = FALSE
    /\ http = [k \in Clients |-> "idle"]

Known(c) == c \in DOMAIN orders
OpenOrders == {c \in DOMAIN orders : orders[c].status \in OpenStatus}

\* The shares of order c still to come, and the sign of a trade.
Remaining(c) == c.quantity - orders[c].filled_quantity
Signed(c, n) == IF c.side = "buy" THEN n ELSE -n
-----------------------------------------------------------------------------
\* A request of client k for order c reaches the exchange: a new order is
\* accepted, or rejected; a known one, or one the account may not place, is
\* an HTTP error.
Process(k, c) ==
    /\ http[k] \in {"sent", "abandoned"}
    /\ \E reply \in IF Known(c) \/ restricted THEN {"refused"} ELSE Answered :
          /\ http' = [http EXCEPT ![k] = IF @ = "sent" THEN reply ELSE "idle"]
          /\ IF reply = "refused"
             THEN UNCHANGED <<orders, counter>>
             ELSE /\ orders' = [d \in DOMAIN orders \cup {c} |->
                         IF d = c THEN [id |-> counter, status |-> reply,
                                        filled_quantity |-> 0, placed_by |-> k]
                         ELSE orders[d]]
                  /\ counter' = counter + 1
    /\ UNCHANGED <<positions, cash, equity, restricted>>

\* The network loses a request or the reply to it.
Lose(k) ==
    /\ http[k] \in {"sent", "abandoned"} \cup Answered
    /\ http' = [http EXCEPT ![k] = IF @ = "abandoned" THEN "idle" ELSE "lost"]
    /\ UNCHANGED <<orders, counter, positions, cash, equity, restricted>>

\* n more shares of an open order trade.
Fill(c, n) ==
    /\ c \in OpenOrders /\ n \in 1 .. Remaining(c)
    /\ orders' = [orders EXCEPT
           ![c].filled_quantity = @ + n,
           ![c].status = IF n = Remaining(c) THEN "filled" ELSE "partially_filled"]
    /\ positions' = [positions EXCEPT ![c.symbol] = @ + Signed(c, n)]
    /\ cash' = cash - Signed(c, n) * FillPrice[c.symbol]
    /\ UNCHANGED <<counter, equity, restricted, http>>

\* An open order is canceled or expires; the adapter maps both to "rejected".
End(c) ==
    /\ c \in OpenOrders
    /\ orders' = [orders EXCEPT ![c].status = "rejected"]
    /\ UNCHANGED <<counter, positions, cash, equity, restricted, http>>

\* The market moves.
Reprice ==
    /\ equity' \in Equities \ {equity}
    /\ UNCHANGED <<orders, counter, positions, cash, restricted, http>>

\* The account is barred from trading.
BarTrading ==
    /\ ~restricted /\ restricted' = TRUE
    /\ UNCHANGED <<orders, counter, positions, cash, equity, http>>
=============================================================================
