---------------------------- MODULE BrokerProtocol ----------------------------
(***************************************************************************)
(* The vocabulary the execution service and every broker share             *)
(* (src/src/mltrade/execution/broker.py and intents.py).  An intent is     *)
(* represented by its client order id: the id is a hash of everything that *)
(* makes up the intent, so the two determine each other.                   *)
(***************************************************************************)
CONSTANT Cids   \* the client order ids of the intents

OrderStatus == {"new", "partially_filled", "filled", "rejected"}

\* The statuses of an order that is still working at the broker.
OpenStatus == {"new", "partially_filled"}
=============================================================================
