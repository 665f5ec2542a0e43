----------------------------- MODULE OrderLedger -----------------------------
(***************************************************************************)
(* What order submission promises, whatever broker it runs over: an        *)
(* intent leads to at most one broker order, ever; and a call is told that *)
(* an order exists, or was rejected, only if that is so.  A call may also  *)
(* be told nothing definite, and an order may end without trading.         *)
(***************************************************************************)
CONSTANTS Calls, Cids

VARIABLES ledger,     \* client order id -> the broker ids of its orders
          rejected,   \* the client order ids whose order was rejected
          answers     \* call -> the answers it has been given

Answer == [client_order_id : Cids,
           verdict : {"exists", "rejected", "unsure", "refused"}]

Init ==
    /\ ledger = [c \in Cids |-> {}]
    /\ rejected = {}
    /\ answers = [k \in Calls |-> {}]

\* One intent that has no order yet gets one, under an unused broker id.
Place ==
    \E c \in Cids :
        /\ ledger[c] = {}
        /\ \E n \in ledger'[c] :
              /\ \A d \in Cids : n \notin ledger[d]
              /\ ledger' = [ledger EXCEPT ![c] = {n}]
        /\ rejected' \in {rejected, rejected \cup {c}}

\* An order that was accepted ends without trading in full.
Cancel ==
    \E c \in Cids :
        /\ ledger[c] # {}
        /\ rejected' = rejected \cup {c}
        /\ UNCHANGED ledger

\* An answer agrees with the ledger as the step leaves it.
Truthful(a) ==
    /\ a.verdict \in {"exists", "rejected"} => ledger'[a.client_order_id] # {}
    /\ a.verdict = "rejected" => a.client_order_id \in rejected'

\* One call is given further answers, all true; none is ever taken back.
Reply ==
    \E k \in Calls :
        LET given == answers'[k] \ answers[k] IN
        /\ answers' = [answers EXCEPT ![k] = @ \cup given]
        /\ \A a \in given : a \in Answer /\ Truthful(a)

Next ==
    /\ UNCHANGED <<ledger, rejected>> \/ Place \/ Cancel
    /\ UNCHANGED answers \/ Reply

Spec == Init /\ [][Next]_<<ledger, rejected, answers>>
=============================================================================
