------------------------------ MODULE PaperCourse ------------------------------
(***************************************************************************)
(* PaperTrading with a history variable: the course of a run, which is     *)
(* what the account held when the run read the positions its orders are    *)
(* taken from, the target they lead to, and what was then on order and on  *)
(* its way for others.  The variable is not in the code.  It says what a   *)
(* run may be held to while the market moves, orders of others fill, and   *)
(* other runs start at any moment.                                         *)
(***************************************************************************)
EXTENDS PaperTrading

VARIABLE course   \* run -> its course, from its read of the positions on

courseVars == <<vars, course>>

\* The orders on their way to the exchange, and all that may still trade.
InFlight == {Current(k) : k \in {k \in Calls : http[k] \in {"sent", "abandoned"}}}
                \ DOMAIN orders
Working == OpenOrders \cup InFlight
Left(c) == IF Known(c) THEN Remaining(c) ELSE c.quantity

\* The shares of symbol s that orders of one side may still trade.
Due(s, side) ==
    LET working == {c \in Working : c.symbol = s /\ c.side = side}
    IN SumFunction([c \in working |-> Left(c)])

\* A run reads the positions its deltas are taken from; another posts an order.
Departs(k) == Len(seen[k]) = 4 /\ Len(seen'[k]) = 5
Sends(j) == http[j] # "sent" /\ http'[j] = "sent"

NewCourse(k) ==
    [held |-> positions, target |-> Target(k),
     due |-> [side \in Sides |-> [s \in Symbols |-> Due(s, side)]]]

\* What others send from then on is due, too.
Onward(k) ==
    [course[k] EXCEPT !.due =
        [side \in Sides |-> [s \in Symbols |->
            @[side][s] + (Due(s, side)' - Due(s, side))]]]
Charted(k) == IF \E j \in Calls \ {k} : Sends(j) THEN Onward(k) ELSE course[k]

CourseInit == Init /\ course = [k \in {} |-> 0]

CourseNext ==
    /\ Next
    /\ course' = [k \in DOMAIN course \cup {k \in Calls : Departs(k)} |->
                     IF Departs(k) THEN NewCourse(k) ELSE Charted(k)]

CourseSpec == CourseInit /\ [][CourseNext]_courseVars
FairCourseSpec == CourseSpec /\ \A k \in Calls : WF_vars(Advance(k))
-----------------------------------------------------------------------------
\* Where the run's orders lead: a symbol outside the target is left as it is.
Goal(k, s) ==
    IF s \in DOMAIN course[k].target THEN course[k].target[s] ELSE course[k].held[s]

(* A run never overshoots: from its read of the positions on, whatever     *)
(* then fills, is lost, late, ended or sent by others, what is held and    *)
(* what may still be traded stays between what was held and the target, up *)
(* to what others had, or have since put, on order.                        *)
NeverOvershoots ==
    \A k \in DOMAIN course : \A s \in Symbols :
        LET held == course[k].held[s]
            due == course[k].due
        IN  /\ positions[s] + Due(s, "buy") <= Max({held, Goal(k, s)}) + due["buy"][s]
            /\ positions[s] - Due(s, "sell") >= Min({held, Goal(k, s)}) - due["sell"][s]

\* The run's orders are all at the exchange, and all have been filled.
Filled(k) ==
    /\ pc[k] = "returned" /\ ~Blocked(preview[k])
    /\ \A c \in Range(preview[k].intents) : Known(c) /\ orders[c].status = "filled"

(* A run whose own orders have all filled leaves every symbol of its       *)
(* target on target, up to what is too small to order and to what others   *)
(* had on order when it read the positions, or have sent since.            *)
FilledRunIsOnTarget ==
    \A k \in DOMAIN course :
        Filled(k) /\ (\A c \in Range(preview[k].intents) : orders[c].placed_by = k) =>
            \A s \in DOMAIN course[k].target :
                LET off == positions[s] - course[k].target[s]
                    due == course[k].due
                    small == Limits.minimum_order_notional
                IN  /\ (off - due["buy"][s]) * Price[s] < small
                    /\ (-off - due["sell"][s]) * Price[s] < small
=============================================================================
