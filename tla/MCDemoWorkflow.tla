--------------------------- MODULE MCDemoWorkflow ---------------------------
(* DemoWorkflow with values for TLC: targets at and below the limits of the *)
(* optimizer, one with a share count that rounds down, and all cash.        *)
EXTENDS DemoWorkflow

CONSTANTS a, b, c1, c2

MCUniverse == <<a, b>>
MCPrice == [s \in {a, b} |-> IF s = a THEN 3 ELSE 10]
MCTargets == {[s \in {a, b} |-> 25],
              [s \in {a, b} |-> IF s = a THEN 25 ELSE 7],
              [s \in {b} |-> 8], <<>>}
MCLimits == [maximum_position_weight |-> 25, minimum_cash_weight |-> 5,
             maximum_order_weight |-> 10, maximum_rebalance_weight |-> 50,
             minimum_order_notional |-> 20]
=============================================================================
