------------------------- MODULE MCSimulatedExecution -------------------------
(* SimulatedExecution with values for TLC: previews of up to two intents,  *)
(* unblocked or blocked by either gate.                                    *)
EXTENDS SimulatedExecution, TLC

CONSTANTS k1, k2, c1, c2

Quantities == (c1 :> 1) @@ (c2 :> 3)

Open(s) == [intents |-> s, risk_blocked |-> FALSE,
            reconciliation_blocked |-> FALSE]

SomePreviews == {Open(<<c1, c2>>), Open(<<c2>>), Open(<<>>),
                 [Open(<<c1, c2>>) EXCEPT !.risk_blocked = TRUE],
                 [Open(<<c2>>) EXCEPT !.reconciliation_blocked = TRUE]}
=============================================================================
