------------------------------ MODULE Optimizer ------------------------------
(***************************************************************************)
(* build_target (src/src/mltrade/portfolio/optimizer.py), from the symbols *)
(* whose forecast and volatility are positive and from what the solver     *)
(* answers to the OptimizationResult.  The convex problem is left out: the *)
(* solver may fail or answer any vector, and the checks behind it decide.  *)
(* Weights are percents of the net asset value, the solver's are finer:    *)
(* Ticks to a percent.                                                     *)
(***************************************************************************)
EXTENDS Accounting

CONSTANTS MaxPosition,   \* PortfolioLimits, in percent
          MinCash,
          Ticks,
          Failed         \* the solver raised, gave up or was not finite

ASSUME OptimizerAssumption ==
    /\ MinCash \in 1 .. 99 /\ MaxPosition \in 1 .. 100 - MinCash
    /\ Ticks \in Nat \ {0}

NoWeights == [s \in Symbols |-> 0]
AllCashFlat == [weights |-> NoWeights, blocked |-> FALSE]
AllCashBlocked == [weights |-> NoWeights, blocked |-> TRUE]

\* The solver's weights rounded down, kept when positive.
Quantized(qualified, solution) ==
    [s \in Symbols |->
        IF s \in qualified /\ solution[s] \div Ticks > 0
        THEN solution[s] \div Ticks ELSE 0]

\* The checks made after rounding, whatever the solver promised.
WithinLimits(weights) ==
    /\ \A s \in Symbols : weights[s] <= MaxPosition
    /\ Total(weights) <= 100 - MinCash

\* Nothing to hold is a flat target; a solution out of its limits, or none, is
\* a blocked one.
BuildTarget(qualified, solution) ==
    IF qualified = {} THEN AllCashFlat
    ELSE IF solution = Failed \/ ~WithinLimits(Quantized(qualified, solution))
         THEN AllCashBlocked
         ELSE [weights |-> Quantized(qualified, solution), blocked |-> FALSE]
=============================================================================
