----------------------------- MODULE MCBacktest -----------------------------
(* Backtest with values for TLC: two symbols, ten sessions.  The panels are  *)
(* complete or fail the quality gate in one way each.                        *)
EXTENDS Backtest

Bar(s, d) == [symbol |-> s, session |-> d]
Sorted(set) ==
    SelectSeq([i \in 1 .. 30 |-> Bar(1 + ((i - 1) % 3), 1 + ((i - 1) \div 3))],
              LAMBDA bar : bar \in set)

Full(from) == {Bar(s, d) : s \in 1 .. 2, d \in from .. 10}
MCPanels ==
    {<<>>,
     Sorted(Full(1)),
     Sorted(Full(3)),                                      \* short history
     Sorted(Full(8)),                                      \* too short
     Sorted(Full(1) \ {Bar(2, d) : d \in 1 .. 4}),         \* a late listing
     Sorted(Full(1) \ {Bar(2, 8)}),                        \* a gap
     Sorted(Full(1) \ {Bar(s, 8) : s \in 1 .. 2}),
     Sorted(Full(1) \ {Bar(2, d) : d \in 8 .. 10}),        \* a delisting
     Sorted(Full(1) \ {Bar(s, 10) : s \in 1 .. 2}),        \* stale
     Sorted(Full(1) \ {Bar(2, d) : d \in 1 .. 10}),        \* a symbol missing
     Sorted(Full(1) \cup {Bar(3, 9)}),                     \* a foreign symbol
     Append(Sorted(Full(1)), Bar(2, 10)),                  \* a duplicate
     Reverse(Sorted(Full(1)))}                             \* unsorted

\* A quiet market, and one whose prices halve overnight.
Quiet == [s \in 1 .. 2 |-> [d \in 1 .. 10 |->
    [open |-> 30 + ((3 * d + s) % 7), close |-> 30 + ((5 * d + 2 * s) % 9)]]]
Crash == [s \in 1 .. 2 |-> [d \in 1 .. 10 |->
    IF d < 8 THEN [open |-> 40, close |-> 44 + s]
    ELSE [open |-> 20 + s, close |-> 19]]]
MCPaths == {Quiet, Crash}

MCSensitivity == <<5, 100>>
MCSolutions == {Failed, <<400, 400>>, <<-1, 509>>, <<505, 505>>, <<9, 0>>}
=============================================================================
