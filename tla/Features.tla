------------------------------ MODULE Features ------------------------------
(***************************************************************************)
(* build_feature_rows (src/src/mltrade/features/pipeline.py): one row per  *)
(* bar, computed from the bars of its own symbol by row shifts.  Kept of a *)
(* row is what decides where it may be used: its session, whether its      *)
(* features are missing, and the session its forward return ends at.  The  *)
(* values of the features are left out: the code replaces a non-finite one *)
(* by zero, so they never stop anything downstream.                        *)
(***************************************************************************)
EXTENDS Loops, SequencesExt

CONSTANTS Lookback,   \* earlier bars a full row of features needs
          Horizon     \* bars from a row to the end of its forward return

ASSUME FeaturesAssumption == Lookback \in Nat /\ Horizon \in Nat \ {0}

NoLabel == 0          \* no session: they are numbered from 1

\* The sessions of a symbol's bars, ascending.
History(bars, symbol) ==
    LET own == Picks(bars, {bar \in ToSet(bars) : bar.symbol = symbol})
        sessions == [i \in DOMAIN own |-> own[i].session]
    IN SortedBy(sessions, sessions)

Row(history, symbol, i) ==
    [symbol |-> symbol,
     row |-> i,
     decision_session |-> history[i],
     missing |-> i <= Lookback,
     label_end_session |-> IF i + Horizon \in DOMAIN history
                           THEN history[i + Horizon] ELSE NoLabel]

FeatureRows(bars) ==
    UNION {LET history == History(bars, s)
           IN {Row(history, s, i) : i \in DOMAIN history}
           : s \in {bar.symbol : bar \in ToSet(bars)}}
=============================================================================
