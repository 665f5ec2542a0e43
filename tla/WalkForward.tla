----------------------------- MODULE WalkForward -----------------------------
(***************************************************************************)
(* Training and forecasting for one decision session (src/src/mltrade/     *)
(* models/walk_forward.py): the embargoed training split and the guards of *)
(* generate_forecast_batch.  The Ridge fit and the standardisation are     *)
(* left out: what they predict is any value.  The checks for non-finite    *)
(* features are left out too, as a row's features are finite by            *)
(* construction (Features).                                                *)
(***************************************************************************)
EXTENDS Features

CONSTANTS Embargo,       \* embargo_sessions
          MinTraining    \* minimum_training_sessions

ASSUME WalkForwardAssumption ==
    Embargo \in Nat \ {0} /\ MinTraining \in Nat \ {0}

\* Mutant: the zone starts one session late.
EmbargoStartLate(d) == d - Embargo + 2

\* The first of the Embargo sessions of the calendar that end at, and include,
\* the decision session.
EmbargoStart(d) == d - Embargo + 1

\* Rows with features and a label that ends before the embargo zone.
TrainingSplit(rows, d) ==
    {r \in rows : /\ ~r.missing
                  /\ r.label_end_session # NoLabel
                  /\ r.label_end_session < EmbargoStart(d)}

\* The rows the forecast is made for.
CrossSection(rows, d) == {r \in rows : r.decision_session = d /\ ~r.missing}

\* Too few distinct training sessions, or nothing to predict.
ForecastBlocked(rows, d) ==
    \/ Cardinality({r.decision_session : r \in TrainingSplit(rows, d)}) < MinTraining
    \/ CrossSection(rows, d) = {}

\* The batch: the symbols forecast, and the sessions of the data it rests on.
ForecastBatch(rows, d) ==
    [symbols |-> {r.symbol : r \in CrossSection(rows, d)},
     labels  |-> {r.label_end_session : r \in TrainingSplit(rows, d)},
     inputs  |-> {r.decision_session : r \in
                     TrainingSplit(rows, d) \cup CrossSection(rows, d)}]
=============================================================================
