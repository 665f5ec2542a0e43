-------------------------- MODULE ExperimentCommands -------------------------
(***************************************************************************)
(* The experiment commands (src/src/mltrade/cli.py) around the tuners of   *)
(* ExperimentStudy: what `tune` and `resume` name as the best run, what    *)
(* `compare` ranks (comparison.py) and what `report` writes (reporting.py),*)
(* each a process that loads records while others make and track them.     *)
(*                                                                         *)
(* A run id hashes the specification, the data and the worktree's diff:    *)
(* metrics, compatibility key and dirtiness are functions of it.           *)
(***************************************************************************)
EXTENDS ExperimentStudy, Integers, SequencesExt, Loops

CONSTANTS Readers,         \* processes that compare or report, once each
          Commands,        \* what they may be asked
          Robust,          \* run id -> robust_sharpe
          Rest,            \* run id -> its place by sharpe, drawdown, turnover
          IdOrder,         \* run id -> its place among the run ids as strings
          CompatibilityKey,
          Dirty            \* runs of a worktree with uncommitted changes

Command == [name : {"compare", "report"}, ids : Seq(RunIds), dirty : BOOLEAN]

ASSUME CommandsAssumption ==
    /\ Commands \subseteq Command
    /\ \A cmd \in Commands : IF cmd.name = "report" THEN Len(cmd.ids) = 1
                              ELSE cmd.ids # <<>>
    /\ Robust \in [RunIds -> Int] /\ Rest \in [RunIds -> Int]
    /\ IdOrder \in [RunIds -> Nat] /\ IsInjective(IdOrder)
    /\ DOMAIN CompatibilityKey = RunIds
    /\ Dirty \subseteq RunIds
    /\ None \notin [of : Record \cup {None}, artifacts : BOOLEAN]

VARIABLES winner,   \* study -> best_run_id as the last tuner to end gave it
          report,   \* run id -> report.json
          command,  \* reader -> what it was asked
          loaded    \* reader -> the records it has loaded, None for a failure

commandVars == <<winner, report, command, loaded>>
allVars == <<vars, commandVars>>

\* report.json shows a record, with the list of artifacts or without, or is
\* torn: a process was killed as it wrote.
Torn == [of |-> None, artifacts |-> FALSE]

CommandsInit ==
    /\ Init
    /\ winner = [s \in Studies |-> None]
    /\ report = [i \in RunIds |-> None]
    /\ command = [q \in Readers |-> None]
    /\ loaded = [q \in Readers |-> <<>>]
-----------------------------------------------------------------------------
\* compare_runs.  The order of Python's sort on the metrics, the run id last.
Better(i, j) ==
    \/ Robust[i] > Robust[j]
    \/ Robust[i] = Robust[j] /\ \/ Rest[i] > Rest[j]
                                \/ Rest[i] = Rest[j] /\ IdOrder[i] < IdOrder[j]

\* Mutant: a run counts once its tracking has succeeded.
EligibleOnceLogged(i, r, dirty) ==
    r.status = "complete" /\ r.tracking = "logged" /\ (dirty \/ i \notin Dirty)

Eligible(i, r, dirty) ==
    r.status = "complete" /\ r.tracking # "degraded" /\ (dirty \/ i \notin Dirty)

Compatible(ids) == \A i, j \in Range(ids) : CompatibilityKey[i] = CompatibilityKey[j]

\* How many of the runs asked for are better: runs sorted by it are in order.
Standing(i, ids) == Cardinality({n \in DOMAIN ids : Better(ids[n], i)})

\* The positions asked for that a comparison ranks, best first; a run that was
\* asked for twice is ranked twice.
Ranking(cmd, records_) ==
    LET eligible == {n \in DOMAIN cmd.ids : Eligible(cmd.ids[n], records_[n], cmd.dirty)}
        positions == Picks([n \in 1 .. Len(cmd.ids) |-> n], eligible)
        standings == [k \in DOMAIN positions |-> Standing(cmd.ids[positions[k]], cmd.ids)]
    IN  IF Compatible(cmd.ids) THEN SortedBy(positions, standings) ELSE <<>>
-----------------------------------------------------------------------------
\* The run of trial n of a study.
RunOf(s, n) == <<trials[s][n].context, n>>
CompleteTrials(s) == {n \in DOMAIN trials[s] : trials[s][n].state = "complete"}

\* Mutant: the last trial to be completed is taken for the best.
LastTrials(s) ==
    {n \in CompleteTrials(s) : \A m \in CompleteTrials(s) : m <= n}

\* study.best_trial: of the complete trials one with the highest value.
BestTrials(s) ==
    {n \in CompleteTrials(s) : \A m \in CompleteTrials(s) :
        Robust[RunOf(s, m)] <= Robust[RunOf(s, n)]}

\* tune returns, and the command prints the best run of the whole study.
FinishTuning(t) ==
    /\ Finish(t)
    /\ \E best \in IF CompleteTrials(study[t]) = {} THEN {None}
                   ELSE {RunOf(study[t], n) : n \in BestTrials(study[t])} :
          winner' = [winner EXCEPT ![study[t]] = best]
    /\ UNCHANGED <<report, command, loaded>>

\* Mutant: the report waits until the tracking is settled.
PublishWhenTracked ==
    report' = [i \in RunIds |->
        IF report[i] = None /\ records'[i] # None /\ records'[i].tracking # "pending"
        THEN [of |-> records'[i], artifacts |-> FALSE]
        ELSE report[i]]

\* The report is made from the record before the list of its artifacts, of
\* which it is one, and it is saved with it, before tracking.
PublishReports ==
    report' = [i \in RunIds |-> IF records[i] = None /\ records'[i] # None
                                THEN [of |-> records'[i], artifacts |-> FALSE]
                                ELSE report[i]]

TunerStep(t) ==
    \/ FinishTuning(t)
    \/ /\ \/ \E s \in Studies, x \in Contexts, track \in BOOLEAN : Tune(t, s, x, track)
          \/ CheckContext(t) \/ Claim(t) \/ Ask(t) \/ Tell(t) \/ Crash(t)
          \/ RunStep(t) /\ UNCHANGED <<phase, study, own, left, context, trials>>
       /\ PublishReports
       /\ UNCHANGED <<winner, command, loaded>>
-----------------------------------------------------------------------------
Request(q, cmd) ==
    /\ command[q] = None
    /\ command' = [command EXCEPT ![q] = cmd]
    /\ UNCHANGED <<vars, winner, report, loaded>>

Failed(q) == None \in Range(loaded[q])
AllLoaded(q) == command[q] # None /\ Len(loaded[q]) = Len(command[q].ids) /\ ~Failed(q)

\* store.load, record by record; one that is missing ends the command.
LoadNext(q) ==
    /\ command[q] # None /\ ~AllLoaded(q) /\ ~Failed(q)
    /\ loaded' = [loaded EXCEPT ![q] =
                     Append(@, records[command[q].ids[Len(@) + 1]])]
    /\ UNCHANGED <<vars, winner, report, command>>

\* report.json is overwritten in place with the record as it was loaded; a
\* process that is killed as it writes leaves a part of it.
WriteReport(q) ==
    /\ AllLoaded(q) /\ command[q].name = "report"
    /\ \E content \in {[of |-> loaded[q][1], artifacts |-> TRUE], Torn} :
          report' = [report EXCEPT ![command[q].ids[1]] = content]
    /\ command' = [command EXCEPT ![q] = None]
    /\ loaded' = [loaded EXCEPT ![q] = <<>>]
    /\ UNCHANGED <<vars, winner>>

CommandsNext ==
    \/ \E t \in Tuners : TunerStep(t)
    \/ \E q \in Readers :
          \/ \E cmd \in Commands : Request(q, cmd)
          \/ LoadNext(q)
          \/ WriteReport(q)

CommandsSpec == CommandsInit /\ [][CommandsNext]_allVars
-----------------------------------------------------------------------------
Compared(q) == AllLoaded(q) /\ command[q].name = "compare"

\* The runs that a comparison of these records ranks, best first.
Ranked(cmd, records_) ==
    LET best == Ranking(cmd, records_) IN [n \in DOMAIN best |-> cmd.ids[best[n]]]

\* A comparison stands: asked again at any later time, with the runs the other
\* way round, it ranks the same runs in the same order but for those that have
\* lost their tracking since, although its records were loaded one by one while
\* runs were being tracked, and some runs tie (comparison.py:40-57, cli.py:706).
ComparisonsStand ==
    \A q \in Readers : Compared(q) =>
        LET cmd == [command[q] EXCEPT !.ids = Reverse(@)]
            now == [n \in DOMAIN cmd.ids |-> records[cmd.ids[n]]]
            tracked == {i \in Range(cmd.ids) : records[i].tracking # "degraded"}
        IN  Ranked(cmd, now) = Picks(Ranked(command[q], loaded[q]), tracked)

\* Tuning a study further, or again after a crash, or by several tuners at a
\* time, never names a worse run than it has named (tuning.py:139-149): no
\* trial that counted is lost or scored anew.
WinnersOnlyImprove ==
    [][\A s \in Studies : winner[s] # None =>
          winner'[s] # None /\ Robust[winner'[s]] >= Robust[winner[s]]]_allVars

\* Every recorded run has a report, of its own evidence, whoever has written
\* it last and whatever else wrote the record meanwhile; where the two differ
\* the report is the older one, made before the tracking was settled
\* (runner.py:196, cli.py:738-739).
ReportsLagAtMost ==
    \A i \in RunIds :
        /\ records[i] # None <=> report[i] # None
        /\ report[i] \notin {None, Torn} =>
              /\ EvidenceOf(report[i].of) = EvidenceOf(records[i])
              /\ report[i].of = records[i] \/ report[i].of.tracking = "pending"
-----------------------------------------------------------------------------
(* A document's claim that the code does not keep.                         *)

\* "A run whose backtest violates the spec's maximum_drawdown floor or
\* maximum_turnover cap is recorded with status blocked and excluded from
\* ranking": the best run of a study has met its objective (tuning.py:121-125).
WinnersMeetTheirObjective ==
    \A s \in Studies : winner[s] # None => records[winner[s]].status = "complete"
=============================================================================
