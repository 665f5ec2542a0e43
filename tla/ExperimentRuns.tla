--------------------------- MODULE ExperimentRuns ---------------------------
(***************************************************************************)
(* ExperimentRunner.run (src/src/mltrade/experiments/runner.py) over the   *)
(* run store and a tracker (storage.py, tracking.py): one action per step  *)
(* that another process can observe or fall between.  A run id hashes the  *)
(* specification, the data and the code, so what research makes of it is a *)
(* function of the id; a record also holds the times of the call that made *)
(* it, so no two calls make equal records.                                 *)
(***************************************************************************)
EXTENDS Naturals

CONSTANTS Callers,   \* threads that call run, one call at a time each
          RunIds,
          Verdict,   \* run id -> what research makes of it
          None       \* no record, no run

Verdicts == {"complete", "objective", "gate", "invalid", "error"}

ASSUME RunsAssumption == Verdict \in [RunIds -> Verdicts]

Record == [by : Callers, status : {"complete", "blocked"},
           failure : {"none", "objective", "tracking"},
           tracking : {"pending", "logged", "degraded"}]

\* What of a record is settled when it is first saved.
Evidence == [by : Callers, status : {"complete", "blocked"}]
EvidenceOf(r) == IF r = None THEN None ELSE [by |-> r.by, status |-> r.status]

ASSUME NoneIsNothing == None \notin Record \cup Evidence \cup RunIds

VARIABLES place,     \* caller -> the next step of its call
          runId,     \* caller -> the run it asks for
          tracks,    \* caller -> its tracker is MLflow, not the null one
          answer,    \* caller -> the record its last call has returned
          records,   \* run id -> run.json
          staging,   \* callers whose temporary directory exists
          mirror     \* run id, caller -> the MLflow run it has logged

runVars == <<place, runId, tracks, answer, records, staging, mirror>>

Working == {"lookup", "research", "save", "rename", "cleanup", "log", "logging",
            "mark", "degrade", "load"}
Ended == {"returned", "blocked", "failed", "untracked", "raised"}
Place == Working \cup Ended \cup {"idle", "crashed"}

RunsInit ==
    /\ place = [c \in Callers |-> "idle"]
    /\ runId = [c \in Callers |-> None]
    /\ tracks = [c \in Callers |-> FALSE]
    /\ answer = [c \in Callers |-> None]
    /\ records = [i \in RunIds |-> None]
    /\ staging = {}
    /\ mirror = [i \in RunIds |-> [c \in Callers |-> "none"]]
-----------------------------------------------------------------------------
GoTo(c, p) == place' = [place EXCEPT ![c] = p]

\* A call begins: the snapshot is there and is the one meant, or not.
Begin(c, id) ==
    /\ place[c] = "idle"
    /\ \/ GoTo(c, "lookup")
       \/ GoTo(c, "blocked")
    /\ runId' = [runId EXCEPT ![c] = id]
    /\ UNCHANGED <<tracks, answer, records, staging, mirror>>

Stored(c) == records[runId[c]] # None

\* Mutant: a record whose tracking is pending is waited for.
AwaitTracking(c) ==
    /\ place[c] = "lookup"
    /\ Stored(c) => records[runId[c]].tracking # "pending"
    /\ GoTo(c, IF Stored(c) THEN "load" ELSE "research")
    /\ UNCHANGED <<runId, tracks, answer, records, staging, mirror>>

Lookup(c) ==
    /\ place[c] = "lookup"
    /\ GoTo(c, IF Stored(c) THEN "load" ELSE "research")
    /\ UNCHANGED <<runId, tracks, answer, records, staging, mirror>>

\* Research, the gates and the metrics: a blocked gate and a metric that is
\* not finite raise, and leave no record.
Research(c) ==
    /\ place[c] = "research"
    /\ GoTo(c, CASE Verdict[runId[c]] = "gate" -> "blocked"
                 [] Verdict[runId[c]] = "invalid" -> "failed"
                 [] Verdict[runId[c]] = "error" -> "raised"
                 [] OTHER -> "save")
    /\ UNCHANGED <<runId, tracks, answer, records, staging, mirror>>

\* The record as its maker holds it, tracking pending.
Own(c) ==
    IF Verdict[runId[c]] = "objective"
    THEN [by |-> c, status |-> "blocked", failure |-> "objective", tracking |-> "pending"]
    ELSE [by |-> c, status |-> "complete", failure |-> "none", tracking |-> "pending"]

\* Mutant: a run directory that exists counts as saved.
JoinExisting(c) ==
    /\ place[c] = "save"
    /\ IF Stored(c) THEN GoTo(c, "log") /\ UNCHANGED staging
       ELSE GoTo(c, "rename") /\ staging' = staging \cup {c}
    /\ UNCHANGED <<runId, tracks, answer, records, mirror>>

\* The store refuses a record that differs from the one it has, as any other
\* call's does; else the files are written into a temporary directory.
Save(c) ==
    /\ place[c] = "save"
    /\ IF Stored(c) THEN GoTo(c, "raised") /\ UNCHANGED staging
       ELSE GoTo(c, "rename") /\ staging' = staging \cup {c}
    /\ UNCHANGED <<runId, tracks, answer, records, mirror>>

\* Mutant: the directory replaces one that is there.
ReplaceExisting(c) ==
    /\ place[c] = "rename"
    /\ records' = [records EXCEPT ![runId[c]] = Own(c)]
    /\ staging' = staging \ {c}
    /\ GoTo(c, "log")
    /\ UNCHANGED <<runId, tracks, answer, mirror>>

\* A rename onto a directory that has files in it fails.
Rename(c) ==
    /\ place[c] = "rename"
    /\ IF Stored(c) THEN GoTo(c, "cleanup") /\ UNCHANGED <<records, staging>>
       ELSE /\ records' = [records EXCEPT ![runId[c]] = Own(c)]
            /\ staging' = staging \ {c}
            /\ GoTo(c, "log")
    /\ UNCHANGED <<runId, tracks, answer, mirror>>

\* The finally clause; the OSError goes on to the caller.
Cleanup(c) ==
    /\ place[c] = "cleanup"
    /\ staging' = staging \ {c}
    /\ GoTo(c, "raised")
    /\ UNCHANGED <<runId, tracks, answer, records, mirror>>

\* The null tracker returns no id, and nothing is marked.  MLflow may fail
\* before it has created a run.
Log(c) ==
    /\ place[c] = "log"
    /\ \/ ~tracks[c] /\ GoTo(c, "load") /\ UNCHANGED mirror
       \/ /\ tracks[c]
          /\ mirror' = [mirror EXCEPT ![runId[c]][c] = "partial"]
          /\ GoTo(c, "logging")
       \/ tracks[c] /\ GoTo(c, "degrade") /\ UNCHANGED mirror
    /\ UNCHANGED <<runId, tracks, answer, records, staging>>

\* Mutant: a failure of the tracker is overlooked.
LogAnyhow(c) ==
    /\ place[c] = "logging"
    /\ \/ mirror' = [mirror EXCEPT ![runId[c]][c] = "complete"]
       \/ UNCHANGED mirror
    /\ GoTo(c, "mark")
    /\ UNCHANGED <<runId, tracks, answer, records, staging>>

\* Parameters, metrics, tags and artifacts follow, and any of it may fail.
Logging(c) ==
    /\ place[c] = "logging"
    /\ \/ GoTo(c, "mark") /\ mirror' = [mirror EXCEPT ![runId[c]][c] = "complete"]
       \/ GoTo(c, "degrade") /\ UNCHANGED mirror
    /\ UNCHANGED <<runId, tracks, answer, records, staging>>

\* run.json is replaced by the caller's own copy with the tracking state; a
\* failure to track takes the place of whatever failure was recorded.
Mark(c) ==
    /\ place[c] = "mark"
    /\ records' = [records EXCEPT ![runId[c]] = [Own(c) EXCEPT !.tracking = "logged"]]
    /\ GoTo(c, "load")
    /\ UNCHANGED <<runId, tracks, answer, staging, mirror>>

Degrade(c) ==
    /\ place[c] = "degrade"
    /\ records' = [records EXCEPT ![runId[c]] =
                      [Own(c) EXCEPT !.tracking = "degraded", !.failure = "tracking"]]
    /\ GoTo(c, "untracked")
    /\ UNCHANGED <<runId, tracks, answer, staging, mirror>>

\* Mutant: the call returns the record it has made, not the one stored.
AnswerOwn(c) ==
    /\ place[c] = "load"
    /\ answer' = [answer EXCEPT ![c] = Own(c)]
    /\ GoTo(c, "returned")
    /\ UNCHANGED <<runId, tracks, records, staging, mirror>>

Load(c) ==
    /\ place[c] = "load"
    /\ answer' = [answer EXCEPT ![c] = records[runId[c]]]
    /\ GoTo(c, "returned")
    /\ UNCHANGED <<runId, tracks, records, staging, mirror>>

RunStep(c) ==
    \/ Lookup(c) \/ Research(c) \/ Save(c) \/ Rename(c) \/ Cleanup(c)
    \/ Log(c) \/ Logging(c) \/ Mark(c) \/ Degrade(c) \/ Load(c)
-----------------------------------------------------------------------------
RunsTypeOK ==
    /\ place \in [Callers -> Place]
    /\ runId \in [Callers -> RunIds \cup {None}]
    /\ tracks \in [Callers -> BOOLEAN]
    /\ answer \in [Callers -> Record \cup {None}]
    /\ records \in [RunIds -> Record \cup {None}]
    /\ staging \subseteq Callers
    /\ mirror \in [RunIds -> [Callers -> {"none", "partial", "complete"}]]
    /\ \A c \in Callers :
          /\ place[c] \in Working => runId[c] \in RunIds
          /\ place[c] = "returned" => answer[c] # None

\* However many calls compute one run, and whenever they are killed, MLflow
\* gets one run of it at most (runner.py:219-228: tracking follows a save that
\* only one call can make).
LoggedOnce ==
    \A i \in RunIds : \A c, d \in Callers :
        mirror[i][c] # "none" /\ mirror[i][d] # "none" => c = d

\* What a record says of its tracking is so: "logged" means that its maker's
\* MLflow run is complete, "degraded" that it is not, and a call that tracks
\* and returns its own record has had it logged (runner.py:329-345).
TrackingIsTrue ==
    /\ \A i \in RunIds : records[i] # None =>
          /\ records[i].tracking = "logged" => mirror[i][records[i].by] = "complete"
          /\ records[i].tracking = "degraded" => mirror[i][records[i].by] # "complete"
          /\ records[i].tracking = "degraded" <=> records[i].failure = "tracking"
    /\ \A c \in Callers :
          place[c] = "returned" /\ tracks[c] /\ answer[c].by = c =>
              answer[c].tracking = "logged"

\* A call that has ended, in whatever way, has left no temporary directory;
\* only one that was killed can (storage.py:91-93).
NoLitter == \A c \in staging : place[c] \in {"rename", "cleanup", "crashed"}

\* The store as its users see it: the evidence of a run is what was recorded
\* first, and every call that returns is given it.
Ledger == INSTANCE RunLedger WITH
    ledger <- [i \in RunIds |-> EvidenceOf(records[i])],
    given <- [c \in Callers |-> EvidenceOf(answer[c])]
=============================================================================
