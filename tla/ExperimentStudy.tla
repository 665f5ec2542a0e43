--------------------------- MODULE ExperimentStudy ---------------------------
(***************************************************************************)
(* OptunaTuner.tune (src/src/mltrade/experiments/tuning.py): tuners, each  *)
(* a process with one worker, share studies in a database and run every    *)
(* trial through ExperimentRuns.  A second worker of a tuner behaves as    *)
(* another tuner of the same study and context does.                       *)
(*                                                                         *)
(* A trial's seed hashes the specification's seed and the trial's number:  *)
(* trials of one number under one context are one run, with the pair as    *)
(* its id, and those of a study are distinct runs.  That two studies may   *)
(* sample different parameters for one number only keeps them apart.       *)
(***************************************************************************)
EXTENDS ExperimentRuns, Sequences

CONSTANTS Studies,
          Contexts,      \* what is hashed into a study's context hash
          NumTrials      \* n_trials of every tuner

Tuners == Callers

ASSUME StudyAssumption == NumTrials \in Nat \ {0} /\ None \notin Contexts

VARIABLES phase,     \* tuner -> where its process is
          study,     \* tuner -> the study it works on
          own,       \* tuner -> the context of its specification
          left,      \* tuner -> trials still to run
          context,   \* study -> its attribute mltrade.context_hash
          trials     \* study -> its trials in the order of their numbers

vars == <<runVars, phase, study, own, left, context, trials>>

Phase == {"idle", "check", "claim", "optimize", "trial", "done", "rejected",
          "aborted", "crashed"}
TunerEnded == {"done", "rejected", "aborted", "crashed"}
Trial == [context : Contexts, state : {"running", "complete", "fail"},
          run : Evidence \cup {None}]

Init ==
    /\ RunsInit
    /\ phase = [t \in Tuners |-> "idle"]
    /\ study = [t \in Tuners |-> None]
    /\ own = [t \in Tuners |-> None]
    /\ left = [t \in Tuners |-> NumTrials]
    /\ context = [s \in Studies |-> None]
    /\ trials = [s \in Studies |-> <<>>]
-----------------------------------------------------------------------------
MoveTo(t, p) == phase' = [phase EXCEPT ![t] = p]

\* create_study, which loads a study that exists.
Tune(t, s, x, track) ==
    /\ phase[t] = "idle"
    /\ MoveTo(t, "check")
    /\ study' = [study EXCEPT ![t] = s]
    /\ own' = [own EXCEPT ![t] = x]
    /\ tracks' = [tracks EXCEPT ![t] = track]
    /\ UNCHANGED <<place, runId, answer, records, staging, mirror, left, context, trials>>

\* What a process knew is gone with it.
Exit(t, p) ==
    /\ MoveTo(t, p)
    /\ study' = [study EXCEPT ![t] = None]
    /\ own' = [own EXCEPT ![t] = None]
    /\ left' = [left EXCEPT ![t] = 0]
    /\ runId' = [runId EXCEPT ![t] = None]
    /\ tracks' = [tracks EXCEPT ![t] = FALSE]

\* Mutant: a study of another context is resumed.
CheckNothing(t) ==
    /\ phase[t] = "check"
    /\ MoveTo(t, IF context[study[t]] = None THEN "claim" ELSE "optimize")
    /\ UNCHANGED <<runVars, study, own, left, context, trials>>

CheckContext(t) ==
    /\ phase[t] = "check"
    /\ IF context[study[t]] \in {None, own[t]}
       THEN /\ MoveTo(t, IF context[study[t]] = None THEN "claim" ELSE "optimize")
            /\ UNCHANGED <<runVars, study, own, left>>
       ELSE Exit(t, "rejected") /\ UNCHANGED <<place, answer, records, staging, mirror>>
    /\ UNCHANGED <<context, trials>>

Claim(t) ==
    /\ phase[t] = "claim"
    /\ context' = [context EXCEPT ![study[t]] = own[t]]
    /\ MoveTo(t, "optimize")
    /\ UNCHANGED <<runVars, study, own, left, trials>>

\* Mutant: one trial more than was asked for.
AskOnceMore(t) ==
    /\ phase[t] = "optimize"
    /\ LET s == study[t] IN
          /\ trials' = [trials EXCEPT ![s] =
                Append(@, [context |-> own[t], state |-> "running", run |-> None])]
          /\ Begin(t, <<own[t], Len(trials[s]) + 1>>)
    /\ MoveTo(t, "trial")
    /\ UNCHANGED <<study, own, left, context>>

\* The database numbers the trial and run is called with what was sampled.
\* RunIds bounds the numbers, from above those that the tuners reach.
Ask(t) ==
    /\ phase[t] = "optimize"
    /\ left[t] > 0
    /\ LET s == study[t] IN
          /\ <<own[t], Len(trials[s]) + 1>> \in RunIds
          /\ trials' = [trials EXCEPT ![s] =
                Append(@, [context |-> own[t], state |-> "running", run |-> None])]
          /\ Begin(t, <<own[t], Len(trials[s]) + 1>>)
    /\ MoveTo(t, "trial")
    /\ UNCHANGED <<study, own, left, context>>

\* The number of the trial that t runs is the one in its run's id.
Number(t) == runId[t][2]

\* run has returned or raised: only ExperimentBlocked and ExperimentFailed are
\* caught, what else it raises ends optimize, and with it the tuner.
Tell(t) ==
    /\ phase[t] = "trial"
    /\ place[t] \in Ended
    /\ trials' = [trials EXCEPT ![study[t]][Number(t)] =
          IF place[t] = "returned"
          THEN [@ EXCEPT !.state = "complete", !.run = EvidenceOf(answer[t])]
          ELSE [@ EXCEPT !.state = "fail"]]
    /\ GoTo(t, "idle")
    /\ IF place[t] \in {"untracked", "raised"} THEN Exit(t, "aborted")
       ELSE /\ MoveTo(t, "optimize")
            /\ left' = [left EXCEPT ![t] = @ - 1]
            /\ runId' = [runId EXCEPT ![t] = None]
            /\ UNCHANGED <<tracks, study, own>>
    /\ UNCHANGED <<answer, records, staging, mirror, context>>

\* All trials are done, or the time is up.
Finish(t) ==
    /\ phase[t] = "optimize"
    /\ Exit(t, "done")
    /\ UNCHANGED <<place, answer, records, staging, mirror, context, trials>>

\* The process is killed or interrupted; its trial stays "running".
Crash(t) ==
    /\ phase[t] \in {"check", "claim", "optimize", "trial"}
    /\ Exit(t, "crashed")
    /\ IF phase[t] = "trial" THEN GoTo(t, "crashed") ELSE UNCHANGED place
    /\ UNCHANGED <<answer, records, staging, mirror, context, trials>>

Advance(t) ==
    \/ CheckContext(t) \/ Claim(t) \/ Ask(t) \/ Tell(t) \/ Finish(t)
    \/ RunStep(t) /\ UNCHANGED <<phase, study, own, left, context, trials>>

Next ==
    \E t \in Tuners :
        \/ \E s \in Studies, x \in Contexts, track \in BOOLEAN : Tune(t, s, x, track)
        \/ Advance(t)
        \/ Crash(t)

\* A tuner that has started is sequential code over calls that return or raise.
Spec == Init /\ [][Next]_vars /\ \A t \in Tuners : WF_vars(Advance(t))
-----------------------------------------------------------------------------
TypeOK ==
    /\ RunsTypeOK
    /\ phase \in [Tuners -> Phase]
    /\ study \in [Tuners -> Studies \cup {None}]
    /\ own \in [Tuners -> Contexts \cup {None}]
    /\ left \in [Tuners -> 0 .. NumTrials]
    /\ context \in [Studies -> Contexts \cup {None}]
    /\ trials \in [Studies -> Seq(Trial)]

\* A study's trials are all of the context that is recorded for it: "resuming
\* with a changed dataset/objective/search context is rejected rather than
\* silently mixing incompatible trials" (tuning.py:4-6).
TrialsMatchContext ==
    \A s \in Studies : \A n \in DOMAIN trials[s] : trials[s][n].context = context[s]

\* A study's context is recorded and no tuner past the check holds another.
Settled(s) ==
    /\ context[s] # None
    /\ \A t \in Tuners : study[t] = s /\ phase[t] \in {"claim", "optimize", "trial"}
                              => own[t] = context[s]

\* Contexts meet only where two first tuners of a study both found none.  Once
\* the tuners that did so are of one context, or ended, no resume, crash or late
\* claim changes the study's context or adds a trial of another
\* (tuning.py:103-111).
StudiesStaySettled ==
    [][\A s \in Studies : Settled(s) =>
          /\ Settled(s)'
          /\ context'[s] = context[s]
          /\ \A n \in DOMAIN trials'[s] :
                trials'[s][n].context =
                    IF n \in DOMAIN trials[s] THEN trials[s][n].context ELSE context[s]]_vars

\* A trial that counts in a study has its canonical record in the store, and
\* is scored by what that record holds, whichever call of whichever study made
\* it (tuning.py:118-124, runbook research-experiments.md:81).
TrialsAreBacked ==
    \A s \in Studies : \A n \in DOMAIN trials[s] :
        trials[s][n].state = "complete" =>
            /\ trials[s][n].run # None
            /\ trials[s][n].run = EvidenceOf(records[<<trials[s][n].context, n>>])

\* The evidence of every run is recorded once and given unchanged.
KeepsRunLedger == Ledger!Spec

\* A tuner that has started ends, whatever other processes do or fail to do.
EveryTunerEnds == \A t \in Tuners : phase[t] = "check" ~> phase[t] \in TunerEnded
=============================================================================
