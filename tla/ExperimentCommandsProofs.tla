----------------------- MODULE ExperimentCommandsProofs ----------------------
(***************************************************************************)
(* Proofs about ExperimentCommands: what the reports and the winners of    *)
(* studies say of the records and the trials, for any number of readers,   *)
(* tuners, studies and runs, whatever the commands ask for.                *)
(***************************************************************************)
EXTENDS ExperimentCommands, ExperimentStudyProofs, LoopsProofs

Content == [of : Record \cup {None}, artifacts : BOOLEAN]

\* A copy of a record that was made at some time: it is the record, or is
\* from before its tracking was settled.
CopyOf(i, r) ==
    /\ records[i] # None /\ EvidenceOf(r) = EvidenceOf(records[i])
    /\ r = records[i] \/ r.tracking = "pending"

\* What a reader has loaded are copies of the first records it was asked for.
LoadedInv(q) ==
    /\ command[q] \in Commands \cup {None}
    /\ loaded[q] \in Seq(Record \cup {None})
    /\ command[q] = None => loaded[q] = <<>>
    /\ command[q] # None => Len(loaded[q]) <= Len(command[q].ids)
    /\ \A n \in DOMAIN loaded[q] :
          loaded[q][n] # None => CopyOf(command[q].ids[n], loaded[q][n])

ReportsInv ==
    /\ ReportsLagAtMost
    /\ report \in [RunIds -> Content \cup {None}]
    /\ command \in [Readers -> Commands \cup {None}]
    /\ loaded \in [Readers -> Seq(Record \cup {None})]
    /\ \A q \in Readers : LoadedInv(q)

\* The trial of a tuner is running, and is no other tuner's.
RunningInv ==
    /\ \A c \in Tuners : phase[c] = "trial" =>
          /\ Number(c) \in DOMAIN trials[study[c]]
          /\ trials[study[c]][Number(c)].state = "running"
    /\ \A c, d \in Tuners :
          /\ phase[c] = "trial" /\ phase[d] = "trial"
          /\ study[c] = study[d] /\ Number(c) = Number(d)
          => c = d

\* The best run of a study is that of a trial which counts.
WinnersInv ==
    /\ winner \in [Studies -> RunIds \cup {None}]
    /\ \A s \in Studies : winner[s] # None =>
          \E n \in CompleteTrials(s) : winner[s] = RunOf(s, n)
-----------------------------------------------------------------------------
\* A command leaves the tuners alone, and a tuner's step is one of its study.
LEMMA StepIsStudys ==
    ASSUME [CommandsNext]_allVars
    PROVE  [Next]_vars
<1>1. ASSUME NEW t \in Tuners, TunerStep(t) PROVE Next
  BY <1>1 DEF TunerStep, FinishTuning, Next, Advance
<1>2. ASSUME NEW q \in Readers,
             (\E cmd \in Commands : Request(q, cmd)) \/ LoadNext(q) \/ WriteReport(q)
      PROVE  UNCHANGED vars
  BY <1>2 DEF Request, LoadNext, WriteReport
<1>3. CASE UNCHANGED allVars
  BY <1>3 DEF allVars
<1> QED
  BY <1>1, <1>2, <1>3 DEF CommandsNext

\* What holds of the studies holds with the commands around them.
THEOREM StudiesInvariant == CommandsSpec => []IndInv
<1>1. CommandsInit => IndInv
  BY Initially DEF CommandsInit
<1>2. IndInv /\ [CommandsNext]_allVars => IndInv'
  BY StepIsStudys, Inductive
<1> QED
  BY <1>1, <1>2, PTL DEF CommandsSpec

\* A record that is there keeps its evidence, and is what it was unless its
\* tracking was pending.
LEMMA RecordsSettle ==
    ASSUME IndInv, [Next]_vars, NEW i \in RunIds, records[i] # None
    PROVE  /\ records'[i] # None /\ EvidenceOf(records'[i]) = EvidenceOf(records[i])
           /\ records'[i] = records[i] \/ records[i].tracking = "pending"
<1> DEFINE Limited == /\ records'[i] # None
                      /\ EvidenceOf(records'[i]) = EvidenceOf(records[i])
                      /\ records'[i] = records[i] \/ records[i].tracking = "pending"
<1> SUFFICES Limited
  OBVIOUS
<1>1. TypeOK /\ \A c \in Callers : CallInv(c)
  BY DEF IndInv
<1>2. CASE records' = records
  BY <1>2
<1>3. ASSUME NEW c \in Callers, Rename(c), Frame PROVE Limited
  BY <1>1, <1>2, <1>3 DEF Rename, Stored, TypeOK, RunsTypeOK
<1>4. ASSUME NEW c \in Callers, Mark(c) \/ Degrade(c), Frame PROVE Limited
  <2>1. StoreAlone(c) /\ records[runId[c]] = Own(c)
    BY <1>1, <1>4, MarkKeeps DEF Mark, Degrade, CallInv, MakerInv, Making
  <2>2. records'[i] = records[i] \/ i = runId[c]
    BY <1>1, <1>4 DEF Mark, Degrade, TypeOK, RunsTypeOK
  <2>3. Own(c).tracking = "pending"
    BY OwnRecord
  <2> QED
    BY <2>1, <2>2, <2>3, NoneIsNothing DEF StoreAlone
<1>5. ASSUME NEW c \in Callers, RunStep(c), Frame PROVE Limited
  <2>1. CASE \/ Lookup(c) \/ Research(c) \/ Save(c) \/ Cleanup(c)
             \/ Log(c) \/ Logging(c) \/ Load(c)
    BY <1>2, <2>1 DEF Lookup, Research, Save, Cleanup, Log, Logging, Load
  <2> QED
    BY <1>3, <1>4, <1>5, <2>1 DEF RunStep
<1>6. ASSUME NEW c \in Callers,
             \/ \E s \in Studies, x \in Contexts, track \in BOOLEAN : Tune(c, s, x, track)
             \/ CheckContext(c) \/ Claim(c) \/ Ask(c) \/ Tell(c) \/ Finish(c) \/ Crash(c)
      PROVE  records' = records
  BY <1>6 DEF Tune, CheckContext, Claim, Ask, Begin, Tell, Finish, Crash, runVars
<1>7. CASE UNCHANGED vars
  BY <1>2, <1>7 DEF vars, runVars
<1> QED
  BY <1>2, <1>5, <1>6, <1>7 DEF Next, Advance, Frame, Tuners

\* A copy stays one.
LEMMA CopiesStay ==
    ASSUME IndInv, [Next]_vars, NEW i \in RunIds, NEW r, CopyOf(i, r)
    PROVE  CopyOf(i, r)'
BY RecordsSettle DEF CopyOf
-----------------------------------------------------------------------------
\* The contents of a report are never taken for no report.
LEMMA ContentIsSome == None \notin Content /\ Torn \in Content
BY CommandsAssumption DEF Content, Torn

\* A record that is made, or settled, by a tuner.
LEMMA PublishKeeps ==
    ASSUME IndInv, ReportsInv, [Next]_vars, PublishReports, UNCHANGED <<command, loaded>>
    PROVE  ReportsInv'
<1>1. TypeOK /\ TypeOK'
  BY Inductive DEF IndInv
<1>2. records \in [RunIds -> Record \cup {None}] /\ records' \in [RunIds -> Record \cup {None}]
  BY <1>1 DEF TypeOK, RunsTypeOK
<1>3. ASSUME NEW i \in RunIds
      PROVE  /\ report'[i] \in Content \cup {None}
             /\ records'[i] # None <=> report'[i] # None
             /\ report'[i] \notin {None, Torn} => CopyOf(i, report[i].of)'
  <2>1. /\ report[i] \in Content \cup {None} /\ (records[i] # None <=> report[i] # None)
        /\ report[i] \notin {None, Torn} => CopyOf(i, report[i].of)
    BY DEF ReportsInv, ReportsLagAtMost, CopyOf
  <2>2. CASE records[i] = None /\ records'[i] # None
    <3>1. report'[i] = [of |-> records'[i], artifacts |-> FALSE]
      BY <2>2 DEF PublishReports
    <3>2. report'[i] \in Content /\ report'[i].of = records'[i]
      BY <1>2, <2>2, <3>1 DEF Content
    <3>3. CopyOf(i, report[i].of)'
      BY <2>2, <3>2 DEF CopyOf
    <3> QED
      BY <2>2, <3>2, <3>3, ContentIsSome
  <2>3. CASE records[i] # None
    <3>1. report'[i] = report[i] /\ records'[i] # None
      BY <2>3, RecordsSettle DEF PublishReports
    <3>2. ASSUME report[i] \notin {None, Torn} PROVE CopyOf(i, report[i].of)'
      <4>1. CopyOf(i, report[i].of)
        BY <2>1, <3>2
      <4>2. \A r : CopyOf(i, r) => CopyOf(i, r)'
        BY CopiesStay
      <4> QED
        BY <3>1, <4>1, <4>2 DEF CopyOf
    <3> QED
      BY <2>1, <2>3, <3>1, <3>2
  <2>4. CASE records[i] = None /\ records'[i] = None
    BY <2>1, <2>4 DEF PublishReports
  <2> QED
    BY <2>2, <2>3, <2>4
<1>4. report' \in [RunIds -> Content \cup {None}] /\ ReportsLagAtMost'
  BY <1>3 DEF ReportsLagAtMost, PublishReports, CopyOf
<1>5. ASSUME NEW q \in Readers PROVE LoadedInv(q)'
  <2>1. LoadedInv(q)
    BY DEF ReportsInv
  <2>2. ASSUME NEW n \in DOMAIN loaded[q], loaded[q][n] # None
        PROVE  CopyOf(command[q].ids[n], loaded[q][n])'
    <3>1. command[q] \in Commands /\ Len(loaded[q]) <= Len(command[q].ids)
      BY <2>1 DEF LoadedInv
    <3>2. command[q].ids \in Seq(RunIds) /\ loaded[q] \in Seq(Record \cup {None})
      BY <2>1, <3>1, CommandsAssumption DEF LoadedInv, Command
    <3>3. n \in DOMAIN command[q].ids
      BY <3>1, <3>2
    <3>4. command[q].ids[n] \in RunIds
      BY <3>2, <3>3
    <3>5. CopyOf(command[q].ids[n], loaded[q][n])
      BY <2>1, <2>2 DEF LoadedInv
    <3>6. \A r : CopyOf(command[q].ids[n], r) => CopyOf(command[q].ids[n], r)'
      BY <3>4, CopiesStay
    <3> QED
      BY <3>5, <3>6 DEF CopyOf
  <2> QED
    BY <2>1, <2>2 DEF LoadedInv
<1> QED
  BY <1>4, <1>5 DEF ReportsInv

\* A reader's step, which touches no other reader.
LEMMA ReaderKeeps ==
    ASSUME IndInv, ReportsInv, NEW q \in Readers,
           \/ \E cmd \in Commands : Request(q, cmd)
           \/ LoadNext(q)
           \/ WriteReport(q)
    PROVE  ReportsInv'
<1> USE DEF CopyOf
<1>1. /\ LoadedInv(q) /\ ReportsLagAtMost
      /\ report \in [RunIds -> Content \cup {None}]
      /\ command \in [Readers -> Commands \cup {None}]
      /\ loaded \in [Readers -> Seq(Record \cup {None})]
      /\ records \in [RunIds -> Record \cup {None}]
  BY DEF ReportsInv, IndInv, TypeOK, RunsTypeOK
<1>2. records' = records
  BY DEF Request, LoadNext, WriteReport, vars, runVars
<1> DEFINE Kept == /\ ReportsLagAtMost' /\ report' \in [RunIds -> Content \cup {None}]
                   /\ command'[q] \in Commands \cup {None}
                   /\ loaded'[q] \in Seq(Record \cup {None})
                   /\ command' = [command EXCEPT ![q] = command'[q]]
                   /\ loaded' = [loaded EXCEPT ![q] = loaded'[q]]
                   /\ LoadedInv(q)'
<1>3. ASSUME NEW cmd \in Commands, Request(q, cmd) PROVE Kept
  <2>1. /\ command[q] = None /\ command' = [command EXCEPT ![q] = cmd]
        /\ UNCHANGED <<report, loaded>>
    BY <1>3 DEF Request
  <2>2. loaded[q] = <<>> /\ command'[q] = cmd
    BY <1>1, <2>1 DEF LoadedInv
  <2>3. cmd.ids \in Seq(RunIds)
    BY CommandsAssumption DEF Command
  <2>4. LoadedInv(q)'
    BY <1>1, <2>1, <2>2, <2>3 DEF LoadedInv
  <2> QED
    BY <1>1, <1>2, <2>1, <2>2, <2>4 DEF ReportsLagAtMost
<1>4. ASSUME LoadNext(q) PROVE Kept
  <2> DEFINE ids == command[q].ids
             n == Len(loaded[q]) + 1
             r == records[ids[n]]
  <2>1. /\ command[q] # None /\ ~AllLoaded(q) /\ ~Failed(q)
        /\ loaded' = [loaded EXCEPT ![q] = Append(loaded[q], r)]
        /\ UNCHANGED <<report, command>>
    BY <1>1, <1>4 DEF LoadNext
  <2>2. loaded[q] \in Seq(Record \cup {None}) /\ ids \in Seq(RunIds)
    BY <1>1, <2>1, CommandsAssumption DEF LoadedInv, Command
  <2>3. n \in 1 .. Len(ids) /\ ids[n] \in RunIds
    BY <1>1, <2>1, <2>2 DEF LoadedInv, AllLoaded
  <2>4. r \in Record \cup {None} /\ loaded'[q] = Append(loaded[q], r)
    BY <1>1, <2>1, <2>3
  <2> HIDE DEF r
  <2>5. /\ loaded'[q] \in Seq(Record \cup {None}) /\ Len(loaded'[q]) = n
        /\ \A m \in 1 .. Len(loaded[q]) : loaded'[q][m] = loaded[q][m]
        /\ loaded'[q][n] = r
    BY <2>2, <2>4, AppendProperties
  <2>6. \A m \in DOMAIN loaded'[q] : m \in DOMAIN loaded[q] \/ m = n
    BY <2>2, <2>5
  <2>7. r # None => CopyOf(ids[n], r)
    BY <2>3 DEF r
  <2>8. \A m \in DOMAIN loaded'[q] :
           loaded'[q][m] # None => CopyOf(ids[m], loaded'[q][m])
    <3> HIDE DEF n
    <3>1. \A m \in DOMAIN loaded[q] :
             loaded[q][m] # None => CopyOf(ids[m], loaded[q][m])
      BY <1>1 DEF LoadedInv
    <3> HIDE DEF CopyOf
    <3> QED
      BY <2>2, <2>5, <2>6, <2>7, <3>1
  <2>9. LoadedInv(q)'
    BY <1>1, <1>2, <2>1, <2>3, <2>5, <2>8 DEF LoadedInv
  <2> QED
    BY <1>1, <1>2, <2>1, <2>4, <2>5, <2>9 DEF ReportsLagAtMost
<1>5. ASSUME WriteReport(q) PROVE Kept
  <2> DEFINE id == command[q].ids[1]
             r == loaded[q][1]
  <2>1. /\ AllLoaded(q) /\ command[q].name = "report"
        /\ command' = [command EXCEPT ![q] = None]
        /\ loaded' = [loaded EXCEPT ![q] = <<>>]
    BY <1>5 DEF WriteReport
  <2>2. PICK content \in {[of |-> r, artifacts |-> TRUE], Torn} :
           report' = [report EXCEPT ![id] = content]
    BY <1>5 DEF WriteReport
  <2>3. command[q] \in Commands /\ Len(command[q].ids) = 1 /\ command[q].ids \in Seq(RunIds)
    BY <1>1, <2>1, CommandsAssumption DEF AllLoaded, LoadedInv, Command
  <2>4. id \in RunIds /\ loaded[q] \in Seq(Record \cup {None}) /\ Len(loaded[q]) = 1
    BY <1>1, <2>1, <2>3 DEF AllLoaded
  <2>5. r \in Record /\ CopyOf(id, r)
    <3>1. r # None
      BY <2>1, <2>4 DEF AllLoaded, Failed, Range
    <3>2. 1 \in DOMAIN loaded[q] /\ r \in Record \cup {None}
      BY <2>4
    <3> QED
      BY <1>1, <3>1, <3>2 DEF LoadedInv
  <2>6. content \in Content /\ (content = Torn \/ content.of = r)
    <3> HIDE DEF r, CopyOf
    <3>1. [of |-> r, artifacts |-> TRUE] \in Content
      BY <2>5 DEF Content
    <3>2. CASE content = [of |-> r, artifacts |-> TRUE]
      BY <3>1, <3>2
    <3> QED
      BY <2>2, <3>2, ContentIsSome
  <2>7. /\ report'[id] = content /\ content # None
        /\ \A i \in RunIds : i # id => report'[i] = report[i]
        /\ report' \in [RunIds -> Content \cup {None}]
    BY <1>1, <2>2, <2>4, <2>6, ContentIsSome
  <2>8. ReportsLagAtMost'
    BY <1>1, <1>2, <2>4, <2>5, <2>6, <2>7 DEF ReportsLagAtMost
  <2>9. command'[q] = None /\ loaded'[q] = <<>>
    BY <1>1, <2>1
  <2>10. LoadedInv(q)' /\ loaded'[q] \in Seq(Record \cup {None})
    BY <2>9 DEF LoadedInv
  <2> HIDE DEF CopyOf
  <2> QED
    BY <2>1, <2>7, <2>8, <2>9, <2>10
<1>6. Kept
  BY <1>3, <1>4, <1>5
<1>7. ASSUME NEW p \in Readers PROVE LoadedInv(p)'
  <2>1. CASE p = q
    BY <1>6, <2>1
  <2>2. CASE p # q
    <3>1. command'[p] = command[p] /\ loaded'[p] = loaded[p]
      BY <1>1, <1>6, <2>2
    <3> QED
      BY <1>2, <3>1 DEF ReportsInv, LoadedInv
  <2> QED
    BY <2>1, <2>2
<1>8. command' \in [Readers -> Commands \cup {None}] /\ loaded' \in [Readers -> Seq(Record \cup {None})]
  BY <1>1, <1>6
<1> QED
  BY <1>6, <1>7, <1>8 DEF ReportsInv

LEMMA ReportsInductive ==
    ASSUME IndInv, ReportsInv, [CommandsNext]_allVars
    PROVE  ReportsInv'
<1>1. ASSUME NEW t \in Tuners, FinishTuning(t) PROVE ReportsInv'
  <2>1. UNCHANGED <<records, report, command, loaded>>
    BY <1>1 DEF FinishTuning, Finish
  <2> QED
    BY <2>1 DEF ReportsInv, ReportsLagAtMost, LoadedInv, CopyOf
<1>2. ASSUME NEW t \in Tuners, TunerStep(t), ~FinishTuning(t) PROVE ReportsInv'
  <2>1. PublishReports /\ UNCHANGED <<command, loaded>>
    BY <1>2 DEF TunerStep
  <2> QED
    BY <2>1, StepIsStudys, PublishKeeps
<1>3. CASE UNCHANGED allVars
  BY <1>3 DEF ReportsInv, ReportsLagAtMost, LoadedInv, CopyOf, allVars, vars,
     runVars, commandVars
<1> QED
  BY <1>1, <1>2, <1>3, ReaderKeeps DEF CommandsNext

\* What readers have loaded and reports show are copies of the records, however
\* the steps of tuners and readers interleave.
THEOREM ReportsInvariant == CommandsSpec => []ReportsInv
<1>1. CommandsInit => ReportsInv
  <2> SUFFICES ASSUME CommandsInit PROVE ReportsInv
    OBVIOUS
  <2>1. /\ report = [i \in RunIds |-> None] /\ records = [i \in RunIds |-> None]
        /\ command = [q \in Readers |-> None] /\ loaded = [q \in Readers |-> <<>>]
    BY DEF CommandsInit, Init, RunsInit
  <2> QED
    BY <2>1 DEF ReportsInv, ReportsLagAtMost, LoadedInv
<1>2. IndInv /\ ReportsInv /\ [CommandsNext]_allVars => ReportsInv'
  BY ReportsInductive
<1> QED
  BY <1>1, <1>2, StudiesInvariant, PTL DEF CommandsSpec

\* Every recorded run has a report, of its own evidence, whoever has written it
\* last and whatever else wrote the record meanwhile; where the two differ the
\* report is the older one (runner.py:196, cli.py:738-739).
THEOREM ReportsLag == CommandsSpec => []ReportsLagAtMost
<1>1. ReportsInv => ReportsLagAtMost
  BY DEF ReportsInv
<1> QED
  BY <1>1, ReportsInvariant, PTL
-----------------------------------------------------------------------------
\* A trial that counts stays as it is.
TrialsStand ==
    \A s \in Studies : \A n \in CompleteTrials(s) :
        n \in CompleteTrials(s)' /\ RunOf(s, n)' = RunOf(s, n)

\* What the other tuners know of their trials, when one of them moves.
OthersRun(c) ==
    \A d \in Tuners \ {c} :
        phase'[d] = phase[d] /\ study'[d] = study[d] /\ runId'[d] = runId[d]

\* A trial is added at the end, running.
LEMMA AskRuns ==
    ASSUME IndInv, RunningInv, NEW c \in Tuners, Ask(c)
    PROVE  RunningInv' /\ TrialsStand
<1> DEFINE s == study[c]
           n == Len(trials[s]) + 1
           new == [context |-> own[c], state |-> "running", run |-> None]
<1>1. TypeOK /\ CallInv(c) /\ \A d \in Tuners : CallInv(d)
  BY DEF IndInv, Tuners
<1>2. /\ phase[c] = "optimize" /\ trials' = [trials EXCEPT ![s] = Append(@, new)]
      /\ runId' = [runId EXCEPT ![c] = <<own[c], n>>]
      /\ phase' = [phase EXCEPT ![c] = "trial"] /\ study' = study
  BY DEF Ask, Begin, MoveTo
<1>3. s \in Studies /\ own[c] \in Contexts /\ new \in Trial
  BY <1>1, <1>2 DEF CallInv, PhaseInv, Trial
<1>4. /\ trials[s] \in Seq(Trial) /\ trials'[s] \in Seq(Trial) /\ Len(trials'[s]) = n
      /\ \A m \in 1 .. Len(trials[s]) : trials'[s][m] = trials[s][m]
      /\ trials'[s][n] = new
      /\ \A r \in Studies : r # s => trials'[r] = trials[r]
  <2>1. trials[s] \in Seq(Trial) /\ trials'[s] = Append(trials[s], new)
    BY <1>1, <1>2, <1>3 DEF TypeOK
  <2> HIDE DEF new
  <2>2. \A r \in Studies : r # s => trials'[r] = trials[r]
    BY <1>1, <1>2 DEF TypeOK
  <2> QED
    BY <1>3, <2>1, <2>2, AppendProperties
<1>5. /\ n \notin DOMAIN trials[s] /\ n \in DOMAIN trials'[s]
      /\ \A r \in Studies : \A m \in DOMAIN trials[r] :
            m \in DOMAIN trials'[r] /\ trials'[r][m] = trials[r][m]
  <2>1. /\ DOMAIN trials[s] = 1 .. Len(trials[s]) /\ DOMAIN trials'[s] = 1 .. n
        /\ Len(trials[s]) \in Nat
    BY <1>4
  <2>2. /\ n \notin DOMAIN trials[s] /\ n \in DOMAIN trials'[s]
        /\ \A m \in DOMAIN trials[s] : m \in DOMAIN trials'[s] /\ trials'[s][m] = trials[s][m]
    BY <1>4, <2>1
  <2> HIDE DEF n
  <2> QED
    BY <1>4, <2>2
<1>6. /\ Number(c)' = n /\ phase'[c] = "trial"
      /\ \A d \in Tuners \ {c} : Number(d)' = Number(d) /\ phase'[d] = phase[d]
  BY <1>1, <1>2 DEF Number, TypeOK, RunsTypeOK, Tuners
<1>7. \A d \in Tuners : phase[d] = "trial" => study[d] \in Studies
  BY <1>1 DEF CallInv, PhaseInv
<1>8. ASSUME NEW d \in Tuners, phase'[d] = "trial"
      PROVE  /\ Number(d)' \in DOMAIN trials'[study[d]]
             /\ trials'[study[d]][Number(d)'].state = "running"
  <2>1. CASE d = c
    <3>1. trials'[s][n].state = "running"
      BY <1>4
    <3> QED
      BY <1>5, <1>6, <2>1, <3>1
  <2>2. CASE d # c
    BY <1>5, <1>6, <1>7, <1>8, <2>2 DEF RunningInv
  <2> QED
    BY <2>1, <2>2
<1>9. ASSUME NEW d \in Tuners, NEW e \in Tuners, phase'[d] = "trial", phase'[e] = "trial",
             study[d] = study[e], Number(d)' = Number(e)'
      PROVE  d = e
  <2>1. \A f \in Tuners \ {c} : phase[f] = "trial" /\ study[f] = s => Number(f) # n
    BY <1>5 DEF RunningInv
  <2> QED
    BY <1>6, <1>9, <2>1 DEF RunningInv
<1>10. RunningInv'
  BY <1>2, <1>8, <1>9 DEF RunningInv
<1>11. TrialsStand
  BY <1>5 DEF TrialsStand, CompleteTrials, RunOf
<1> QED
  BY <1>10, <1>11

\* The trial that is told was running, so none that counts is touched, and it
\* is not the trial of another tuner.
LEMMA TellRuns ==
    ASSUME IndInv, RunningInv, NEW c \in Tuners, Tell(c)
    PROVE  RunningInv' /\ TrialsStand
<1> DEFINE s == study[c]
           n == Number(c)
<1>1. TypeOK /\ \A d \in Tuners : CallInv(d)
  BY DEF IndInv, Tuners
<1>2. phase[c] = "trial" /\ s \in Studies
  BY <1>1 DEF Tell, CallInv, PhaseInv
<1>3. n \in DOMAIN trials[s] /\ trials[s][n].state = "running"
  BY <1>2 DEF RunningInv
<1>4. /\ \A r \in Studies : DOMAIN trials'[r] = DOMAIN trials[r]
      /\ \A r \in Studies : \A m \in DOMAIN trials[r] :
            (r = s /\ m = n) \/ trials'[r][m] = trials[r][m]
  <2>1. PICK told : trials' = [trials EXCEPT ![s] = [@ EXCEPT ![n] = told]]
    BY DEF Tell
  <2> HIDE DEF n
  <2> QED
    BY <1>1, <1>2, <2>1 DEF TypeOK
<1>5. /\ OthersRun(c) /\ phase'[c] # "trial"
  <2>1. CASE place[c] \in {"untracked", "raised"}
    BY <1>1, <2>1 DEF Tell, Exit, MoveTo, OthersRun, TypeOK, RunsTypeOK, Tuners
  <2>2. CASE place[c] \notin {"untracked", "raised"}
    BY <1>1, <2>2 DEF Tell, MoveTo, OthersRun, TypeOK, RunsTypeOK, Tuners
  <2> QED
    BY <2>1, <2>2
<1>6. \A d \in Tuners : phase[d] = "trial" => study[d] \in Studies
  BY <1>1 DEF CallInv, PhaseInv
<1>7. \A d \in Tuners : phase'[d] = "trial" =>
         d # c /\ phase[d] = "trial" /\ study'[d] = study[d] /\ Number(d)' = Number(d)
  BY <1>5 DEF OthersRun, Number
<1>8. \A d \in Tuners \ {c} : phase[d] = "trial" => ~(study[d] = s /\ Number(d) = n)
  BY <1>2 DEF RunningInv
<1>9. RunningInv'
  BY <1>4, <1>6, <1>7, <1>8 DEF RunningInv
<1>10. TrialsStand
  BY <1>2, <1>3, <1>4 DEF TrialsStand, CompleteTrials, RunOf
<1> QED
  BY <1>9, <1>10

\* Every other step leaves the trials and the numbers of running ones alone.
LEMMA TrialsGoOn ==
    ASSUME IndInv, RunningInv, [Next]_vars
    PROVE  RunningInv' /\ TrialsStand
<1>1. TypeOK
  BY DEF IndInv
<1>2. ASSUME trials' = trials,
             \A d \in Tuners : phase'[d] = "trial" =>
                 phase[d] = "trial" /\ study'[d] = study[d] /\ runId'[d] = runId[d]
      PROVE  RunningInv' /\ TrialsStand
  <2>1. \A d \in Tuners : phase'[d] = "trial" => Number(d)' = Number(d)
    BY <1>2 DEF Number
  <2> QED
    BY <1>2, <2>1 DEF RunningInv, TrialsStand, CompleteTrials, RunOf
<1>3. ASSUME NEW c \in Tuners,
             \/ \E s \in Studies, x \in Contexts, track \in BOOLEAN : Tune(c, s, x, track)
             \/ CheckContext(c) \/ Claim(c) \/ Finish(c) \/ Crash(c)
             \/ RunStep(c) /\ Frame
      PROVE  RunningInv' /\ TrialsStand
  <2>1. trials' = trials
    BY <1>3 DEF Tune, CheckContext, Claim, Finish, Crash, Frame
  <2>2. ASSUME NEW d \in Tuners, phase'[d] = "trial"
        PROVE  phase[d] = "trial" /\ study'[d] = study[d] /\ runId'[d] = runId[d]
    <3>1. CASE \E s \in Studies, x \in Contexts, track \in BOOLEAN : Tune(c, s, x, track)
      BY <1>1, <2>2, <3>1 DEF Tune, MoveTo, TypeOK
    <3>2. CASE CheckContext(c)
      <4>1. CASE context[study[c]] \in {None, own[c]}
        <5> DEFINE p == IF context[study[c]] = None THEN "claim" ELSE "optimize"
        <5>1. phase' = [phase EXCEPT ![c] = p] /\ study' = study /\ runId' = runId
          BY <3>2, <4>1 DEF CheckContext, MoveTo, runVars
        <5>2. p # "trial"
          OBVIOUS
        <5> HIDE DEF p
        <5> QED
          BY <1>1, <2>2, <5>1, <5>2 DEF TypeOK
      <4>2. CASE context[study[c]] \notin {None, own[c]}
        BY <1>1, <2>2, <3>2, <4>2 DEF CheckContext, Exit, MoveTo, TypeOK,
           RunsTypeOK, Tuners
      <4> QED
        BY <4>1, <4>2
    <3>3. CASE Claim(c)
      BY <1>1, <2>2, <3>3 DEF Claim, MoveTo, TypeOK, runVars
    <3>4. CASE Finish(c) \/ Crash(c)
      BY <1>1, <2>2, <3>4 DEF Finish, Crash, Exit, MoveTo, TypeOK, RunsTypeOK, Tuners
    <3>5. CASE RunStep(c) /\ Frame
      BY <2>2, <3>5 DEF Frame, RunStep, Lookup, Research, Save, Rename, Cleanup,
         Log, Logging, Mark, Degrade, Load
    <3> QED
      BY <1>3, <3>1, <3>2, <3>3, <3>4, <3>5
  <2> QED
    BY <1>2, <2>1, <2>2
<1>4. CASE UNCHANGED vars
  BY <1>2, <1>4 DEF vars, runVars
<1> QED
  BY <1>3, <1>4, AskRuns, TellRuns DEF Next, Advance, Frame
-----------------------------------------------------------------------------
\* A tuner that ends names a trial that counts, of the best.
LEMMA WinnerOf ==
    ASSUME IndInv, WinnersInv, NEW t \in Tuners, FinishTuning(t)
    PROVE  /\ winner' \in [Studies -> RunIds \cup {None}]
           /\ \A s \in Studies :
                 \/ winner'[s] = winner[s]
                 \/ winner'[s] = None /\ CompleteTrials(s) = {}
                 \/ \E n \in BestTrials(s) : winner'[s] = RunOf(s, n)
<1> DEFINE s == study[t]
<1>1. s \in Studies
  BY DEF IndInv, CallInv, PhaseInv, FinishTuning, Finish, Tuners
<1>2. PICK best \in IF CompleteTrials(s) = {} THEN {None}
                    ELSE {RunOf(s, n) : n \in BestTrials(s)} :
         winner' = [winner EXCEPT ![s] = best]
  BY DEF FinishTuning
<1>3. \/ best = None /\ CompleteTrials(s) = {}
      \/ \E n \in BestTrials(s) : best = RunOf(s, n)
  BY <1>2
<1>4. \A n \in BestTrials(s) : RunOf(s, n) \in RunIds
  BY <1>1 DEF IndInv, TrialsInv, BestTrials, CompleteTrials, RunOf
<1>5. best \in RunIds \cup {None}
  BY <1>3, <1>4
<1> HIDE DEF s
<1> QED
  BY <1>1, <1>2, <1>3, <1>5 DEF WinnersInv

LEMMA WinnersStep ==
    ASSUME IndInv, RunningInv, WinnersInv, [CommandsNext]_allVars
    PROVE  /\ RunningInv' /\ WinnersInv'
           /\ \A s \in Studies : winner[s] # None =>
                 winner'[s] # None /\ Robust[winner'[s]] >= Robust[winner[s]]
<1>1. RunningInv' /\ TrialsStand /\ IndInv'
  BY StepIsStudys, TrialsGoOn, Inductive
<1>2. None \notin RunIds /\ Robust \in [RunIds -> Int]
  BY NoneIsNothing, CommandsAssumption
<1>3. \A s \in Studies : \A n \in CompleteTrials(s) : RunOf(s, n) \in RunIds
  BY DEF IndInv, TrialsInv, CompleteTrials, RunOf
<1>4. CASE winner' = winner
  <2>1. WinnersInv'
    BY <1>1, <1>4 DEF WinnersInv, TrialsStand
  <2>2. \A s \in Studies : winner[s] # None => Robust[winner[s]] \in Int
    BY <1>2 DEF WinnersInv
  <2> QED
    BY <1>1, <1>4, <2>1, <2>2
<1>5. ASSUME NEW t \in Tuners, FinishTuning(t)
      PROVE  /\ WinnersInv'
             /\ \A s \in Studies : winner[s] # None =>
                   winner'[s] # None /\ Robust[winner'[s]] >= Robust[winner[s]]
  <2>1. /\ winner' \in [Studies -> RunIds \cup {None}]
        /\ \A s \in Studies :
              \/ winner'[s] = winner[s]
              \/ winner'[s] = None /\ CompleteTrials(s) = {}
              \/ \E n \in BestTrials(s) : winner'[s] = RunOf(s, n)
    BY <1>5, WinnerOf
  <2>2. \A s \in Studies : winner'[s] # None =>
           \E n \in CompleteTrials(s) : winner'[s] = RunOf(s, n)
    BY <2>1 DEF WinnersInv, BestTrials
  <2>3. WinnersInv'
    BY <1>1, <2>1, <2>2 DEF WinnersInv, TrialsStand
  <2>4. ASSUME NEW s \in Studies, winner[s] # None
        PROVE  winner'[s] # None /\ Robust[winner'[s]] >= Robust[winner[s]]
    <3>1. PICK n \in CompleteTrials(s) : winner[s] = RunOf(s, n)
      BY <2>4 DEF WinnersInv
    <3>2. CASE winner'[s] = winner[s]
      BY <1>2, <1>3, <2>4, <3>1, <3>2
    <3>3. CASE \E m \in BestTrials(s) : winner'[s] = RunOf(s, m)
      <4>1. PICK m \in BestTrials(s) : winner'[s] = RunOf(s, m)
        BY <3>3
      <4>2. m \in CompleteTrials(s) /\ Robust[RunOf(s, n)] <= Robust[RunOf(s, m)]
        BY <3>1, <4>1 DEF BestTrials
      <4>3. RunOf(s, m) \in RunIds /\ RunOf(s, n) \in RunIds
        BY <1>3, <3>1, <4>2
      <4> QED
        BY <1>2, <3>1, <4>1, <4>2, <4>3
    <3> QED
      BY <2>1, <3>1, <3>2, <3>3
  <2> QED
    BY <2>3, <2>4
<1>6. ASSUME NEW t \in Tuners, TunerStep(t), ~FinishTuning(t) PROVE winner' = winner
  BY <1>6 DEF TunerStep
<1>7. ASSUME NEW q \in Readers,
             (\E cmd \in Commands : Request(q, cmd)) \/ LoadNext(q) \/ WriteReport(q)
      PROVE  winner' = winner
  BY <1>7 DEF Request, LoadNext, WriteReport
<1>8. CASE UNCHANGED allVars
  BY <1>4, <1>8 DEF allVars, commandVars
<1> QED
  BY <1>1, <1>4, <1>5, <1>6, <1>7, <1>8 DEF CommandsNext

\* Tuning a study further, or again after a crash, or by several tuners at a
\* time, never names a worse run than it has named: no trial that counted is
\* lost or scored anew (tuning.py:139-149).
THEOREM WinnersImprove == CommandsSpec => WinnersOnlyImprove
<1>1. CommandsInit => RunningInv /\ WinnersInv
  BY DEF CommandsInit, Init, RunningInv, WinnersInv
<1>2. IndInv /\ RunningInv /\ WinnersInv /\ [CommandsNext]_allVars =>
         RunningInv' /\ WinnersInv'
  BY WinnersStep
<1>3. IndInv /\ RunningInv /\ WinnersInv /\ [CommandsNext]_allVars =>
         [\A s \in Studies : winner[s] # None =>
             winner'[s] # None /\ Robust[winner'[s]] >= Robust[winner[s]]]_allVars
  BY WinnersStep
<1> QED
  BY <1>1, <1>2, <1>3, StudiesInvariant, PTL DEF CommandsSpec, WinnersOnlyImprove
-----------------------------------------------------------------------------
\* Better is a strict order, and total, as no two runs have one id.
LEMMA BetterOrders ==
    ASSUME NEW i \in RunIds, NEW j \in RunIds
    PROVE  /\ ~Better(i, i)
           /\ Better(i, j) \/ i = j \/ Better(j, i)
           /\ \A k \in RunIds : Better(k, i) /\ Better(i, j) => Better(k, j)
<1>1. /\ Robust \in [RunIds -> Int] /\ Rest \in [RunIds -> Int] /\ IdOrder \in [RunIds -> Nat]
      /\ \A k, l \in RunIds : IdOrder[k] = IdOrder[l] => k = l
  BY CommandsAssumption DEF IsInjective
<1>2. \A k \in RunIds : Robust[k] \in Int /\ Rest[k] \in Int /\ IdOrder[k] \in Int
  BY <1>1
<1>3. ~Better(i, i)
  BY <1>2 DEF Better
<1>4. Better(i, j) \/ i = j \/ Better(j, i)
  BY <1>1, <1>2 DEF Better
<1>5. ASSUME NEW k \in RunIds, Better(k, i), Better(i, j) PROVE Better(k, j)
  BY <1>2, <1>5 DEF Better
<1> QED  BY <1>3, <1>4, <1>5

\* A better run that was asked for has the smaller number of better ones.
LEMMA StandingOrders ==
    ASSUME NEW ids \in Seq(RunIds), NEW i \in RunIds, NEW j \in RunIds
    PROVE  /\ Standing(i, ids) \in Int
           /\ i \in Range(ids) /\ Better(i, j) => Standing(i, ids) < Standing(j, ids)
           /\ ~Better(j, i) => Standing(i, ids) <= Standing(j, ids)
<1> DEFINE before(k) == {n \in DOMAIN ids : Better(ids[n], k)}
<1>1. DOMAIN ids = 1 .. Len(ids) /\ Len(ids) \in Nat /\ \A n \in DOMAIN ids : ids[n] \in RunIds
  OBVIOUS
<1>2. IsFiniteSet(DOMAIN ids)
  BY <1>1, FS_Interval
<1>3. /\ before(i) \in SUBSET DOMAIN ids /\ before(j) \in SUBSET DOMAIN ids
      /\ Standing(i, ids) = Cardinality(before(i)) /\ Standing(j, ids) = Cardinality(before(j))
  BY DEF Standing
<1>4. /\ IsFiniteSet(before(i)) /\ IsFiniteSet(before(j))
      /\ Cardinality(before(i)) \in Nat /\ Cardinality(before(j)) \in Nat
  BY <1>2, <1>3, FS_Subset, FS_CardinalityType
<1>5. Better(i, j) => before(i) \subseteq before(j)
  BY <1>1, BetterOrders
<1>6. ASSUME i \in Range(ids), Better(i, j) PROVE Standing(i, ids) < Standing(j, ids)
  <2>1. PICK n \in DOMAIN ids : ids[n] = i
    BY <1>6 DEF Range
  <2>2. n \in before(j) /\ n \notin before(i)
    BY <1>6, <2>1, BetterOrders
  <2>3. before(i) \subseteq before(j) /\ before(i) # before(j)
    BY <1>5, <1>6, <2>2
  <2> HIDE DEF before
  <2>4. /\ Cardinality(before(i)) <= Cardinality(before(j))
        /\ Cardinality(before(i)) # Cardinality(before(j))
    BY <1>4, <2>3, FS_Subset
  <2> QED  BY <1>3, <1>4, <2>4
<1>7. ASSUME ~Better(j, i) PROVE Standing(i, ids) <= Standing(j, ids)
  <2>1. before(i) \subseteq before(j)
    BY <1>5, <1>7, BetterOrders
  <2> HIDE DEF before
  <2> QED  BY <1>3, <1>4, <2>1, FS_Subset
<1> QED  BY <1>3, <1>4, <1>6, <1>7

\* The positions that a comparison of these records ranks.
Counted(cmd, recs) == {n \in DOMAIN cmd.ids : Eligible(cmd.ids[n], recs[n], cmd.dirty)}

\* No run is listed before a better one.
BestFirst(ids, f, n) == \A k, l \in 1 .. n : k <= l => ~Better(ids[f[l]], ids[f[k]])

\* r names the runs at the positions E, once for each, best first.
Names(r, ids, E) ==
    \E n, f : /\ Enumerates(f, n, E) /\ BestFirst(ids, f, n)
              /\ r = [k \in 1 .. n |-> ids[f[k]]]

\* A ranking names the runs that count.
LEMMA RankingDef ==
    ASSUME NEW cmd, cmd.ids \in Seq(RunIds), NEW recs, Compatible(cmd.ids)
    PROVE  Names(Ranked(cmd, recs), cmd.ids, Counted(cmd, recs))
<1> DEFINE ids == cmd.ids
           E == Counted(cmd, recs)
           id == [n \in 1 .. Len(ids) |-> n]
           p == Picks(id, E)
           n == Len(p)
           key == [k \in DOMAIN p |-> Standing(ids[p[k]], ids)]
<1>1. /\ Len(ids) \in Nat /\ DOMAIN ids = 1 .. Len(ids)
      /\ E \in SUBSET (1 .. Len(ids)) /\ \A m \in E : ids[m] \in RunIds /\ ids[m] \in Range(ids)
  BY DEF Counted, Range
<1>2. p \in Seq(E) /\ Enumerates(p, n, E)
  <2> HIDE DEF E, ids
  <2> QED  BY <1>1, NumbersPicked
<1>3. Ranking(cmd, recs) = SortedBy(p, key)
  BY DEF Ranking, Counted
<1> HIDE DEF p, E
<1>4. n \in Nat /\ DOMAIN p = 1 .. n /\ \A k \in 1 .. n : p[k] \in E
  BY <1>2
<1>5. key \in [1 .. n -> Int] /\ \A k \in 1 .. n : key[k] = Standing(ids[p[k]], ids)
  <2>1. \A k \in 1 .. n : Standing(ids[p[k]], ids) \in Int
    BY <1>1, <1>4, StandingOrders
  <2> QED  BY <1>4, <2>1
<1> HIDE DEF key, n
<1>6. PICK o : SortedAs(SortedBy(p, key), o, p, key, n)
  BY <1>4, <1>5, SortedDef
<1> DEFINE f == [k \in 1 .. n |-> p[o[k]]]
<1>7. /\ \A k \in 1 .. n : o[k] \in 1 .. n
      /\ \A i \in 1 .. n : \E k \in 1 .. n : o[k] = i
      /\ SortedBy(p, key) = f
      /\ \A k, l \in 1 .. n : k <= l => key[o[k]] <= key[o[l]]
  BY <1>6 DEF SortedAs
<1>8. \A k, l \in 1 .. n : o[k] = o[l] => k = l
  <2>1. o \in Surjection(1 .. n, 1 .. n)
    BY <1>6, <1>7 DEF SortedAs, Surjection
  <2>2. IsFiniteSet(1 .. n)
    BY <1>4, FS_Interval
  <2>3. o \in Injection(1 .. n, 1 .. n)
    BY <2>1, <2>2, FS_SurjSameCardinalityImpliesInj
  <2> QED  BY <2>3 DEF Injection, IsInjective
<1>9. Enumerates(f, n, E)
  <2>1. f \in [1 .. n -> E]
    BY <1>4, <1>7
  <2>2. \A k, l \in 1 .. n : f[k] = f[l] => k = l
    BY <1>2, <1>7, <1>8 DEF Enumerates, n
  <2>3. ASSUME NEW x \in E PROVE \E k \in 1 .. n : f[k] = x
    <3>1. PICK i \in 1 .. n : p[i] = x
      BY <1>2 DEF Enumerates, n
    <3> QED  BY <1>7, <3>1
  <2> QED  BY <1>4, <2>1, <2>2, <2>3 DEF Enumerates
<1>10. Ranked(cmd, recs) = [k \in 1 .. n |-> ids[f[k]]]
  BY <1>3, <1>7 DEF Ranked
<1>11. BestFirst(ids, f, n)
  <2> SUFFICES ASSUME NEW k \in 1 .. n, NEW l \in 1 .. n, k <= l,
                      Better(ids[f[l]], ids[f[k]])
               PROVE  FALSE
    BY DEF BestFirst
  <2>1. key[o[k]] <= key[o[l]]
    BY <1>7
  <2>2. key[o[k]] = Standing(ids[f[k]], ids) /\ key[o[l]] = Standing(ids[f[l]], ids)
    BY <1>5, <1>7
  <2>3. /\ ids[f[k]] \in RunIds /\ ids[f[l]] \in RunIds /\ ids[f[l]] \in Range(ids)
    BY <1>1, <1>4, <1>7
  <2> HIDE DEF f, ids
  <2>4. ids \in Seq(RunIds)
    BY DEF ids
  <2>5. Standing(ids[f[l]], ids) < Standing(ids[f[k]], ids)
    BY <2>3, <2>4, StandingOrders
  <2>6. Standing(ids[f[l]], ids) \in Int /\ Standing(ids[f[k]], ids) \in Int
    BY <2>3, <2>4, StandingOrders
  <2> QED  BY <2>1, <2>2, <2>5, <2>6
<1> HIDE DEF f, ids
<1> QED  BY <1>9, <1>10, <1>11 DEF E, ids, Names

\* Two lists of the same positions, best first, name the same runs.
LEMMA BestFirstAgree ==
    ASSUME NEW ids \in Seq(RunIds), NEW E \in SUBSET DOMAIN ids, NEW n, NEW f, NEW g,
           Enumerates(f, n, E), Enumerates(g, n, E),
           BestFirst(ids, f, n), BestFirst(ids, g, n), NEW k \in 1 .. n
    PROVE  ids[f[k]] = ids[g[k]]
<1> DEFINE key == [x \in E |-> Standing(ids[x], ids)]
<1>1. \A x \in E : ids[x] \in RunIds /\ ids[x] \in Range(ids)
  BY DEF Range
<1>2. \A x, y \in E :
         /\ key[x] \in Int
         /\ ~Better(ids[y], ids[x]) => key[x] <= key[y]
         /\ Better(ids[x], ids[y]) => key[x] < key[y]
         /\ Better(ids[x], ids[y]) \/ ids[x] = ids[y] \/ Better(ids[y], ids[x])
  BY <1>1, StandingOrders, BetterOrders
<1>3. \A l \in 1 .. n : f[l] \in E /\ g[l] \in E
  BY DEF Enumerates
<1>4. key \in [E -> Int]
  BY <1>2
<1> HIDE DEF key
<1>5. /\ \A l, m \in 1 .. n : l <= m => key[f[l]] <= key[f[m]]
      /\ \A l, m \in 1 .. n : l <= m => key[g[l]] <= key[g[m]]
  BY <1>2, <1>3 DEF BestFirst
<1>6. key[f[k]] <= key[g[k]] /\ key[g[k]] <= key[f[k]]
  BY <1>4, <1>5, NeitherAhead
<1> QED  BY <1>2, <1>3, <1>6

\* So there is one list of them.
LEMMA NamedOnce ==
    ASSUME NEW ids \in Seq(RunIds), NEW E \in SUBSET DOMAIN ids, NEW r, NEW s,
           Names(r, ids, E), Names(s, ids, E)
    PROVE  r = s
<1>1. PICK m, f : /\ Enumerates(f, m, E) /\ BestFirst(ids, f, m)
                  /\ r = [k \in 1 .. m |-> ids[f[k]]]
  BY DEF Names
<1>2. PICK n, g : /\ Enumerates(g, n, E) /\ BestFirst(ids, g, n)
                  /\ s = [k \in 1 .. n |-> ids[g[k]]]
  BY DEF Names
<1>3. m = n
  BY <1>1, <1>2, EnumeratedOnce
<1>4. \A k \in 1 .. n : ids[f[k]] = ids[g[k]]
  BY <1>1, <1>2, <1>3, BestFirstAgree
<1> QED  BY <1>1, <1>2, <1>3, <1>4

\* The same request the other way round, and the records that it would load now.
Again(cmd) == [cmd EXCEPT !.ids = Reverse(@)]
Now(cmd) == [n \in DOMAIN cmd.ids |-> records[cmd.ids[n]]]

\* Asked again, a comparison counts the runs that it counted, but for those that
\* have lost their tracking.
LEMMA CountedAgain ==
    ASSUME NEW cmd \in Command, NEW recs, NEW N, N = Len(cmd.ids),
           \A n \in DOMAIN cmd.ids : recs[n] # None /\ CopyOf(cmd.ids[n], recs[n])
    PROVE  /\ Again(cmd).ids \in Seq(RunIds) /\ DOMAIN Again(cmd).ids = 1 .. N /\ N \in Nat
           /\ Range(Again(cmd).ids) = Range(cmd.ids)
           /\ \A n \in 1 .. N :
                 N - n + 1 \in 1 .. N /\ Again(cmd).ids[n] = cmd.ids[N - n + 1]
           /\ \A n \in 1 .. N :
                 n \in Counted(Again(cmd), Now(Again(cmd))) <=>
                    /\ N - n + 1 \in Counted(cmd, recs)
                    /\ records[Again(cmd).ids[n]].tracking # "degraded"
<1> DEFINE ids == cmd.ids
           again == Again(cmd)
           now == Now(again)
<1>1. N \in Nat /\ DOMAIN ids = 1 .. N /\ \A n \in 1 .. N : ids[n] \in RunIds
  BY DEF Command
<1>2. again.ids = Reverse(ids) /\ again.dirty = cmd.dirty
  BY DEF Again, Command
<1> HIDE DEF again
<1>3. again.ids = [n \in 1 .. N |-> ids[N - n + 1]]
  BY <1>2 DEF Reverse
<1>4. \A n \in 1 .. N : N - n + 1 \in 1 .. N /\ N - (N - n + 1) + 1 = n
  BY <1>1
<1>5. again.ids \in [1 .. N -> RunIds] /\ DOMAIN again.ids = 1 .. N
  BY <1>1, <1>3, <1>4
<1>6. again.ids \in Seq(RunIds)
  BY <1>1, <1>5
<1>7. Range(again.ids) = Range(ids)
  <2>1. ASSUME NEW n \in 1 .. N PROVE again.ids[n] \in Range(ids) /\ ids[n] \in Range(again.ids)
    <3>1. again.ids[n] = ids[N - n + 1] /\ again.ids[N - n + 1] = ids[n]
      BY <1>3, <1>4
    <3> QED  BY <1>1, <1>4, <1>5, <3>1, Zenon DEF Range
  <2>2. Range(ids) = {ids[n] : n \in 1 .. N} /\ Range(again.ids) = {again.ids[n] : n \in 1 .. N}
    BY <1>1, <1>5, Zenon DEF Range
  <2>3. Range(again.ids) \subseteq Range(ids)
    BY <2>1, <2>2
  <2>4. Range(ids) \subseteq Range(again.ids)
    BY <2>1, <2>2
  <2> QED  BY <2>3, <2>4, Zenon
<1>8. ASSUME NEW n \in 1 .. N
      PROVE  n \in Counted(again, now) <=>
                /\ N - n + 1 \in Counted(cmd, recs)
                /\ records[again.ids[n]].tracking # "degraded"
  <2> DEFINE m == N - n + 1
             i == again.ids[n]
  <2>1. m \in 1 .. N /\ i = ids[m] /\ now[n] = records[i]
    BY <1>3, <1>4, <1>5 DEF Now
  <2>2. recs[m] # None /\ CopyOf(i, recs[m])
    BY <1>1, <2>1
  <2>3. records[i].status = recs[m].status
    BY <2>2 DEF CopyOf, EvidenceOf
  <2>4. recs[m] = records[i] \/ recs[m].tracking = "pending"
    BY <2>2 DEF CopyOf
  <2>5. Eligible(i, records[i], cmd.dirty) <=>
           /\ Eligible(i, recs[m], cmd.dirty)
           /\ records[i].tracking # "degraded"
    BY <2>3, <2>4 DEF Eligible
  <2> HIDE DEF m, i
  <2>6. n \in Counted(again, now) <=> Eligible(i, records[i], cmd.dirty)
    BY <1>2, <1>5, <2>1 DEF Counted, i
  <2>7. m \in Counted(cmd, recs) <=> Eligible(i, recs[m], cmd.dirty)
    BY <1>1, <2>1 DEF Counted
  <2> QED  BY <2>5, <2>6, <2>7 DEF m, i
<1>9. \A n \in 1 .. N : N - n + 1 \in 1 .. N /\ again.ids[n] = ids[N - n + 1]
  BY <1>3, <1>4
<1> QED  BY <1>1, <1>5, <1>6, <1>7, <1>8, <1>9, Zenon DEF again

\* What is left of a list when runs are dropped names the others.
LEMMA DroppedFrom ==
    ASSUME NEW ids \in Seq(RunIds), NEW E \in SUBSET DOMAIN ids, NEW r,
           Names(r, ids, E), NEW S, NEW F \in SUBSET E,
           \A x \in E : x \in F <=> ids[x] \in S
    PROVE  Names(Picks(r, S), ids, F)
<1>1. PICK n, f : /\ Enumerates(f, n, E) /\ BestFirst(ids, f, n)
                  /\ r = [k \in 1 .. n |-> ids[f[k]]]
  BY DEF Names
<1> DEFINE p == Picks(r, S)
           L == Len(p)
<1>2. n \in Nat /\ Len(r) = n /\ \A k \in 1 .. n : f[k] \in E /\ r[k] = ids[f[k]]
  BY <1>1 DEF Enumerates
<1>3. PICK at : PickedAt(p, at, r, S, n)
  BY <1>2, PicksDef
<1> DEFINE g == [k \in 1 .. L |-> f[at[k]]]
<1> HIDE DEF p
<1>4. p \in Seq(S) /\ \A k \in 1 .. L : at[k] \in 1 .. n /\ p[k] = r[at[k]]
  BY <1>3 DEF PickedAt
<1>5. L \in Nat /\ p \in [1 .. L -> S]
  BY <1>4, LenProperties
<1>6. \A k, l \in 1 .. L : k < l => at[k] < at[l]
  BY <1>3 DEF PickedAt
<1>7. \A x \in 1 .. n : r[x] \in S => \E k \in 1 .. L : at[k] = x
  BY <1>3 DEF PickedAt
<1> HIDE DEF L
<1>8. \A k \in 1 .. L : g[k] = f[at[k]] /\ g[k] \in F /\ p[k] = ids[g[k]]
  BY <1>2, <1>4, <1>5
<1>9. Enumerates(g, L, F)
  <2>1. g \in [1 .. L -> F]
    BY <1>8
  <2>2. ASSUME NEW k \in 1 .. L, NEW l \in 1 .. L, g[k] = g[l] PROVE k = l
    <3>1. at[k] = at[l]
      BY <1>1, <1>4, <1>8, <2>2 DEF Enumerates
    <3>2. at[k] \in Int /\ k \in Int /\ l \in Int
      BY <1>4
    <3> QED  BY <1>6, <3>1, <3>2
  <2>3. ASSUME NEW x \in F PROVE \E k \in 1 .. L : g[k] = x
    <3>1. PICK j \in 1 .. n : f[j] = x
      BY <1>1 DEF Enumerates
    <3>2. r[j] \in S
      BY <1>2, <3>1
    <3>3. PICK k \in 1 .. L : at[k] = j
      BY <1>7, <3>2
    <3> QED  BY <1>8, <3>1, <3>3
  <2> QED  BY <1>5, <2>1, <2>2, <2>3 DEF Enumerates
<1> HIDE DEF g
<1>10. BestFirst(ids, g, L)
  <2> SUFFICES ASSUME NEW k \in 1 .. L, NEW l \in 1 .. L, k <= l
               PROVE  ~Better(ids[g[l]], ids[g[k]])
    BY DEF BestFirst
  <2>1. at[k] \in 1 .. n /\ at[l] \in 1 .. n
    BY <1>4
  <2>2. at[k] <= at[l]
    BY <1>2, <1>5, <1>6, <2>1
  <2> QED  BY <1>1, <1>8, <2>1, <2>2 DEF BestFirst
<1>11. p = [k \in 1 .. L |-> ids[g[k]]]
  BY <1>5, <1>8
<1>12. Names(p, ids, F)
  BY <1>9, <1>10, <1>11 DEF Names
<1> QED  BY <1>12 DEF p

\* A list of positions counted from the other end names the same runs.
LEMMA TurnedRound ==
    ASSUME NEW ids \in Seq(RunIds), NEW turned, NEW N \in Nat,
           NEW F \in SUBSET (1 .. N), NEW D \in SUBSET (1 .. N),
           \A n \in 1 .. N : /\ turned[n] = ids[N - n + 1]
                             /\ n \in D <=> N - n + 1 \in F,
           NEW r, Names(r, turned, D)
    PROVE  Names(r, ids, F)
<1>1. PICK n, e : /\ Enumerates(e, n, D) /\ BestFirst(turned, e, n)
                  /\ r = [k \in 1 .. n |-> turned[e[k]]]
  BY DEF Names
<1> DEFINE h == [k \in 1 .. n |-> N - e[k] + 1]
<1>2. \A k \in 1 .. n : e[k] \in D /\ e[k] \in 1 .. N
  BY <1>1 DEF Enumerates
<1>3. \A k \in 1 .. n : h[k] \in 1 .. N /\ e[k] = N - h[k] + 1
  BY <1>2
<1>4. \A k \in 1 .. n : h[k] \in F /\ turned[e[k]] = ids[h[k]]
  BY <1>2
<1>5. h \in [1 .. n -> F]
  BY <1>4
<1>6. r = [k \in 1 .. n |-> ids[h[k]]]
  BY <1>1, <1>4
<1> HIDE DEF h
<1>7. Enumerates(h, n, F)
  <2>1. \A k, l \in 1 .. n : h[k] = h[l] => k = l
    BY <1>1, <1>3 DEF Enumerates
  <2>2. ASSUME NEW x \in F PROVE \E k \in 1 .. n : h[k] = x
    <3>1. x \in 1 .. N /\ N - x + 1 \in 1 .. N /\ N - (N - x + 1) + 1 = x
      OBVIOUS
    <3>2. PICK k \in 1 .. n : e[k] = N - x + 1
      BY <1>1, <3>1 DEF Enumerates
    <3>3. N - h[k] + 1 = N - x + 1 /\ h[k] \in Int
      BY <1>3, <3>2
    <3> QED  BY <3>1, <3>3
  <2> QED  BY <1>1, <1>5, <2>1, <2>2 DEF Enumerates
<1>8. BestFirst(ids, h, n)
  BY <1>1, <1>4 DEF BestFirst
<1> QED  BY <1>6, <1>7, <1>8 DEF Names

\* Of a list of nothing nothing is left.
LEMMA NothingPicked == ASSUME NEW S PROVE Picks(<<>>, S) = <<>>
<1> DEFINE none == <<>>
           p == Picks(none, S)
           L == Len(p)
<1>1. Len(none) = 0
  OBVIOUS
<1> HIDE DEF none
<1>2. PICK at : PickedAt(p, at, none, S, 0)
  BY <1>1, PicksDef
<1> HIDE DEF p
<1>3. p \in Seq(S) /\ at \in [1 .. L -> 1 .. 0]
  BY <1>2 DEF PickedAt
<1>4. L \in Nat /\ \A k \in 1 .. L : at[k] \in 1 .. 0
  BY <1>3
<1>5. L = 0
  <2> HIDE DEF L
  <2> SUFFICES ASSUME L # 0 PROVE FALSE
    OBVIOUS
  <2>1. 1 \in 1 .. L
    BY <1>4
  <2> QED  BY <1>4, <2>1
<1> QED  BY <1>3, <1>5 DEF p, none

\* What a reader has compared, it would find again.
LEMMA ComparedStands ==
    ASSUME ReportsInv, NEW q \in Readers, Compared(q)
    PROVE  LET cmd == [command[q] EXCEPT !.ids = Reverse(@)]
               now == [n \in DOMAIN cmd.ids |-> records[cmd.ids[n]]]
               tracked == {i \in Range(cmd.ids) : records[i].tracking # "degraded"}
           IN  Ranked(cmd, now) = Picks(Ranked(command[q], loaded[q]), tracked)
<1> DEFINE cmd == command[q]
           ids == cmd.ids
           recs == loaded[q]
           N == Len(ids)
           again == Again(cmd)
           now == Now(again)
           tracked == {i \in Range(again.ids) : records[i].tracking # "degraded"}
           E == Counted(cmd, recs)
           D == Counted(again, now)
           F == {x \in E : ids[x] \in tracked}
<1>1. cmd \in Command /\ ids \in Seq(RunIds)
  <2>1. cmd \in Commands
    BY DEF ReportsInv, LoadedInv, Compared, AllLoaded
  <2> QED  BY <2>1, CommandsAssumption DEF Command
<1>2. \A n \in DOMAIN ids : recs[n] # None /\ CopyOf(ids[n], recs[n])
  <2>1. /\ recs \in Seq(Record \cup {None}) /\ Len(recs) = Len(ids) /\ None \notin Range(recs)
        /\ \A n \in DOMAIN recs : recs[n] # None => CopyOf(ids[n], recs[n])
    BY DEF ReportsInv, LoadedInv, Compared, AllLoaded, Failed
  <2>2. DOMAIN recs = DOMAIN ids
    BY <1>1, <2>1
  <2> HIDE DEF recs, ids
  <2> QED  BY <2>1, <2>2 DEF Range
<1> HIDE DEF cmd, recs
<1>3. /\ again.ids \in Seq(RunIds) /\ DOMAIN again.ids = 1 .. N /\ N \in Nat
      /\ Range(again.ids) = Range(ids)
      /\ \A n \in 1 .. N : N - n + 1 \in 1 .. N /\ again.ids[n] = ids[N - n + 1]
      /\ \A n \in 1 .. N :
            n \in D <=> N - n + 1 \in E /\ records[again.ids[n]].tracking # "degraded"
  BY <1>1, <1>2, CountedAgain, Zenon
<1>4. DOMAIN ids = 1 .. N /\ E \in SUBSET DOMAIN ids /\ E \in SUBSET (1 .. N) /\ D \in SUBSET (1 .. N)
  BY <1>1, <1>3 DEF Counted
<1> HIDE DEF again, now, N, E, D
<1>5. \A n \in 1 .. N : n \in D <=> N - n + 1 \in F
  <2>1. \A n \in 1 .. N : again.ids[n] \in Range(again.ids)
    BY <1>3 DEF Range
  <2> QED  BY <1>3, <2>1
<1>6. /\ F \in SUBSET E /\ F \in SUBSET (1 .. N) /\ F \in SUBSET DOMAIN ids
      /\ \A x \in E : x \in F <=> ids[x] \in tracked
  BY <1>4
<1> DEFINE r == Ranked(cmd, recs)
           s == Ranked(again, now)
<1> HIDE DEF tracked, F, r, s, ids
<1>7. CASE Compatible(ids)
  <2>1. Compatible(again.ids)
    BY <1>3, <1>7 DEF Compatible
  <2>2. Names(r, ids, E)
    BY <1>1, <1>7, RankingDef DEF r, E, ids
  <2>3. Names(s, again.ids, D)
    BY <1>3, <2>1, RankingDef DEF s, D
  <2>4. Names(Picks(r, tracked), ids, F)
    BY <1>1, <1>4, <1>6, <2>2, DroppedFrom
  <2>5. Names(s, ids, F)
    BY <1>1, <1>3, <1>4, <1>5, <1>6, <2>3, TurnedRound
  <2>6. s = Picks(r, tracked)
    BY <1>1, <1>6, <2>4, <2>5, NamedOnce
  <2> QED  BY <2>6 DEF r, s, again, now, tracked, cmd, recs, Again, Now
<1>8. CASE ~Compatible(ids)
  <2>1. ~Compatible(again.ids)
    BY <1>3, <1>8 DEF Compatible
  <2>2. Ranking(cmd, recs) = <<>> /\ Ranking(again, now) = <<>>
    BY <1>8, <2>1 DEF Ranking, ids
  <2>3. r = <<>> /\ s = <<>>
    BY <2>2 DEF Ranked, r, s
  <2>4. s = Picks(r, tracked)
    BY <2>3, NothingPicked
  <2> QED  BY <2>4 DEF r, s, again, now, tracked, cmd, recs, Again, Now
<1> QED  BY <1>7, <1>8

\* A comparison stands: asked again at any later time, with the runs the other
\* way round, it ranks the same runs in the same order but for those that have
\* lost their tracking since, although its records were loaded one by one while
\* runs were being tracked, and some runs tie (comparison.py:40-57, cli.py:706).
THEOREM ComparisonsHold == CommandsSpec => []ComparisonsStand
<1>1. ReportsInv => ComparisonsStand
  BY ComparedStands DEF ComparisonsStand
<1> QED
  BY <1>1, ReportsInvariant, PTL
=============================================================================
