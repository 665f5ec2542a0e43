------------------------ MODULE ExperimentStudyProofs ------------------------
(***************************************************************************)
(* Proofs about ExperimentStudy: what the run store, the tracker's mirror  *)
(* and the studies say of each other, for any number of tuners, studies    *)
(* and contexts and whatever research makes of a run.                      *)
(***************************************************************************)
EXTENDS ExperimentStudy, SequenceTheorems, TLAPS

Making == {"log", "logging", "mark", "degrade"}

\* A tuner calls run while it has a trial, and only then.
PhaseInv(c) ==
    /\ phase[c] = "trial" <=> place[c] \in Working \cup Ended
    /\ place[c] = "crashed" => phase[c] = "crashed"
    /\ phase[c] \in {"check", "claim", "optimize", "trial"} =>
          study[c] \in Studies /\ own[c] \in Contexts
    /\ phase[c] = "idle" => left[c] = NumTrials

\* The run it calls for is that of a trial of its study.
TrialInv(c) ==
    phase[c] = "trial" =>
        \E n \in DOMAIN trials[study[c]] :
            /\ runId[c] = <<own[c], n>>
            /\ trials[study[c]][n].context = own[c]
            /\ left[c] > 0

\* The maker of a record is alone with it until it is tracked.
MakerInv(c) ==
    /\ place[c] \in Making => records[runId[c]] = Own(c)
    /\ place[c] = "log" => mirror[runId[c]][c] = "none"
    /\ place[c] \in {"logging", "degrade"} => mirror[runId[c]][c] # "complete"
    /\ place[c] = "mark" => mirror[runId[c]][c] = "complete"
    /\ place[c] \in {"load", "returned"} => Stored(c)
    /\ place[c] = "returned" => EvidenceOf(answer[c]) = EvidenceOf(records[runId[c]])

\* A tuner that tracks has had each of its records logged, but for the one it
\* is busy with.
TrackInv(c) ==
    /\ phase[c] = "idle" => \A i \in RunIds : records[i] # None => records[i].by # c
    /\ tracks[c] => \A i \in RunIds :
          records[i] # None /\ records[i].by = c =>
              \/ records[i].tracking = "logged"
              \/ runId[c] = i /\ place[c] \in Making \cup {"untracked"}
    /\ place[c] = "returned" /\ tracks[c] /\ answer[c].by = c =>
          answer[c].tracking = "logged"

CallInv(c) == PhaseInv(c) /\ TrialInv(c) /\ MakerInv(c) /\ TrackInv(c)

\* Only the maker of a record has logged it, and the record says how far.
MirrorInv(i) ==
    /\ \A c \in Callers : mirror[i][c] # "none" =>
          records[i] # None /\ records[i].by = c
    /\ records[i] # None =>
          /\ records[i].tracking = "logged" => mirror[i][records[i].by] = "complete"
          /\ records[i].tracking = "degraded" => mirror[i][records[i].by] # "complete"
          /\ records[i].tracking = "degraded" <=> records[i].failure = "tracking"

TrialsInv ==
    /\ TrialsAreBacked
    /\ \A s \in Studies : \A n \in DOMAIN trials[s] :
          <<trials[s][n].context, n>> \in RunIds

IndInv ==
    /\ TypeOK
    /\ \A c \in Callers : CallInv(c)
    /\ \A i \in RunIds : MirrorInv(i)
    /\ NoLitter
    /\ TrialsInv
-----------------------------------------------------------------------------
\* What the step of one tuner leaves alone: the other tuners, ...
OthersAlone(c) ==
    \A d \in Callers \ {c} :
        /\ place'[d] = place[d] /\ runId'[d] = runId[d] /\ tracks'[d] = tracks[d]
        /\ answer'[d] = answer[d] /\ phase'[d] = phase[d] /\ study'[d] = study[d]
        /\ own'[d] = own[d] /\ left'[d] = left[d]
        /\ \A i \in RunIds : mirror'[i][d] = mirror[i][d]

\* ... the records but for its own, and of these the evidence, ...
StoreAlone(c) ==
    \A i \in RunIds :
        \/ records'[i] = records[i]
        \/ /\ records'[i] \in Record /\ records'[i].by = c
           /\ records[i] # None =>
                 records[i].by = c /\ EvidenceOf(records'[i]) = EvidenceOf(records[i])

\* ... and the trials there are, but for their outcome.
TrialsAlone ==
    \A s \in Studies : \A n \in DOMAIN trials[s] :
        n \in DOMAIN trials'[s] /\ trials'[s][n].context = trials[s][n].context

\* A tuner adds trials of its own context only, to its own study.
AddsOwn(c) ==
    \A s \in Studies : \A n \in DOMAIN trials'[s] :
        \/ n \in DOMAIN trials[s] /\ trials'[s][n].context = trials[s][n].context
        \/ /\ n \notin DOMAIN trials[s] /\ phase[c] \in {"optimize", "trial"}
           /\ s = study[c] /\ trials'[s][n].context = own[c]

\* The record that a call makes is its own and pending.
LEMMA OwnRecord ==
    ASSUME NEW c \in Callers
    PROVE  /\ Own(c) \in Record /\ Own(c) # None /\ Own(c).by = c
           /\ Own(c).tracking = "pending" /\ Own(c).failure # "tracking"
<1>1. /\ Own(c) \in Record /\ Own(c).by = c
      /\ Own(c).tracking = "pending" /\ Own(c).failure # "tracking"
  BY DEF Own, Record
<1> QED
  BY <1>1, NoneIsNothing

\* Evidence of a record is some, and of no record none.
LEMMA EvidenceType ==
    ASSUME NEW r \in Record \cup {None}
    PROVE  /\ EvidenceOf(r) \in Evidence \cup {None}
           /\ EvidenceOf(r) = None <=> r = None
  BY NoneIsNothing DEF EvidenceOf, Evidence, Record

\* A tuner with a trial has a run, a study and a context.
LEMMA Busy ==
    ASSUME IndInv, NEW c \in Callers, phase[c] = "trial"
    PROVE  /\ runId[c] \in RunIds /\ study[c] \in Studies
           /\ own[c] \in Contexts /\ left[c] > 0
<1>1. study[c] \in Studies /\ own[c] \in Contexts
  BY DEF IndInv, CallInv, PhaseInv
<1>2. PICK n \in DOMAIN trials[study[c]] :
         runId[c] = <<own[c], n>> /\ trials[study[c]][n].context = own[c] /\ left[c] > 0
  BY DEF IndInv, CallInv, TrialInv
<1> QED
  BY <1>1, <1>2 DEF IndInv, TrialsInv

\* What is known of a tuner survives the steps of the others.
LEMMA OthersKept ==
    ASSUME IndInv, NEW c \in Callers, OthersAlone(c), StoreAlone(c), TrialsAlone,
           NEW d \in Callers \ {c}
    PROVE  CallInv(d)'
<1>1. CallInv(d) /\ TypeOK
  BY DEF IndInv
<1>2. /\ place'[d] = place[d] /\ runId'[d] = runId[d] /\ tracks'[d] = tracks[d]
      /\ answer'[d] = answer[d] /\ phase'[d] = phase[d] /\ study'[d] = study[d]
      /\ own'[d] = own[d] /\ left'[d] = left[d]
      /\ \A i \in RunIds : mirror'[i][d] = mirror[i][d]
  BY DEF OthersAlone
<1>3. \A i \in RunIds :
         /\ records[i] # None => EvidenceOf(records'[i]) = EvidenceOf(records[i])
         /\ records[i] # None => records'[i] # None
         /\ records'[i] # records[i] => records'[i] # None /\ records'[i].by # d
         /\ records[i] # None /\ records[i].by = d => records'[i] = records[i]
  BY NoneIsNothing DEF StoreAlone
<1>4. PhaseInv(d)'
  BY <1>1, <1>2 DEF CallInv, PhaseInv
<1>5. TrialInv(d)'
  BY <1>1, <1>2 DEF CallInv, PhaseInv, TrialInv, TrialsAlone
<1>6. place[d] \in Working \cup Ended => runId[d] \in RunIds
  BY <1>1, Busy DEF CallInv, PhaseInv
<1>7. Own(d)' = Own(d)
  BY <1>2 DEF Own
<1>8. MakerInv(d)'
  <2>1. place[d] \in Making => records'[runId[d]] = Own(d)
    BY <1>1, <1>3, <1>6, OwnRecord DEF CallInv, MakerInv, Making, Working
  <2>2. place[d] \in {"load", "returned"} => records'[runId[d]] # None
    BY <1>1, <1>3, <1>6 DEF CallInv, MakerInv, Stored, Working, Ended
  <2>3. place[d] = "returned" =>
           EvidenceOf(answer[d]) = EvidenceOf(records'[runId[d]])
    BY <1>1, <1>3, <1>6 DEF CallInv, MakerInv, Stored, Ended
  <2>4. place[d] \in {"log", "logging", "degrade", "mark"} =>
           mirror'[runId[d]][d] = mirror[runId[d]][d]
    BY <1>2, <1>6 DEF Working
  <2> QED
    BY <1>1, <1>2, <1>7, <2>1, <2>2, <2>3, <2>4 DEF CallInv, MakerInv, Stored
<1>9. TrackInv(d)'
  BY <1>1, <1>2, <1>3 DEF CallInv, TrackInv
<1> QED
  BY <1>4, <1>5, <1>8, <1>9 DEF CallInv
-----------------------------------------------------------------------------
Frame == UNCHANGED <<phase, study, own, left, context, trials>>

\* The steps of a call that touch neither the records nor the mirror.
Quiet(c) == Lookup(c) \/ Research(c) \/ Save(c) \/ Cleanup(c) \/ Load(c)

LEMMA QuietKeeps ==
    ASSUME IndInv, NEW c \in Callers, Quiet(c), Frame
    PROVE  /\ TypeOK' /\ OthersAlone(c) /\ StoreAlone(c) /\ CallInv(c)'
           /\ (\A i \in RunIds : MirrorInv(i)') /\ NoLitter'
<1>1. TypeOK /\ CallInv(c) /\ NoLitter
  BY DEF IndInv
<1>2. place[c] \in Working /\ place[c] \notin Making /\ phase[c] = "trial"
  BY <1>1 DEF Quiet, Lookup, Research, Save, Cleanup, Load, Working, Making,
     CallInv, PhaseInv
<1>3. runId[c] \in RunIds
  BY <1>2, Busy
<1>4. /\ place' = [place EXCEPT ![c] = place'[c]]
      /\ place'[c] \in (Working \cup Ended) \ (Making \cup {"untracked"})
  <2>1. place \in [Callers -> Place]
    BY <1>1 DEF TypeOK, RunsTypeOK
  <2> QED
    BY <2>1 DEF Quiet, Lookup, Research, Save, Cleanup, Load, GoTo, Working,
       Ended, Making
<1>5. runId' = runId /\ tracks' = tracks /\ records' = records /\ mirror' = mirror
  BY DEF Quiet, Lookup, Research, Save, Cleanup, Load
<1>6. /\ answer' = [answer EXCEPT ![c] = answer'[c]]
      /\ answer'[c] \in {answer[c], records[runId[c]]}
      /\ place'[c] = "returned" => answer'[c] = records[runId[c]] /\ Stored(c)
      /\ place'[c] = "load" => Stored(c)
  <2>1. place \in [Callers -> Place] /\ answer \in [Callers -> Record \cup {None}]
    BY <1>1 DEF TypeOK, RunsTypeOK
  <2> QED
    BY <1>1, <2>1 DEF Quiet, Lookup, Research, Save, Cleanup, Load, GoTo,
       CallInv, MakerInv
<1>7. /\ staging' \subseteq Callers
      /\ \A d \in staging' : d # c => d \in staging
      /\ c \in staging' => place'[c] \in {"rename", "cleanup"}
  <2>1. place \in [Callers -> Place] /\ staging \subseteq Callers
    BY <1>1 DEF TypeOK, RunsTypeOK
  <2> QED
    BY <1>1, <2>1 DEF Quiet, Lookup, Research, Save, Cleanup, Load, GoTo,
       NoLitter
<1>8. TypeOK'
  <2>1. place' \in [Callers -> Place]
    BY <1>1, <1>4 DEF TypeOK, RunsTypeOK, Place
  <2>2. answer' \in [Callers -> Record \cup {None}]
    BY <1>1, <1>3, <1>6 DEF TypeOK, RunsTypeOK
  <2>3. \A d \in Callers :
           /\ place'[d] \in Working => runId[d] \in RunIds
           /\ place'[d] = "returned" => answer'[d] # None
    BY <1>1, <1>3, <1>4, <1>6 DEF TypeOK, RunsTypeOK, Stored
  <2> QED
    BY <1>1, <1>5, <1>7, <2>1, <2>2, <2>3 DEF TypeOK, RunsTypeOK, Frame
<1>9. OthersAlone(c)
  BY <1>1, <1>4, <1>5, <1>6 DEF OthersAlone, Frame, TypeOK, RunsTypeOK
<1>10. StoreAlone(c)
  BY <1>5 DEF StoreAlone
<1>11. CallInv(c)'
  <2>1. PhaseInv(c)'
    BY <1>1, <1>2, <1>4 DEF CallInv, PhaseInv, Frame, Working, Ended
  <2>2. TrialInv(c)'
    BY <1>1, <1>5 DEF CallInv, TrialInv, Frame
  <2>3. MakerInv(c)'
    BY <1>4, <1>5, <1>6 DEF MakerInv, Making, Stored
  <2>4. TrackInv(c)'
    BY <1>1, <1>2, <1>3, <1>4, <1>5, <1>6 DEF CallInv, TrackInv, Frame, Working,
       Stored
  <2> QED
    BY <2>1, <2>2, <2>3, <2>4 DEF CallInv
<1>12. \A i \in RunIds : MirrorInv(i)'
  BY <1>5 DEF IndInv, MirrorInv
<1>13. NoLitter'
  BY <1>1, <1>4, <1>7 DEF NoLitter, TypeOK, RunsTypeOK
<1> QED
  BY <1>8, <1>9, <1>10, <1>11, <1>12, <1>13

\* The rename that makes the record, or finds one.
LEMMA RenameKeeps ==
    ASSUME IndInv, NEW c \in Callers, Rename(c), Frame
    PROVE  /\ TypeOK' /\ OthersAlone(c) /\ StoreAlone(c) /\ CallInv(c)'
           /\ (\A i \in RunIds : MirrorInv(i)') /\ NoLitter'
<1> DEFINE id == runId[c]
<1>1. TypeOK /\ CallInv(c) /\ NoLitter /\ \A i \in RunIds : MirrorInv(i)
  BY DEF IndInv
<1>2. place[c] = "rename" /\ phase[c] = "trial"
  BY <1>1 DEF Rename, CallInv, PhaseInv, Working
<1>3. id \in RunIds
  BY <1>2, Busy
<1>4. /\ Own(c) \in Record /\ Own(c) # None /\ Own(c).by = c
      /\ Own(c).tracking = "pending" /\ Own(c).failure # "tracking"
  BY OwnRecord
<1>5. /\ runId' = runId /\ tracks' = tracks /\ answer' = answer /\ mirror' = mirror
      /\ \/ /\ Stored(c) /\ records' = records /\ staging' = staging
            /\ place' = [place EXCEPT ![c] = "cleanup"]
         \/ /\ records[id] = None /\ records' = [records EXCEPT ![id] = Own(c)]
            /\ staging' = staging \ {c} /\ place' = [place EXCEPT ![c] = "log"]
  BY DEF Rename, GoTo, Stored
<1>6. TypeOK'
  <2>1. place' \in [Callers -> Place]
    BY <1>1, <1>5 DEF TypeOK, RunsTypeOK, Place, Working
  <2>2. records' \in [RunIds -> Record \cup {None}] /\ staging' \subseteq Callers
    BY <1>1, <1>3, <1>4, <1>5 DEF TypeOK, RunsTypeOK
  <2>3. \A d \in Callers :
           /\ place'[d] \in Working => runId[d] \in RunIds
           /\ place'[d] = "returned" => answer[d] # None
    BY <1>1, <1>3, <1>5 DEF TypeOK, RunsTypeOK
  <2> QED
    BY <1>1, <1>5, <2>1, <2>2, <2>3 DEF TypeOK, RunsTypeOK, Frame
<1>7. OthersAlone(c)
  BY <1>1, <1>5 DEF OthersAlone, Frame, TypeOK, RunsTypeOK
<1>8. StoreAlone(c)
  BY <1>1, <1>3, <1>4, <1>5 DEF StoreAlone, TypeOK, RunsTypeOK
<1>9. CallInv(c)'
  <2>1. PhaseInv(c)'
    BY <1>1, <1>2, <1>5 DEF CallInv, PhaseInv, Frame, Working, TypeOK,
       RunsTypeOK
  <2>2. TrialInv(c)'
    BY <1>1, <1>5 DEF CallInv, TrialInv, Frame
  <2>3. place'[c] \in {"cleanup", "log"}
    BY <1>1, <1>5 DEF TypeOK, RunsTypeOK
  <2>4. place'[c] = "log" => records'[id] = Own(c) /\ mirror[id][c] = "none"
    BY <1>1, <1>3, <1>5 DEF TypeOK, RunsTypeOK, MirrorInv
  <2>5. Own(c)' = Own(c)
    BY <1>5 DEF Own
  <2>6. MakerInv(c)'
    BY <1>5, <2>3, <2>4, <2>5 DEF MakerInv, Making
  <2>7. \A i \in RunIds : i = id \/ records'[i] = records[i]
    BY <1>1, <1>5 DEF TypeOK, RunsTypeOK
  <2>8. place'[c] = "cleanup" => records' = records
    BY <1>1, <1>5 DEF TypeOK, RunsTypeOK
  <2>9. TrackInv(c)'
    BY <1>1, <1>2, <1>5, <2>3, <2>7, <2>8 DEF CallInv, TrackInv, Frame, Making
  <2> QED
    BY <2>1, <2>2, <2>6, <2>9 DEF CallInv
<1>10. ASSUME NEW i \in RunIds PROVE MirrorInv(i)'
  <2>1. CASE records'[i] = records[i]
    BY <1>1, <1>5, <2>1 DEF MirrorInv
  <2>2. CASE records'[i] # records[i]
    <3>1. records[i] = None /\ records'[i] = Own(c)
      BY <1>1, <1>5, <2>2 DEF TypeOK, RunsTypeOK
    <3> QED
      BY <1>1, <1>4, <1>5, <3>1 DEF MirrorInv
  <2> QED
    BY <2>1, <2>2
<1>11. NoLitter'
  BY <1>1, <1>5 DEF NoLitter, TypeOK, RunsTypeOK
<1> QED
  BY <1>6, <1>7, <1>8, <1>9, <1>10, <1>11

\* The steps of the tracker touch the maker's MLflow run only.
LEMMA LogKeeps ==
    ASSUME IndInv, NEW c \in Callers, Log(c) \/ Logging(c), Frame
    PROVE  /\ TypeOK' /\ OthersAlone(c) /\ StoreAlone(c) /\ CallInv(c)'
           /\ (\A i \in RunIds : MirrorInv(i)') /\ NoLitter'
<1> DEFINE id == runId[c]
<1>1. TypeOK /\ CallInv(c) /\ NoLitter /\ \A i \in RunIds : MirrorInv(i)
  BY DEF IndInv
<1>2. place[c] \in {"log", "logging"} /\ phase[c] = "trial"
  BY <1>1 DEF Log, Logging, CallInv, PhaseInv, Working
<1>3. id \in RunIds
  BY <1>2, Busy
<1>4. /\ Own(c) # None /\ Own(c).by = c
      /\ Own(c).tracking = "pending" /\ Own(c).failure # "tracking"
  BY OwnRecord
<1>5. records[id] = Own(c) /\ mirror[id][c] # "complete"
  BY <1>1, <1>2 DEF CallInv, MakerInv, Making
<1>6. /\ runId' = runId /\ tracks' = tracks /\ answer' = answer /\ records' = records
      /\ staging' = staging
      /\ place' = [place EXCEPT ![c] = place'[c]]
      /\ mirror' = [mirror EXCEPT ![id] = [@ EXCEPT ![c] = mirror'[id][c]]]
      /\ \/ ~tracks[c] /\ place'[c] = "load"
         \/ place'[c] = "logging" /\ mirror'[id][c] = "partial"
         \/ place'[c] = "degrade" /\ mirror'[id][c] = mirror[id][c]
         \/ place'[c] = "mark" /\ mirror'[id][c] = "complete"
      /\ mirror'[id][c] \in {mirror[id][c], "partial", "complete"}
  BY <1>1, <1>3 DEF Log, Logging, GoTo, TypeOK, RunsTypeOK
<1>7. TypeOK'
  <2> DEFINE state == mirror'[id][c]
  <2>1. place'[c] \in Making \cup {"load"}
    BY <1>6 DEF Making
  <2>2. place' \in [Callers -> Place]
    <3>1. place'[c] \in Place
      BY <2>1 DEF Place, Working, Making
    <3>2. place \in [Callers -> Place]
      BY <1>1 DEF TypeOK, RunsTypeOK
    <3> QED
      BY <1>6, <3>1, <3>2
  <2>3. mirror \in [RunIds -> [Callers -> {"none", "partial", "complete"}]]
    BY <1>1 DEF TypeOK, RunsTypeOK
  <2>4. state \in {"none", "partial", "complete"}
    BY <1>3, <1>6, <2>3
  <2>5. mirror' = [mirror EXCEPT ![id] = [@ EXCEPT ![c] = state]]
    BY <1>6
  <2>6. mirror' \in [RunIds -> [Callers -> {"none", "partial", "complete"}]]
    <3> HIDE DEF state
    <3> QED
      BY <1>3, <2>3, <2>4, <2>5
  <2>7. \A d \in Callers :
           /\ place'[d] \in Working => runId[d] \in RunIds
           /\ place'[d] = "returned" => answer[d] # None
    <3>1. place'[c] # "returned" /\ \A d \in Callers \ {c} : place'[d] = place[d]
      BY <1>1, <1>6, <2>1 DEF TypeOK, RunsTypeOK, Making
    <3> QED
      BY <1>1, <1>3, <3>1 DEF TypeOK, RunsTypeOK
  <2> QED
    BY <1>1, <1>6, <2>2, <2>6, <2>7 DEF TypeOK, RunsTypeOK, Frame
<1>8. OthersAlone(c)
  BY <1>1, <1>3, <1>6 DEF OthersAlone, Frame, TypeOK, RunsTypeOK
<1>9. StoreAlone(c)
  BY <1>6 DEF StoreAlone
<1>10. CallInv(c)'
  <2>1. PhaseInv(c)'
    BY <1>1, <1>2, <1>6 DEF CallInv, PhaseInv, Frame, Working
  <2>2. TrialInv(c)'
    BY <1>1, <1>6 DEF CallInv, TrialInv, Frame
  <2>3. Own(c)' = Own(c)
    BY <1>6 DEF Own
  <2>4. MakerInv(c)'
    BY <1>4, <1>5, <1>6, <2>3 DEF MakerInv, Stored
  <2>5. TrackInv(c)'
    BY <1>1, <1>2, <1>6 DEF CallInv, TrackInv, Frame, Making
  <2> QED
    BY <2>1, <2>2, <2>4, <2>5 DEF CallInv
<1>11. ASSUME NEW i \in RunIds PROVE MirrorInv(i)'
  <2>1. CASE i = id
    <3>1. \A d \in Callers : d # c => mirror'[id][d] = mirror[id][d]
      BY <1>1, <1>3, <1>6 DEF TypeOK, RunsTypeOK
    <3> QED
      BY <1>1, <1>4, <1>5, <1>6, <2>1, <3>1 DEF MirrorInv
  <2>2. CASE i # id
    BY <1>1, <1>3, <1>6, <2>2 DEF MirrorInv, TypeOK, RunsTypeOK
  <2> QED
    BY <2>1, <2>2
<1>12. NoLitter'
  BY <1>1, <1>2, <1>6 DEF NoLitter, TypeOK, RunsTypeOK
<1> QED
  BY <1>7, <1>8, <1>9, <1>10, <1>11, <1>12

\* The maker writes into its record how the tracking went.
LEMMA MarkKeeps ==
    ASSUME IndInv, NEW c \in Callers, Mark(c) \/ Degrade(c), Frame
    PROVE  /\ TypeOK' /\ OthersAlone(c) /\ StoreAlone(c) /\ CallInv(c)'
           /\ (\A i \in RunIds : MirrorInv(i)') /\ NoLitter'
<1> DEFINE id == runId[c]
<1>1. TypeOK /\ CallInv(c) /\ NoLitter /\ \A i \in RunIds : MirrorInv(i)
  BY DEF IndInv
<1>2. place[c] \in {"mark", "degrade"} /\ phase[c] = "trial"
  BY <1>1 DEF Mark, Degrade, CallInv, PhaseInv, Working
<1>3. id \in RunIds
  BY <1>2, Busy
<1>4. Own(c) \in Record /\ Own(c).by = c /\ Own(c).failure # "tracking" /\ Own(c) # None
  BY OwnRecord
<1>5. /\ records[id] = Own(c)
      /\ place[c] = "mark" => mirror[id][c] = "complete"
      /\ place[c] = "degrade" => mirror[id][c] # "complete"
  BY <1>1, <1>2 DEF CallInv, MakerInv, Making
<1>6. PICK r \in Record :
         /\ records' = [records EXCEPT ![id] = r]
         /\ r.by = c /\ r.status = Own(c).status
         /\ \/ /\ place[c] = "mark" /\ place' = [place EXCEPT ![c] = "load"]
               /\ r.tracking = "logged" /\ r.failure # "tracking"
            \/ /\ place[c] = "degrade" /\ place' = [place EXCEPT ![c] = "untracked"]
               /\ r.tracking = "degraded" /\ r.failure = "tracking"
  <2>1. CASE Mark(c)
    <3> DEFINE r == [Own(c) EXCEPT !.tracking = "logged"]
    <3>1. /\ r \in Record /\ r.by = c /\ r.status = Own(c).status
          /\ r.tracking = "logged" /\ r.failure # "tracking"
      BY <1>4 DEF Record
    <3> QED
      BY <2>1, <3>1 DEF Mark, GoTo
  <2>2. CASE Degrade(c)
    <3> DEFINE r == [Own(c) EXCEPT !.tracking = "degraded", !.failure = "tracking"]
    <3>1. /\ r \in Record /\ r.by = c /\ r.status = Own(c).status
          /\ r.tracking = "degraded" /\ r.failure = "tracking"
      BY <1>4 DEF Record
    <3> QED
      BY <2>2, <3>1 DEF Degrade, GoTo
  <2> QED
    BY <2>1, <2>2
<1>7. /\ runId' = runId /\ tracks' = tracks /\ answer' = answer /\ mirror' = mirror
      /\ staging' = staging
  BY DEF Mark, Degrade
<1>8. r # None /\ EvidenceOf(r) = EvidenceOf(records[id])
  BY <1>4, <1>5, <1>6, NoneIsNothing DEF EvidenceOf
<1>9. /\ records'[id] = r
      /\ \A i \in RunIds : i # id => records'[i] = records[i]
      /\ place'[c] \in {"load", "untracked"}
      /\ place'[c] = "load" => r.tracking = "logged"
  BY <1>1, <1>3, <1>6 DEF TypeOK, RunsTypeOK
<1>10. TypeOK'
  <2>1. place' \in [Callers -> Place]
    <3>1. {"load", "untracked"} \subseteq Place
      BY DEF Place, Working, Ended
    <3>2. place \in [Callers -> Place]
      BY <1>1 DEF TypeOK, RunsTypeOK
    <3> QED
      BY <1>6, <3>1, <3>2
  <2>2. records' \in [RunIds -> Record \cup {None}]
    BY <1>1, <1>3, <1>6 DEF TypeOK, RunsTypeOK
  <2>3. \A d \in Callers :
           /\ place'[d] \in Working => runId[d] \in RunIds
           /\ place'[d] = "returned" => answer[d] # None
    BY <1>1, <1>3, <1>6 DEF TypeOK, RunsTypeOK
  <2> QED
    BY <1>1, <1>7, <2>1, <2>2, <2>3 DEF TypeOK, RunsTypeOK, Frame
<1>11. OthersAlone(c)
  BY <1>1, <1>6, <1>7 DEF OthersAlone, Frame, TypeOK, RunsTypeOK
<1>12. StoreAlone(c)
  BY <1>4, <1>5, <1>6, <1>8, <1>9 DEF StoreAlone
<1>13. CallInv(c)'
  <2>1. PhaseInv(c)'
    BY <1>1, <1>2, <1>7, <1>9 DEF CallInv, PhaseInv, Frame, Working, Ended
  <2>2. TrialInv(c)'
    BY <1>1, <1>7 DEF CallInv, TrialInv, Frame
  <2>3. MakerInv(c)'
    BY <1>7, <1>8, <1>9 DEF MakerInv, Making, Stored
  <2>4. TrackInv(c)'
    BY <1>1, <1>2, <1>7, <1>9 DEF CallInv, TrackInv, Frame
  <2> QED
    BY <2>1, <2>2, <2>3, <2>4 DEF CallInv
<1>14. ASSUME NEW i \in RunIds PROVE MirrorInv(i)'
  <2>1. CASE i = id
    BY <1>1, <1>3, <1>4, <1>5, <1>6, <1>7, <1>8, <1>9, <2>1 DEF MirrorInv
  <2>2. CASE i # id
    BY <1>1, <1>7, <1>9, <2>2 DEF MirrorInv
  <2> QED
    BY <2>1, <2>2
<1>15. NoLitter'
  BY <1>1, <1>2, <1>6, <1>7 DEF NoLitter, TypeOK, RunsTypeOK
<1> QED
  BY <1>10, <1>11, <1>12, <1>13, <1>14, <1>15

\* Whatever a call does to the store, the trials that count stay backed.
LEMMA RunStepKeeps ==
    ASSUME IndInv, NEW c \in Callers, RunStep(c), Frame
    PROVE  IndInv'
<1>1. /\ TypeOK' /\ OthersAlone(c) /\ StoreAlone(c) /\ CallInv(c)'
      /\ (\A i \in RunIds : MirrorInv(i)') /\ NoLitter'
  BY QuietKeeps, RenameKeeps, LogKeeps, MarkKeeps DEF RunStep, Quiet
<1>2. TrialsAlone
  BY DEF TrialsAlone, Frame
<1>3. TrialsInv'
  <2>1. ASSUME NEW s \in Studies, NEW n \in DOMAIN trials[s],
               trials[s][n].state = "complete"
        PROVE  trials[s][n].run = EvidenceOf(records'[<<trials[s][n].context, n>>])
    <3> DEFINE id == <<trials[s][n].context, n>>
    <3>1. id \in RunIds /\ trials[s][n].run # None /\ trials[s][n].run = EvidenceOf(records[id])
      BY <2>1 DEF IndInv, TrialsInv, TrialsAreBacked
    <3>2. records[id] # None
      BY <3>1 DEF EvidenceOf
    <3> QED
      BY <1>1, <3>1, <3>2 DEF StoreAlone
  <2> QED
    BY <2>1 DEF IndInv, TrialsInv, TrialsAreBacked, Frame
<1>4. \A d \in Callers : CallInv(d)'
  BY <1>1, <1>2, OthersKept
<1> QED
  BY <1>1, <1>3, <1>4 DEF IndInv
-----------------------------------------------------------------------------
\* A tuner without a trial has no call under way and no directory.
LEMMA Resting ==
    ASSUME IndInv, NEW c \in Callers,
           phase[c] \in {"idle", "check", "claim", "optimize"}
    PROVE  place[c] = "idle" /\ c \notin staging
<1>1. TypeOK /\ PhaseInv(c) /\ NoLitter
  BY DEF IndInv, CallInv
<1>2. place[c] = "idle"
  BY <1>1 DEF TypeOK, RunsTypeOK, PhaseInv, Place
<1> QED
  BY <1>1, <1>2 DEF NoLitter

\* A tuner starts.
LEMMA TuneKeeps ==
    ASSUME IndInv, NEW c \in Callers, NEW s \in Studies, NEW x \in Contexts,
           NEW track \in BOOLEAN, Tune(c, s, x, track)
    PROVE  IndInv'
<1>1. TypeOK /\ CallInv(c) /\ NoLitter
  BY DEF IndInv
<1>2. place[c] = "idle"
  BY Resting DEF Tune
<1>3. /\ TypeOK'
      /\ phase'[c] = "check" /\ study'[c] = s /\ own'[c] = x
  <2>1. /\ phase' \in [Tuners -> Phase] /\ phase'[c] = "check"
    BY <1>1 DEF TypeOK, Tune, MoveTo, Phase, Tuners
  <2>2. /\ study' \in [Tuners -> Studies \cup {None}] /\ study'[c] = s
        /\ own' \in [Tuners -> Contexts \cup {None}] /\ own'[c] = x
        /\ tracks' \in [Callers -> BOOLEAN]
    BY <1>1 DEF TypeOK, RunsTypeOK, Tune, Tuners
  <2> QED
    BY <1>1, <2>1, <2>2 DEF TypeOK, RunsTypeOK, Tune
<1>4. OthersAlone(c) /\ StoreAlone(c) /\ TrialsAlone
  BY <1>1 DEF Tune, MoveTo, OthersAlone, StoreAlone, TrialsAlone
<1>5. CallInv(c)'
  <2>1. PhaseInv(c)' /\ TrialInv(c)'
    BY <1>1, <1>2, <1>3 DEF PhaseInv, TrialInv, Tune, Working, Ended
  <2>2. MakerInv(c)'
    BY <1>2 DEF MakerInv, Making, Tune
  <2>3. TrackInv(c)'
    BY <1>1, <1>2, <1>3 DEF CallInv, TrackInv, Tune
  <2> QED
    BY <2>1, <2>2, <2>3 DEF CallInv
<1>6. \A d \in Callers : CallInv(d)'
  BY <1>4, <1>5, OthersKept
<1>7. (\A i \in RunIds : MirrorInv(i)') /\ NoLitter' /\ TrialsInv'
  BY DEF IndInv, Tune, MirrorInv, NoLitter, TrialsInv, TrialsAreBacked
<1> QED
  BY <1>3, <1>6, <1>7 DEF IndInv

\* A tuner moves on without calling run: it resumes a study or claims one.
LEMMA MoveKeeps ==
    ASSUME IndInv, NEW c \in Callers, phase[c] \in {"check", "claim"},
           NEW p \in {"claim", "optimize"}, MoveTo(c, p),
           UNCHANGED <<runVars, study, own, left, trials>>,
           context' \in [Studies -> Contexts \cup {None}]
    PROVE  IndInv'
<1>1. TypeOK /\ CallInv(c) /\ NoLitter
  BY DEF IndInv
<1>2. place[c] = "idle"
  BY Resting
<1>3. TypeOK' /\ phase'[c] = p
  <2>1. phase' \in [Tuners -> Phase] /\ phase'[c] = p
    BY <1>1 DEF TypeOK, MoveTo, Phase, Tuners
  <2> QED
    BY <1>1, <2>1 DEF TypeOK, RunsTypeOK, runVars
<1>4. OthersAlone(c) /\ StoreAlone(c) /\ TrialsAlone
  BY <1>1 DEF MoveTo, OthersAlone, StoreAlone, TrialsAlone, runVars
<1>5. CallInv(c)'
  <2>1. PhaseInv(c)' /\ TrialInv(c)'
    BY <1>1, <1>2, <1>3 DEF CallInv, PhaseInv, TrialInv, runVars
  <2>2. MakerInv(c)'
    BY <1>2 DEF MakerInv, Making, runVars
  <2>3. TrackInv(c)'
    BY <1>1, <1>2, <1>3 DEF CallInv, TrackInv, runVars
  <2> QED
    BY <2>1, <2>2, <2>3 DEF CallInv
<1>6. \A d \in Callers : CallInv(d)'
  BY <1>4, <1>5, OthersKept
<1>7. (\A i \in RunIds : MirrorInv(i)') /\ NoLitter' /\ TrialsInv'
  BY DEF IndInv, runVars, MirrorInv, NoLitter, TrialsInv, TrialsAreBacked
<1> QED
  BY <1>3, <1>6, <1>7 DEF IndInv

\* A tuner ends between two trials, or is killed at any point.
LEMMA ExitKeeps ==
    ASSUME IndInv, NEW c \in Callers,
           phase[c] \in {"check", "claim", "optimize", "trial"},
           NEW p \in {"done", "rejected", "crashed"}, Exit(c, p),
           IF phase[c] = "trial" THEN p = "crashed" /\ GoTo(c, "crashed") ELSE UNCHANGED place,
           UNCHANGED <<answer, records, staging, mirror, context, trials>>
    PROVE  IndInv'
<1>1. TypeOK /\ CallInv(c) /\ NoLitter
  BY DEF IndInv
<1>2. /\ phase'[c] = p /\ tracks'[c] = FALSE
      /\ place'[c] \in {"idle", "crashed"}
      /\ place'[c] = "crashed" => p = "crashed"
      /\ c \in staging => place'[c] = "crashed"
      /\ place' = [place EXCEPT ![c] = place'[c]]
  <2>1. phase'[c] = p /\ tracks'[c] = FALSE
    BY <1>1 DEF Exit, MoveTo, TypeOK, RunsTypeOK, Tuners
  <2>2. CASE phase[c] = "trial"
    BY <1>1, <2>1, <2>2 DEF GoTo, TypeOK, RunsTypeOK
  <2>3. CASE phase[c] # "trial"
    BY <1>1, <2>1, <2>3, Resting DEF TypeOK, RunsTypeOK
  <2> QED
    BY <2>2, <2>3
<1>3. TypeOK'
  <2>1. place' \in [Callers -> Place]
    BY <1>1, <1>2 DEF TypeOK, RunsTypeOK, Place
  <2>2. /\ phase' \in [Tuners -> Phase] /\ study' \in [Tuners -> Studies \cup {None}]
        /\ own' \in [Tuners -> Contexts \cup {None}] /\ left' \in [Tuners -> 0 .. NumTrials]
        /\ runId' \in [Callers -> RunIds \cup {None}] /\ tracks' \in [Callers -> BOOLEAN]
    BY <1>1, StudyAssumption DEF TypeOK, RunsTypeOK, Exit, MoveTo, Phase, Tuners
  <2>3. \A d \in Callers :
           /\ place'[d] \in Working => runId'[d] \in RunIds
           /\ place'[d] = "returned" => answer[d] # None
    BY <1>1, <1>2 DEF TypeOK, RunsTypeOK, Exit, Working
  <2> QED
    BY <1>1, <2>1, <2>2, <2>3 DEF TypeOK, RunsTypeOK
<1>4. OthersAlone(c) /\ StoreAlone(c) /\ TrialsAlone
  BY <1>1, <1>2 DEF Exit, MoveTo, OthersAlone, StoreAlone, TrialsAlone, TypeOK,
     RunsTypeOK
<1>5. CallInv(c)'
  <2>1. PhaseInv(c)' /\ TrialInv(c)'
    BY <1>2 DEF PhaseInv, TrialInv, Working, Ended
  <2>2. MakerInv(c)' /\ TrackInv(c)'
    BY <1>2 DEF MakerInv, TrackInv, Making
  <2> QED
    BY <2>1, <2>2 DEF CallInv
<1>6. \A d \in Callers : CallInv(d)'
  BY <1>4, <1>5, OthersKept
<1>7. NoLitter'
  BY <1>1, <1>2 DEF NoLitter, TypeOK, RunsTypeOK
<1>8. (\A i \in RunIds : MirrorInv(i)') /\ TrialsInv'
  BY DEF IndInv, MirrorInv, TrialsInv, TrialsAreBacked
<1> QED
  BY <1>3, <1>6, <1>7, <1>8 DEF IndInv

\* A trial is numbered and its run is called for.
LEMMA AskKeeps ==
    ASSUME IndInv, NEW c \in Callers, Ask(c)
    PROVE  IndInv' /\ AddsOwn(c)
<1> DEFINE s == study[c]
           n == Len(trials[s]) + 1
           id == <<own[c], n>>
           new == [context |-> own[c], state |-> "running", run |-> None]
<1>1. TypeOK /\ CallInv(c) /\ NoLitter
  BY DEF IndInv
<1>2. /\ phase[c] = "optimize" /\ left[c] > 0 /\ id \in RunIds
      /\ trials' = [trials EXCEPT ![s] = Append(@, new)]
      /\ runId' = [runId EXCEPT ![c] = id]
      /\ place' = [place EXCEPT ![c] = place'[c]] /\ place'[c] \in {"lookup", "blocked"}
      /\ phase' = [phase EXCEPT ![c] = "trial"]
      /\ UNCHANGED <<tracks, answer, records, staging, mirror, study, own, left, context>>
  BY <1>1 DEF Ask, Begin, GoTo, MoveTo, TypeOK, RunsTypeOK
<1>3. s \in Studies /\ own[c] \in Contexts /\ new \in Trial
  BY <1>1, <1>2 DEF CallInv, PhaseInv, Trial
<1>4. place[c] = "idle" /\ c \notin staging
  BY <1>2, Resting
<1>5. /\ trials[s] \in Seq(Trial) /\ trials'[s] \in Seq(Trial)
      /\ Len(trials'[s]) = n
      /\ \A m \in 1 .. Len(trials[s]) : trials'[s][m] = trials[s][m]
      /\ trials'[s][n] = new
      /\ \A r \in Studies : r # s => trials'[r] = trials[r]
  <2>1. trials[s] \in Seq(Trial) /\ trials'[s] = Append(trials[s], new)
    BY <1>1, <1>2, <1>3 DEF TypeOK
  <2> HIDE DEF new
  <2>2. \A r \in Studies : r # s => trials'[r] = trials[r]
    BY <1>1, <1>2 DEF TypeOK
  <2> QED
    BY <1>3, <2>1, <2>2, AppendProperties
<1>6. /\ n \in DOMAIN trials'[s] /\ DOMAIN trials[s] \subseteq DOMAIN trials'[s]
      /\ \A m \in DOMAIN trials[s] : trials'[s][m] = trials[s][m]
      /\ \A m \in DOMAIN trials'[s] : m \in DOMAIN trials[s] \/ m = n
  <2>1. DOMAIN trials[s] = 1 .. Len(trials[s]) /\ DOMAIN trials'[s] = 1 .. n
        /\ Len(trials[s]) \in Nat
    BY <1>5
  <2> HIDE DEF s
  <2> QED
    BY <1>5, <2>1
<1>7. \A r \in Studies : \A m \in DOMAIN trials'[r] :
         \/ m \in DOMAIN trials[r] /\ trials'[r][m] = trials[r][m]
         \/ r = s /\ m = n
  BY <1>5, <1>6
<1>8. TypeOK'
  <2>1. place' \in [Callers -> Place] /\ phase' \in [Tuners -> Phase]
    <3>1. {"lookup", "blocked"} \subseteq Place /\ "trial" \in Phase
      BY DEF Place, Working, Ended, Phase
    <3>2. place \in [Callers -> Place] /\ phase \in [Tuners -> Phase]
      BY <1>1 DEF TypeOK, RunsTypeOK
    <3> QED
      BY <1>2, <3>1, <3>2
  <2>2. runId' \in [Callers -> RunIds \cup {None}]
    BY <1>1, <1>2 DEF TypeOK, RunsTypeOK
  <2>3. \A d \in Callers :
           /\ place'[d] \in Working => runId'[d] \in RunIds
           /\ place'[d] = "returned" => answer[d] # None
    BY <1>1, <1>2 DEF TypeOK, RunsTypeOK
  <2>4. trials' \in [Studies -> Seq(Trial)]
    BY <1>1, <1>2, <1>5 DEF TypeOK
  <2> QED
    BY <1>1, <1>2, <2>1, <2>2, <2>3, <2>4 DEF TypeOK, RunsTypeOK
<1>9. OthersAlone(c) /\ StoreAlone(c)
  BY <1>1, <1>2 DEF OthersAlone, StoreAlone, TypeOK, RunsTypeOK
<1>10. TrialsAlone
  BY <1>3, <1>5, <1>6 DEF TrialsAlone
<1>11. CallInv(c)'
  <2>1. phase'[c] = "trial" /\ runId'[c] = id
    BY <1>1, <1>2 DEF TypeOK, RunsTypeOK, Tuners
  <2>2. PhaseInv(c)'
    BY <1>1, <1>2, <2>1 DEF CallInv, PhaseInv, Working, Ended
  <2>3. TrialInv(c)'
    BY <1>2, <1>5, <1>6, <2>1 DEF TrialInv
  <2>4. MakerInv(c)'
    BY <1>2 DEF MakerInv, Making
  <2>5. TrackInv(c)'
    BY <1>1, <1>2, <1>4, <2>1 DEF CallInv, TrackInv, Making
  <2> QED
    BY <2>2, <2>3, <2>4, <2>5 DEF CallInv
<1>12. \A d \in Callers : CallInv(d)'
  BY <1>9, <1>10, <1>11, OthersKept
<1>13. TrialsInv'
  <2>1. \A r \in Studies : \A m \in DOMAIN trials'[r] :
           <<trials'[r][m].context, m>> \in RunIds
    <3>1. trials'[s][n].context = own[c]
      BY <1>5
    <3> HIDE DEF s, n
    <3> QED
      BY <1>2, <1>7, <3>1 DEF IndInv, TrialsInv
  <2>2. TrialsAreBacked'
    BY <1>2, <1>5, <1>7 DEF IndInv, TrialsInv, TrialsAreBacked
  <2> QED
    BY <2>1, <2>2 DEF TrialsInv
<1>14. NoLitter'
  BY <1>1, <1>2, <1>4 DEF NoLitter, TypeOK, RunsTypeOK
<1>15. \A i \in RunIds : MirrorInv(i)'
  BY <1>2 DEF IndInv, MirrorInv
<1>16. AddsOwn(c)
  <2>1. trials'[s][n].context = own[c] /\ n \notin DOMAIN trials[s]
    BY <1>5
  <2> HIDE DEF n
  <2> QED
    BY <1>2, <1>7, <2>1 DEF AddsOwn
<1> QED
  BY <1>8, <1>12, <1>13, <1>14, <1>15, <1>16 DEF IndInv

\* The outcome of a trial is told, and is that of its run.
LEMMA TellKeeps ==
    ASSUME IndInv, NEW c \in Callers, Tell(c)
    PROVE  IndInv' /\ AddsOwn(c)
<1> DEFINE s == study[c]
<1>1. TypeOK /\ CallInv(c) /\ NoLitter
  BY DEF IndInv
<1>2. /\ phase[c] = "trial" /\ place[c] \in Ended
      /\ place' = [place EXCEPT ![c] = "idle"]
      /\ UNCHANGED <<answer, records, staging, mirror, context>>
  BY DEF Tell, GoTo
<1>3. s \in Studies /\ own[c] \in Contexts /\ left[c] > 0 /\ runId[c] \in RunIds
  BY <1>2, Busy
<1>4. PICK n \in DOMAIN trials[s] : runId[c] = <<own[c], n>> /\ trials[s][n].context = own[c]
  BY <1>1, <1>2 DEF CallInv, TrialInv
<1>5. PICK told :
         /\ trials' = [trials EXCEPT ![s] = [@ EXCEPT ![n] = told]]
         /\ told \in Trial /\ told.context = own[c]
         /\ told.state = "complete" =>
               told.run # None /\ told.run = EvidenceOf(records[runId[c]])
  <2> DEFINE old == trials[s][n]
             told == IF place[c] = "returned"
                     THEN [old EXCEPT !.state = "complete", !.run = EvidenceOf(answer[c])]
                     ELSE [old EXCEPT !.state = "fail"]
  <2>1. Number(c) = n
    BY <1>4 DEF Number
  <2>2. trials' = [trials EXCEPT ![s] = [@ EXCEPT ![n] = told]]
    BY <1>1, <1>3, <2>1 DEF Tell, TypeOK
  <2>3. old \in Trial /\ old.context = own[c]
    BY <1>1, <1>3, <1>4 DEF TypeOK
  <2>4. place[c] = "returned" =>
           /\ EvidenceOf(answer[c]) = EvidenceOf(records[runId[c]])
           /\ EvidenceOf(answer[c]) \in Evidence
    BY <1>1, <1>3, EvidenceType DEF CallInv, MakerInv, TypeOK, RunsTypeOK
  <2>5. told \in Trial /\ told.context = own[c]
    BY <2>3, <2>4 DEF Trial
  <2>6. told.state = "complete" =>
           told.run # None /\ told.run = EvidenceOf(records[runId[c]])
    BY <2>3, <2>4, NoneIsNothing DEF Trial
  <2> HIDE DEF told
  <2> QED
    BY <2>2, <2>5, <2>6
<1>6. /\ trials[s] \in Seq(Trial) /\ trials'[s] \in Seq(Trial)
      /\ DOMAIN trials'[s] = DOMAIN trials[s]
      /\ trials'[s][n] = told
      /\ \A m \in DOMAIN trials[s] : m # n => trials'[s][m] = trials[s][m]
      /\ \A r \in Studies : r # s => trials'[r] = trials[r]
  <2>1. /\ trials[s] \in Seq(Trial) /\ trials'[s] = [trials[s] EXCEPT ![n] = told]
        /\ \A r \in Studies : r # s => trials'[r] = trials[r]
    BY <1>1, <1>3, <1>5 DEF TypeOK
  <2>2. trials'[s] \in Seq(Trial)
    BY <1>5, <2>1, ExceptSeq
  <2> QED
    BY <2>1, <2>2
<1>7. /\ phase' = [phase EXCEPT ![c] = phase'[c]] /\ phase'[c] \in {"optimize", "aborted"}
      /\ phase'[c] = "optimize" => place[c] # "untracked"
      /\ study' = [study EXCEPT ![c] = study'[c]] /\ study'[c] \in {None, study[c]}
      /\ own' = [own EXCEPT ![c] = own'[c]] /\ own'[c] \in {None, own[c]}
      /\ phase'[c] = "optimize" => study'[c] = study[c] /\ own'[c] = own[c]
      /\ left' = [left EXCEPT ![c] = left'[c]] /\ left'[c] \in {0, left[c] - 1}
      /\ runId' = [runId EXCEPT ![c] = None]
      /\ tracks' = [tracks EXCEPT ![c] = tracks'[c]]
      /\ tracks'[c] \in {FALSE, tracks[c]} /\ (phase'[c] = "aborted" => ~tracks'[c])
  <2>1. CASE place[c] \in {"untracked", "raised"}
    <3>1. /\ phase' = [phase EXCEPT ![c] = "aborted"] /\ study' = [study EXCEPT ![c] = None]
          /\ own' = [own EXCEPT ![c] = None] /\ left' = [left EXCEPT ![c] = 0]
          /\ runId' = [runId EXCEPT ![c] = None] /\ tracks' = [tracks EXCEPT ![c] = FALSE]
      BY <2>1 DEF Tell, Exit, MoveTo
    <3>2. /\ phase'[c] = "aborted" /\ study'[c] = None /\ own'[c] = None
          /\ left'[c] = 0 /\ tracks'[c] = FALSE
      BY <1>1, <3>1 DEF TypeOK, RunsTypeOK, Tuners
    <3> QED
      BY <3>1, <3>2
  <2>2. CASE place[c] \notin {"untracked", "raised"}
    BY <1>1, <2>2 DEF Tell, MoveTo, TypeOK, RunsTypeOK, Tuners
  <2> QED
    BY <2>1, <2>2
<1>8. TypeOK'
  <2>1. place' \in [Callers -> Place] /\ phase' \in [Tuners -> Phase]
    <3>1. place' \in [Callers -> Place]
      BY <1>1, <1>2 DEF TypeOK, RunsTypeOK, Place
    <3>2. phase'[c] \in Phase
      BY <1>7 DEF Phase
    <3> QED
      BY <1>1, <1>7, <3>1, <3>2 DEF TypeOK
  <2>2. /\ study' \in [Tuners -> Studies \cup {None}]
        /\ own' \in [Tuners -> Contexts \cup {None}]
        /\ runId' \in [Callers -> RunIds \cup {None}] /\ tracks' \in [Callers -> BOOLEAN]
    <3>1. /\ study'[c] \in Studies \cup {None} /\ own'[c] \in Contexts \cup {None}
          /\ tracks'[c] \in BOOLEAN
      BY <1>1, <1>7 DEF TypeOK, RunsTypeOK, Tuners
    <3> QED
      BY <1>1, <1>7, <3>1 DEF TypeOK, RunsTypeOK
  <2>3. left' \in [Tuners -> 0 .. NumTrials]
    <3>1. left[c] - 1 \in 0 .. NumTrials /\ 0 \in 0 .. NumTrials
      BY <1>1, <1>3, StudyAssumption DEF TypeOK, Tuners
    <3>2. left'[c] \in 0 .. NumTrials
      BY <1>7, <3>1
    <3> QED
      BY <1>1, <1>7, <3>2 DEF TypeOK
  <2>4. \A d \in Callers :
           /\ place'[d] \in Working => runId'[d] \in RunIds
           /\ place'[d] = "returned" => answer[d] # None
    BY <1>1, <1>2, <1>7 DEF TypeOK, RunsTypeOK, Working
  <2>5. trials' \in [Studies -> Seq(Trial)]
    BY <1>1, <1>3, <1>5, <1>6 DEF TypeOK
  <2> QED
    BY <1>1, <1>2, <2>1, <2>2, <2>3, <2>4, <2>5 DEF TypeOK, RunsTypeOK
<1>9. OthersAlone(c) /\ StoreAlone(c)
  BY <1>1, <1>2, <1>7 DEF OthersAlone, StoreAlone, TypeOK, RunsTypeOK, Tuners
<1>10. TrialsAlone
  BY <1>4, <1>5, <1>6 DEF TrialsAlone
<1>11. CallInv(c)'
  <2>1. place'[c] = "idle" /\ runId'[c] = None
    BY <1>1, <1>2, <1>7 DEF TypeOK, RunsTypeOK
  <2>2. PhaseInv(c)' /\ TrialInv(c)'
    BY <1>1, <1>2, <1>3, <1>7, <2>1 DEF PhaseInv, TrialInv, Working, Ended
  <2>3. MakerInv(c)'
    BY <2>1 DEF MakerInv, Making
  <2>4. TrackInv(c)'
    BY <1>1, <1>2, <1>7, <2>1 DEF CallInv, TrackInv, Making, Ended
  <2> QED
    BY <2>2, <2>3, <2>4 DEF CallInv
<1>12. \A d \in Callers : CallInv(d)'
  BY <1>9, <1>10, <1>11, OthersKept
<1>13. TrialsInv'
  <2>1. \A r \in Studies : \A m \in DOMAIN trials'[r] :
           <<trials'[r][m].context, m>> \in RunIds
    BY <1>3, <1>4, <1>5, <1>6 DEF IndInv, TrialsInv
  <2>2. TrialsAreBacked'
    <3>1. TrialsAreBacked /\ records' = records
      BY <1>2 DEF IndInv, TrialsInv
    <3> SUFFICES ASSUME NEW r \in Studies, NEW m \in DOMAIN trials'[r],
                        trials'[r][m].state = "complete"
                 PROVE  /\ trials'[r][m].run # None
                        /\ trials'[r][m].run = EvidenceOf(records[<<trials'[r][m].context, m>>])
      BY <3>1 DEF TrialsAreBacked, EvidenceOf
    <3>2. CASE r = s /\ m = n
      <4>1. trials'[r][m] = told
        BY <1>6, <3>2
      <4>2. <<told.context, m>> = runId[c]
        BY <1>4, <1>5, <3>2
      <4> QED
        BY <1>5, <4>1, <4>2
    <3>3. CASE ~(r = s /\ m = n)
      BY <1>3, <1>6, <3>1, <3>3 DEF TrialsAreBacked
    <3> QED
      BY <3>2, <3>3
  <2> QED
    BY <2>1, <2>2 DEF TrialsInv
<1>14. NoLitter'
  BY <1>1, <1>2 DEF NoLitter, Ended
<1>15. \A i \in RunIds : MirrorInv(i)'
  BY <1>2 DEF IndInv, MirrorInv
<1>16. AddsOwn(c)
  <2>1. ASSUME NEW r \in Studies, NEW m \in DOMAIN trials'[r]
        PROVE  m \in DOMAIN trials[r] /\ trials'[r][m].context = trials[r][m].context
    BY <1>4, <1>5, <1>6, <2>1
  <2> QED
    BY <2>1 DEF AddsOwn
<1> QED
  BY <1>8, <1>12, <1>13, <1>14, <1>15, <1>16 DEF IndInv
-----------------------------------------------------------------------------
LEMMA Initially == Init => IndInv
<1> SUFFICES ASSUME Init PROVE IndInv
  OBVIOUS
<1>1. TypeOK
  <2>1. \A s \in Studies : trials[s] \in Seq(Trial)
    BY DEF Init
  <2> QED
    BY <2>1, StudyAssumption DEF Init, RunsInit, TypeOK, RunsTypeOK, Place,
       Phase, Working
<1>2. \A c \in Callers : CallInv(c)
  BY DEF Init, RunsInit, CallInv, PhaseInv, TrialInv, MakerInv, TrackInv, Working,
     Ended, Making, Tuners
<1>3. (\A i \in RunIds : MirrorInv(i)) /\ NoLitter
  BY DEF Init, RunsInit, MirrorInv, NoLitter
<1>4. TrialsInv
  BY DEF Init, TrialsInv, TrialsAreBacked
<1> QED
  BY <1>1, <1>2, <1>3, <1>4 DEF IndInv

LEMMA Inductive == IndInv /\ [Next]_vars => IndInv'
<1> SUFFICES ASSUME IndInv, [Next]_vars PROVE IndInv'
  OBVIOUS
<1>1. TypeOK
  BY DEF IndInv
<1>2. ASSUME NEW c \in Callers, NEW s \in Studies, NEW x \in Contexts,
             NEW track \in BOOLEAN, Tune(c, s, x, track)
      PROVE  IndInv'
  BY <1>2, TuneKeeps
<1>3. ASSUME NEW c \in Callers, CheckContext(c) PROVE IndInv'
  <2>1. CASE context[study[c]] \in {None, own[c]}
    <3> DEFINE p == IF context[study[c]] = None THEN "claim" ELSE "optimize"
    <3>1. /\ phase[c] = "check" /\ MoveTo(c, p) /\ p \in {"claim", "optimize"}
          /\ UNCHANGED <<runVars, study, own, left, trials>>
          /\ context' \in [Studies -> Contexts \cup {None}]
      BY <1>1, <1>3, <2>1 DEF CheckContext, TypeOK
    <3> HIDE DEF p
    <3> QED
      BY <3>1, MoveKeeps
  <2>2. CASE context[study[c]] \notin {None, own[c]}
    BY <1>3, <2>2, ExitKeeps DEF CheckContext
  <2> QED
    BY <2>1, <2>2
<1>4. ASSUME NEW c \in Callers, Claim(c) PROVE IndInv'
  <2>1. own[c] \in Contexts
    BY <1>4 DEF IndInv, CallInv, PhaseInv, Claim
  <2>2. context' \in [Studies -> Contexts \cup {None}]
    BY <1>1, <1>4, <2>1 DEF Claim, TypeOK
  <2> QED
    BY <1>4, <2>2, MoveKeeps DEF Claim
<1>5. ASSUME NEW c \in Callers, Ask(c) PROVE IndInv'
  BY <1>5, AskKeeps
<1>6. ASSUME NEW c \in Callers, Tell(c) PROVE IndInv'
  BY <1>6, TellKeeps
<1>7. ASSUME NEW c \in Callers, Finish(c) PROVE IndInv'
  BY <1>7, ExitKeeps DEF Finish
<1>8. ASSUME NEW c \in Callers, Crash(c) PROVE IndInv'
  BY <1>8, ExitKeeps DEF Crash
<1>9. ASSUME NEW c \in Callers, RunStep(c), Frame PROVE IndInv'
  BY <1>9, RunStepKeeps
<1>10. CASE UNCHANGED vars
  BY <1>10 DEF IndInv, TypeOK, RunsTypeOK, CallInv, PhaseInv, TrialInv,
     MakerInv, TrackInv, MirrorInv, NoLitter, TrialsInv, TrialsAreBacked, Own,
     Stored, vars, runVars
<1> QED
  BY <1>2, <1>3, <1>4, <1>5, <1>6, <1>7, <1>8, <1>9, <1>10 DEF Next, Advance,
     Frame, Tuners

\* The invariant that everything below follows from.
THEOREM Invariance == Spec => []IndInv
<1> QED
  BY Initially, Inductive, PTL DEF Spec

\* The variables keep their types: a call under way has a run, one that has
\* returned has a record (ExperimentRunner.run, OptunaTuner.tune).
THEOREM TypeCorrect == Spec => []TypeOK
<1>1. IndInv => TypeOK
  BY DEF IndInv
<1> QED
  BY <1>1, Invariance, PTL

\* However many calls compute one run, and whenever they are killed, MLflow
\* gets one run of it at most: only a record's maker has logged it, and a
\* record has one maker for ever (runner.py:219-228).
THEOREM LoggedAtMostOnce == Spec => []LoggedOnce
<1>1. IndInv => LoggedOnce
  BY DEF IndInv, MirrorInv, LoggedOnce
<1> QED
  BY <1>1, Invariance, PTL

\* What a record says of its tracking is so, and a call that tracks and gets
\* its own record back has had it logged (runner.py:329-345).
THEOREM TrackingTold == Spec => []TrackingIsTrue
<1>1. IndInv => TrackingIsTrue
  BY DEF IndInv, MirrorInv, CallInv, TrackInv, TrackingIsTrue
<1> QED
  BY <1>1, Invariance, PTL

\* A call that ends, however it does, leaves no temporary directory
\* (storage.py:91-93).
THEOREM LittersOnlyWhenKilled == Spec => []NoLitter
<1>1. IndInv => NoLitter
  BY DEF IndInv
<1> QED
  BY <1>1, Invariance, PTL

\* A trial that counts has its record, and is scored by it, whoever made that
\* record and whoever is killed when (tuning.py:118-124).
THEOREM TrialsBacked == Spec => []TrialsAreBacked
<1>1. IndInv => TrialsAreBacked
  BY DEF IndInv, TrialsInv
<1> QED
  BY <1>1, Invariance, PTL
-----------------------------------------------------------------------------
\* The run ledger as the store refines it.
Recorded == [i \in RunIds |-> EvidenceOf(records[i])]
Given == [c \in Callers |-> EvidenceOf(answer[c])]

\* Evidence is recorded by the rename that makes a record, given by the load
\* that ends a call, and every other step leaves both alone.
LEMMA StepRefines ==
    IndInv /\ [Next]_vars => [Ledger!Next]_<<Recorded, Given>>
<1> SUFFICES ASSUME IndInv, [Next]_vars PROVE [Ledger!Next]_<<Recorded, Given>>
  OBVIOUS
<1>1. TypeOK /\ \A c \in Callers : CallInv(c)
  BY DEF IndInv
<1>2. CASE UNCHANGED <<records, answer>>
  BY <1>2 DEF Recorded, Given
<1>3. ASSUME NEW c \in Callers, Rename(c), Frame
      PROVE  [Ledger!Next]_<<Recorded, Given>>
  <2> DEFINE id == runId[c]
  <2>1. CASE Stored(c)
    BY <1>2, <1>3, <2>1 DEF Rename
  <2>2. CASE ~Stored(c)
    <3>1. id \in RunIds
      BY <1>1, <1>3, Busy DEF Rename, CallInv, PhaseInv, Working
    <3>2. records[id] = None /\ records' = [records EXCEPT ![id] = Own(c)] /\ answer' = answer
      BY <1>3, <2>2 DEF Rename, Stored
    <3>3. Own(c) \in Record /\ Own(c) # None
      BY OwnRecord
    <3> DEFINE e == EvidenceOf(Own(c))
    <3>4. e \in Evidence
      BY <3>3, EvidenceType
    <3>5. Recorded[id] = None /\ Recorded' = [Recorded EXCEPT ![id] = e] /\ Recorded'[id] = e
      BY <1>1, <3>1, <3>2 DEF Recorded, EvidenceOf, TypeOK, RunsTypeOK
    <3>6. Given' = Given
      BY <3>2 DEF Given, EvidenceOf
    <3> HIDE DEF e
    <3>7. Ledger!Record(id)
      BY <3>4, <3>5, <3>6 DEF Ledger!Record, Recorded, Given
    <3> QED
      BY <3>1, <3>7 DEF Ledger!Next
  <2> QED
    BY <2>1, <2>2
<1>4. ASSUME NEW c \in Callers, Mark(c) \/ Degrade(c), Frame
      PROVE  [Ledger!Next]_<<Recorded, Given>>
  <2>1. StoreAlone(c) /\ place[c] \in Making /\ answer' = answer
    BY <1>4, MarkKeeps DEF Mark, Degrade, Making
  <2>2. records[runId[c]] # None /\ \A i \in RunIds : i # runId[c] => records'[i] = records[i]
    BY <1>1, <1>4, <2>1, OwnRecord DEF CallInv, MakerInv, Mark, Degrade, TypeOK,
       RunsTypeOK
  <2>3. \A i \in RunIds : EvidenceOf(records'[i]) = EvidenceOf(records[i])
    BY <2>1, <2>2 DEF StoreAlone
  <2>4. Recorded' = Recorded
    BY <2>3 DEF Recorded, EvidenceOf
  <2> QED
    BY <2>1, <2>4 DEF Given, EvidenceOf
<1>5. ASSUME NEW c \in Callers, Load(c), Frame
      PROVE  [Ledger!Next]_<<Recorded, Given>>
  <2> DEFINE id == runId[c]
  <2>1. id \in RunIds
    BY <1>1, <1>5, Busy DEF Load, CallInv, PhaseInv, Working
  <2>2. Stored(c) /\ records' = records /\ answer' = [answer EXCEPT ![c] = records[id]]
    BY <1>1, <1>5 DEF Load, CallInv, MakerInv
  <2>3. Recorded' = Recorded
    BY <2>2 DEF Recorded, EvidenceOf
  <2>4. Recorded[id] = EvidenceOf(records[id]) /\ Recorded[id] # None
    BY <1>1, <2>1, <2>2, EvidenceType DEF Recorded, Stored, TypeOK, RunsTypeOK
  <2>5. Given' = [Given EXCEPT ![c] = Recorded[id]]
    BY <1>1, <2>2, <2>4 DEF Given, TypeOK, RunsTypeOK
  <2>6. Ledger!Give(c, id)
    BY <2>3, <2>4, <2>5 DEF Ledger!Give, Recorded, Given
  <2> QED
    BY <2>1, <2>6 DEF Ledger!Next
<1>6. ASSUME NEW c \in Callers, RunStep(c), Frame
      PROVE  [Ledger!Next]_<<Recorded, Given>>
  <2>1. CASE Lookup(c) \/ Research(c) \/ Save(c) \/ Cleanup(c) \/ Log(c) \/ Logging(c)
    BY <1>2, <2>1 DEF Lookup, Research, Save, Cleanup, Log, Logging
  <2> QED
    BY <1>3, <1>4, <1>5, <1>6, <2>1 DEF RunStep
<1>7. ASSUME NEW c \in Callers, NEW s \in Studies, NEW x \in Contexts,
             NEW track \in BOOLEAN, Tune(c, s, x, track)
      PROVE  UNCHANGED <<records, answer>>
  BY <1>7 DEF Tune
<1>8. ASSUME NEW c \in Callers,
             CheckContext(c) \/ Claim(c) \/ Ask(c) \/ Tell(c) \/ Finish(c) \/ Crash(c)
      PROVE  UNCHANGED <<records, answer>>
  BY <1>8 DEF CheckContext, Claim, Ask, Begin, Tell, Finish, Crash, runVars
<1>9. CASE UNCHANGED vars
  BY <1>2, <1>9 DEF vars, runVars
<1> QED
  BY <1>2, <1>6, <1>7, <1>8, <1>9 DEF Next, Advance, Frame, Tuners

\* The evidence of a run is what was recorded first, and every call that
\* returns is given it, whichever call or tuner recorded it (storage.py:58-66,
\* runner.py:137-143 and 223-228).
THEOREM ImplementsRunLedger == Spec => KeepsRunLedger
<1>1. Init => Ledger!Init
  BY DEF Init, RunsInit, EvidenceOf, Ledger!Init
<1>2. IndInv /\ [Next]_vars => [Ledger!Next]_<<Recorded, Given>>
  BY StepRefines
<1> QED
  BY <1>1, <1>2, Invariance, PTL DEF Spec, KeepsRunLedger, Ledger!Spec,
     Recorded, Given
-----------------------------------------------------------------------------
\* A step by which a study's context stays, and the one tuner that moves is of
\* that context where it works on the study past the check.
LEMMA SettledKept ==
    ASSUME IndInv, NEW c \in Tuners, NEW s \in Studies, Settled(s), AddsOwn(c),
           context'[s] = context[s],
           \A d \in Tuners \ {c} :
               phase'[d] = phase[d] /\ study'[d] = study[d] /\ own'[d] = own[d],
           study'[c] = s /\ phase'[c] \in {"claim", "optimize", "trial"} =>
               own'[c] = context[s]
    PROVE  /\ Settled(s)'
           /\ \A n \in DOMAIN trials'[s] :
                 trials'[s][n].context =
                     IF n \in DOMAIN trials[s] THEN trials[s][n].context ELSE context[s]
<1>1. Settled(s)'
  BY DEF Settled
<1>2. \A n \in DOMAIN trials'[s] : n \notin DOMAIN trials[s] =>
         trials'[s][n].context = context[s]
  BY DEF Settled, AddsOwn
<1> QED
  BY <1>1, <1>2 DEF AddsOwn

\* Whatever tuners start, race, resume or die, a settled study stays settled and
\* gains trials of its own context only (tuning.py:103-111).
THEOREM SettledStudiesStay == Spec => StudiesStaySettled
<1> DEFINE Stays(s) ==
        /\ Settled(s)'
        /\ context'[s] = context[s]
        /\ \A n \in DOMAIN trials'[s] :
              trials'[s][n].context =
                  IF n \in DOMAIN trials[s] THEN trials[s][n].context ELSE context[s]
<1>1. ASSUME IndInv, [Next]_vars, NEW s \in Studies, Settled(s)
      PROVE  Stays(s)
  <2>1. TypeOK /\ \A c \in Callers : CallInv(c)
    BY <1>1 DEF IndInv
  <2>2. ASSUME NEW c \in Tuners, NEW r \in Studies, NEW x \in Contexts,
               NEW track \in BOOLEAN, Tune(c, r, x, track)
        PROVE  Stays(s)
    <3>1. /\ phase'[c] = "check" /\ UNCHANGED <<context, trials>>
          /\ \A d \in Tuners \ {c} :
                phase'[d] = phase[d] /\ study'[d] = study[d] /\ own'[d] = own[d]
      BY <2>1, <2>2 DEF Tune, MoveTo, TypeOK
    <3> QED
      BY <1>1, <3>1 DEF Settled
  <2>3. ASSUME NEW c \in Tuners,
               CheckContext(c) \/ Claim(c) \/ Ask(c) \/ Tell(c) \/ Finish(c) \/ Crash(c)
        PROVE  Stays(s)
    <3>1. AddsOwn(c)
      <4>1. CASE trials' = trials
        BY <4>1 DEF AddsOwn
      <4> QED
        BY <1>1, <2>3, <4>1, AskKeeps, TellKeeps
           DEF CheckContext, Claim, Finish, Crash, Tuners
    <3>2. /\ \A d \in Tuners \ {c} :
                phase'[d] = phase[d] /\ study'[d] = study[d] /\ own'[d] = own[d]
          /\ context'[s] = context[s]
          /\ study'[c] = s /\ phase'[c] \in {"claim", "optimize", "trial"} =>
                own'[c] = context[s]
      <4>1. CASE CheckContext(c)
        BY <1>1, <2>1, <4>1 DEF CheckContext, Exit, MoveTo, TypeOK, Settled
      <4>2. CASE Claim(c)
        BY <1>1, <2>1, <4>2 DEF Claim, MoveTo, TypeOK, Settled
      <4>3. CASE Ask(c)
        BY <1>1, <2>1, <4>3 DEF Ask, MoveTo, TypeOK, Settled
      <4>4. CASE Tell(c)
        BY <1>1, <2>1, <4>4 DEF Tell, Exit, MoveTo, TypeOK, Settled
      <4>5. CASE Finish(c) \/ Crash(c)
        BY <1>1, <2>1, <4>5 DEF Finish, Crash, Exit, MoveTo, TypeOK, Settled
      <4> QED
        BY <2>3, <4>1, <4>2, <4>3, <4>4, <4>5
    <3> QED
      BY <1>1, <3>1, <3>2, SettledKept
  <2>4. CASE UNCHANGED <<phase, study, own, context, trials>>
    BY <1>1, <2>4 DEF Settled
  <2> QED
    BY <1>1, <2>2, <2>3, <2>4 DEF Next, Advance, vars
<1>2. IndInv /\ [Next]_vars =>
         [\A s \in Studies : Settled(s) => Stays(s)]_vars
  BY <1>1
<1> QED
  BY <1>2, Invariance, PTL DEF Spec, StudiesStaySettled
=============================================================================
