-------------------------- MODULE MCExperimentStudy --------------------------
(* ExperimentStudy with values for TLC: a study has four trials at most,    *)
(* and between the runs of the two contexts every verdict occurs.           *)
EXTENDS ExperimentStudy

CONSTANTS x, y

MCRunIds == {x, y} \X (1 .. 4)
MCVerdict ==
    [i \in MCRunIds |->
        IF i[1] = x THEN <<"complete", "objective", "gate", "invalid">>[i[2]]
        ELSE <<"objective", "error", "complete", "gate">>[i[2]]]
=============================================================================
