SPECIFICATION Spec
CONSTANTS
    x = x
    y = y
    None = None
    Callers = {t1, t2}
    Studies = {s1, s2}
    Contexts = {x, y}
    RunIds <- MCRunIds
    Verdict <- MCVerdict
    NumTrials = 2
INVARIANTS
    TypeOK
    LoggedOnce
    TrackingIsTrue
    TrialsAreBacked
PROPERTIES
    StudiesStaySettled
    KeepsRunLedger
    EveryTunerEnds
CHECK_DEADLOCK FALSE
