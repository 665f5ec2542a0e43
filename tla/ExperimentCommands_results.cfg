SPECIFICATION CommandsSpec
CONSTANTS
    x = x
    t1 = t1
    t2 = t2
    None = None
    Callers <- MCTuners
    Studies = {s1}
    Contexts = {x}
    RunIds <- MCRunIds
    Verdict <- MCVerdict
    NumTrials = 2
    Readers = {r1}
    Commands <- MCCommands
    Robust <- MCRobust
    Rest <- MCRest
    IdOrder <- MCIdOrder
    CompatibilityKey <- MCKeys
    Dirty <- MCDirty
SYMMETRY MCSymmetry
INVARIANTS
    ComparisonsStand
    ReportsLagAtMost
PROPERTIES
    WinnersOnlyImprove
CHECK_DEADLOCK FALSE
