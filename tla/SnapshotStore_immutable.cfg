SPECIFICATION Spec
CONSTANTS
    good = good
    other = other
    bad = bad
    None = None
    Runs = {r1, r2, r3}
    Bars = {good, other, bad}
    Blocked = {bad}
    MaxOutages = 1
SYMMETRY RunSymmetry
INVARIANTS
    TypeOK
    ManifestImpliesData
    VerifiedLoadsSucceed
    ReturnedIsWhole
PROPERTIES
    IsImmutable
CHECK_DEADLOCK FALSE
