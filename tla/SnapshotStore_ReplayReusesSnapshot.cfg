SPECIFICATION Spec
CONSTANTS
    good = good
    other = other
    bad = bad
    None = None
    Runs = {r1, r2}
    Bars = {good, other, bad}
    Blocked = {bad}
    MaxOutages = 0
PROPERTIES
    ReplayReusesSnapshot
CHECK_DEADLOCK FALSE
