CONSTANTS
    MaxQueue = 1
    EthQueue = 1
    Outcomes = {"StaWpsFailed", "StaWpsPin"}
    Timed = FALSE
    Duration = 1
    Closures = {c1, c2}
    Netifs = {n1, n2}
    Profiles = {"gap"}
    None = None
SPECIFICATION Spec
INVARIANTS
    ReevaluatedOnEvent
CHECK_DEADLOCK FALSE
