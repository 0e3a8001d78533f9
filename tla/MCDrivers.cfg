CONSTANTS
    MaxQueue = 3
    EthQueue = 2
    Outcomes = {"StaWpsFailed", "StaWpsPin"}
    Timed = TRUE
    Duration = 3
    Closures = {c1, c2}
    Netifs = {n1, n2}
    Profiles = {"gattc", "gatts", "gap", "blegap", "sink", "source", "duplex", "avrc", "hfp"}
    None = None
SPECIFICATION Spec
INVARIANTS
    TypeOK
    MirrorCatchesUp
    ReceiverIsAlive
    NoLostEvent
PROPERTIES
    AnswerIsHonest
    CallsReturn
CHECK_DEADLOCK FALSE
