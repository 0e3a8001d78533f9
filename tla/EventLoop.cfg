CONSTANTS
    Owners = {o1, o2}
    Plain = {p}
    Asyncs = {a}
    Weakened = {p, a}
    Wanted = Wanted
    Other = Other
    QueueSize = 1
    MaxPosts = 2
    None = None
SPECIFICATION FairSpec
INVARIANTS
    TypeOK
    ClosureAlive
    RecvIsSound
PROPERTIES
    CallsReturn
    EventArrives
CHECK_DEADLOCK FALSE
