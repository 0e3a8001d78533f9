CONSTANTS
    Producers = {p1, p2, p3}
    Guards = {p1}
    Receiver = r
    None = None
SPECIFICATION FairSpec
INVARIANTS
    TypeOK
    LentWhileUsed
    NoLostWakeup
PROPERTIES
    ImplementsLoan
    CallsReturn
CHECK_DEADLOCK FALSE
