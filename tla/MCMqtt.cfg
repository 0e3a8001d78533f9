CONSTANTS
    Task = task
    Owner = owner
    None = None
    MaxCalls = 3
    MaxEvents = 4
SPECIFICATION Spec
INVARIANTS
    TypeOK
    WorkItemIsShared
    BorrowedEventIsAlive
PROPERTIES
    OwnResult
    EachEventOnce
    CallsReturn
CHECK_DEADLOCK FALSE
