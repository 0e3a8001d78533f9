CONSTANTS
    Task = task
    Owner = owner
    None = None
    MaxCalls = 1
    MaxEvents = 1
SPECIFICATION Spec
INVARIANTS
    AtMostOnce
CHECK_DEADLOCK FALSE
