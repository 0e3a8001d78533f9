CONSTANTS
    Servers = {"main"}
    Addresses = {1, 2}
    Fds = {1, 2}
    MaxHandlers = 2
    Threads = {"a", "b"}
    MaxSessions = 3
    MaxHeaders = 2
    MaxCalls = 2
    Policies = {"FollowNone", "FollowGetHead"}
    Posters = {"task", "sender"}
    MaxEvents = 4
    Malformed = {2}
    NullEvents = {4}
    MaxData = 2
    MaxFlights = 1
    Protocols = {h2, long}
    LongNames = {long}
    None = None
SPECIFICATION Spec
INVARIANTS
    TypeOK
    HandlersAreTold
    FramesReachTheirSession
    ExchangeIsComplete
    EachOnceInOrder
PROPERTIES
    CallsReturn
CHECK_DEADLOCK FALSE
