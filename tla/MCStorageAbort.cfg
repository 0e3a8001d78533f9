CONSTANTS
    Writers = {"a"}
    Tasks = {t1, t2}
    Names = {store}
    DefaultName = nvs
    Threads = {t1, t2}
    MaxUpdates = 2
    Interfaces = {i1, i2}
    Room = 2
    Slots = {0, 1, 2}
    Services = {s1, s2, s3}
    Hosts = {h1, h2}
    TooLong = {s3, h2}
    Iterators = {j1, j2}
    Size = 8
    ErasePage = 2
    Uuids = {"u1", "u2"}
    Rooms = {0, 1, 2, 12}
    Characteristics = {c1}
    Texts = {"x", "y"}
    Lengths = {0, 1, 3, 5}
    U16 = 4
    MaxResponse = 3
    MaxAttrLen = 2
    None = None
    Strings <- SomeStrings
    Confs <- SomeConfs
    Clients <- SomeClients
    Points <- SomePoints
    Sights <- SomeSights
    Table <- SomeTable
    Filters <- SomeFilters
    Contents <- SomeContents
SPECIFICATION Spec
INVARIANTS
    AbortedHandleIsValid
CHECK_DEADLOCK FALSE
