CONSTANTS
    Wakers = {w1, w2}
    Wrap = 9
    Day = 2
    MaxClock = 4
    Never = Never
    MaxArmings = 4
    Owners = {o1, o2}
    Stack = {s1, s2}
    MaxClosures = 2
    Plain = {p}
    WithCallback = {c, d}
    Failing = {p}
    MaxCount = 3
    Threads = {t}
    Kinds = {recv, send}
    MaxTakes = 3
    Tods = {a, b}
    Oversized = {big}
    None = None
SPECIFICATION Spec
INVARIANTS
    TypeOK
    NoLostAlarm
    ClosureOfLiving
    OneInstance
PROPERTIES
    ArmedInTime
    OwnExpiry
    CallsReturn
CHECK_DEADLOCK FALSE
