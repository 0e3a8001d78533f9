CONSTANTS
    Wakers = {w1, w2}
    Wrap = 10
    Day = 3
    MaxClock = 6
    Never = Never
    MaxArmings = 4
    Owners = {o1, o2}
    Stack = {s1, s2}
    MaxClosures = 2
    Plain = {p}
    WithCallback = {c, d}
    Failing = {p}
    MaxCount = 3
    Threads = {t}
    Kinds = {recv, send}
    MaxTakes = 3
    Tods = {a}
    Oversized = {}
    None = None
SPECIFICATION Spec
PROPERTIES
    NoOverflow
CHECK_DEADLOCK FALSE
