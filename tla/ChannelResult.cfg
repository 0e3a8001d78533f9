CONSTANTS
    Producers = {p1}
    Guards = {p1}
    Receiver = r
    None = None
SPECIFICATION Spec
PROPERTIES
    TrueMeansProcessed
CHECK_DEADLOCK FALSE
