CONSTANTS
    Proc = {p1, p2, p3}
    None = None
    Serial = FALSE
    MaxFaults = 0
SPECIFICATION Spec
CHECK_DEADLOCK FALSE
INVARIANTS OneDaemon
