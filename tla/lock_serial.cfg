CONSTANTS
    Proc = {p1, p2, p3, p4}
    None = None
    Serial = TRUE
    MaxFaults = 2
SPECIFICATION FairSpec
CHECK_DEADLOCK FALSE
INVARIANTS OneDaemon RunningIsLocked
PROPERTIES StaleLockIsTakenOver
