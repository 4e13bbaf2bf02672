CONSTANTS
    s1 = s1
    s2 = s2
    Capture = {1, 2, 3, 4}
    Session = {s1, s2}
    SessionOf <- MCSessions
    Engines = {"plugin"}
    Threshold = 3
    ChunkSize = 1
    MaxSessions = 1
    MaxChunks = 2
    MaxFaults = 0
SPECIFICATION Spec
CHECK_DEADLOCK FALSE
INVARIANTS ConsumedWasProcessed
