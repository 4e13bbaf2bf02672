CONSTANTS
    s1 = s1
    s2 = s2
    Capture = {1, 2, 3, 4}
    Session = {s1, s2}
    SessionOf <- MCSessions
    Engines = {"plugin", "legacy"}
    Threshold = 2
    ChunkSize = 1
    MaxSessions = 2
    MaxChunks = 2
    MaxFaults = 1
SPECIFICATION FairSpec
CHECK_DEADLOCK FALSE
PROPERTIES InboxDrains
INVARIANTS NoFactLost LegacyMarksSeen PluginMarksSeen PhaseFollowsMark CallsWithinBudget
