SPECIFICATION Spec
CONSTANTS
    h1 = h1
    Global = Global
    Hashes <- OneTorrent
    Refresh = 2
    Grace = 2
    Start = 2
    MaxClock = 5
    MaxCount = 1
    MaxStepsBack = 1
    MaxRemovals = 1
    Faults = TRUE
INVARIANTS
    MemoryMirrorsStore
PROPERTIES
    RefreshedHistoryKept
