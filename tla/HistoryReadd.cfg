SPECIFICATION Spec
CONSTANTS
    h1 = h1
    Global = Global
    Hashes <- OneTorrent
    Refresh = 2
    Grace = 3
    Start = 2
    MaxClock = 8
    MaxCount = 1
    MaxStepsBack = 0
    MaxRemovals = 1
    Faults = FALSE
PROPERTIES
    LiveHistoryKept
