SPECIFICATION FairCacheSpec
CONSTANTS
    t1 = t1
    hostA = hostA
    hostB = hostB
    f1 = f1
    f2 = f2
    x1 = x1
    x2 = x2
    NoHost = NoHost
    Absent = Absent
    NoHash = NoHash
    Hosts <- MCHosts
    Hashes <- OneTorrent
    Flights <- TwoFlights
    Toggles <- TwoToggles
INVARIANTS
    CacheFresh
    MarkersOwned
PROPERTIES
    EveryTorrentResolved
