SPECIFICATION TiersSpec
CONSTANTS
    t1 = t1
    t2 = t2
    Total = Total
    Torrents <- MCTorrents
    Tiers <- MCTiers
    Window <- MCWindow
    GaugeWindow <- MCGaugeWindow
    Ranges = {4, 6, 8}
    MostPerStep = 100
    Unit = 4
    PartDone = 8
    MaxClock = 7
    AtFirst <- FirstTorrent
    Movers <- FirstTorrent
    MaxMoved = 8
    JoinTimes = {3}
    StopTimes = {2, 4, 5}
    MaxSilence = 2
INVARIANTS
    UpgradeIsSafe
    TiersHoldLastValues
    GaugesAverageWholeBuckets
    NoPhantomTraffic
    RebuildIsTheSum
CHECK_DEADLOCK FALSE
