SPECIFICATION Spec
CONSTANTS
    a = a
    b = b
    k1 = k1
    k2 = k2
    Hashes <- MCHashes
    Fields <- MCFields
    Vals <- MCVals
    BlankRow <- MCBlankRow
    Conns <- OneConn
    NoConn = NoConn
    Polled <- MCPolled
    BufCap = 4
    WireCap = 1
    UnreachableAfter = 2
    MaxPolls = 3
INVARIANTS
    MirrorFaithful
    NothingMissing
    HealthKnown
PROPERTIES
    FeedIsMirror
