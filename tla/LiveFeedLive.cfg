SPECIFICATION FairSpec
CONSTANTS
    a = a
    b = b
    k1 = k1
    k2 = k2
    Hashes <- MCHashes
    Fields <- MCFields
    Vals <- MCVals
    BlankRow <- MCBlankRow
    Conns <- MCConns
    NoConn = NoConn
    Polled <- TwoLists
    BufCap = 1
    WireCap = 1
    UnreachableAfter = 1
    MaxPolls = 2
PROPERTIES
    Converges
    NeverBackwards
