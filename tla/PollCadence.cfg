SPECIFICATION FairSpec
CONSTANTS
    c1 = c1
    c2 = c2
    c3 = c3
    Clients <- MCClients
INVARIANTS
    CadenceMatchesDemand
    NoLostNudge
PROPERTIES
    FreshPollForEveryStream
    StopEndsLoop
