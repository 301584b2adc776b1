SPECIFICATION FairSpec
CONSTANTS
    StaleLag = 1
    FirstMsgAge = 2
    BackoffMin = 1
    BackoffMax = 3
    MaxCached = 1
    InboxCap = 2
    MaxFails = 2
INVARIANTS
    TimersMatchState
    NobodyIsForgotten
    HealthIsOfThisStream
    BackoffMatchesFailures
    BacklogIsBounded
PROPERTIES
    VisibleReconnects
    HiddenLetsGo
