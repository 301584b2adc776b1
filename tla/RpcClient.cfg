SPECIFICATION FairSpec
CONSTANTS
    c1 = c1
    c2 = c2
    Calls <- TwoCalls
    Deadlines <- SomeDeadlines
    MaxInflight = 1
    ConnectBudget = 3
    ReadTimeout = 2
    FirstBackoff = 1
    BackoffCap = 2
    Never = 9
    BodyLength = 1
    Names <- ThreeNames
    TorrentLists <- MCTorrentLists
INVARIANTS
    SlotsAccounted
    ReasonIsHonest
    CutRepliesRefused
    PollAllOrNothing
    ListsAddressTheirItems
PROPERTIES
    CancelFreesSlot
    EveryCallEnds
