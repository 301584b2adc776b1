SPECIFICATION FairPanelSpec
CONSTANTS
    h1 = h1
    h2 = h2
    NoHash = NoHash
    Hashes <- MCHashes
    Tabs <- MCTabs
    Slots <- MCSlots
    MaxVersion = 1
    MaxActs = 3
PROPERTIES
    RefreshesKeepTheirPlace
    PanelCatchesUp
CHECK_DEADLOCK FALSE
