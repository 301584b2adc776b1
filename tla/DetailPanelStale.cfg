SPECIFICATION PanelSpec
CONSTANTS
    h1 = h1
    h2 = h2
    NoHash = NoHash
    Hashes <- MCHashes
    Tabs <- MCTabs
    Slots <- MCSlots
    MaxVersion = 1
    MaxActs = 3
INVARIANTS
    PiecesAreOfTheTorrent
CHECK_DEADLOCK FALSE
