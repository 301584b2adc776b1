SPECIFICATION FairSpec
CONSTANTS
    s1 = s1
    s2 = s2
    h1 = h1
    h2 = h2
    Slots <- MCSlots
    Hashes <- MCHashes
    Worlds <- MCWorlds
    Tree <- MCTree
    Names <- MCNames
    Target <- MCTarget
    Visited <- MCVisited
    Impassable <- MCImpassable
    Directories <- MCDirectories
    Roots <- MCRoots
    DefaultDeny <- MCDefaultDeny
    DirCap = 2
    ScanCap = 5
INVARIANTS
    StaysInsideTheRoots
    AnswersAreTrue
    GuardsHold
PROPERTIES
    EveryRequestIsAnswered
CHECK_DEADLOCK FALSE
