\* Two documents and a hint; two commands in a window of two.
SPECIFICATION MCSpec
CONSTANTS
    Siblings = {1, 2}
    HintFile = 0
    Titles <- MCTitles
    HintName <- MCHintName
    None = None
    TheUser = TheUser
    UserNames <- MCUserNames
    MaxListings = 3
    MaxOpen = 1
    MaxDropped = 1
    MaxEnds = 1
    Limit = 2
    Window = 2
    MaxElapsed = 4
    MaxSet = 2
INVARIANTS
    NamesInv
    LimitHolds
PROPERTIES
    UserFileStays
    NamesStay
\* The listings are bounded.
CHECK_DEADLOCK FALSE
