\* A file of the user's that a rename replaces.
SPECIFICATION MCSpec
CONSTANTS
    Siblings = {1, 2}
    HintFile = 0
    Titles <- MCTitles
    HintName <- MCHintName
    None = None
    TheUser = TheUser
    UserNames <- MCUserNames
    MaxListings = 3
    MaxOpen = 1
    MaxDropped = 1
    MaxEnds = 1
    Limit = 2
    Window = 2
    MaxElapsed = 4
    MaxSet = 2
PROPERTY EveryUserFileStays
CHECK_DEADLOCK FALSE
