\* A document in two places, a journal of three rows, pages of two.
SPECIFICATION FairSpec
CONSTANTS
    Size = 5
    Parent <- MCParent
    DocOf <- MCDocOf
    Documents = {"d"}
    NoDoc = "none"
    Looks <- MCLooks
    Absent = "absent"
    JournalMax = 3
    PageMax = 2
    MaxSequence = 5
INVARIANTS
    NamespaceInv
    AnsweredAnchorIsTrue
PROPERTY
    EventuallyShown
