\* One archive that disappears while the plan is asked for.
SPECIFICATION Spec
CONSTANTS
    Size = 5
    Parent <- MCParent
    DocOf <- MCDocOf
    Documents = {"d"}
    NoDoc = "none"
    Looks <- MCLooks
    Absent = "absent"
    JournalMax = 3
    PageMax = 2
    MaxSequence = 6
INVARIANT
    VanishedMeansAfresh
