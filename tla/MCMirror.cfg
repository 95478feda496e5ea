\* An adopter, the delivery channel and the opening folder, a refusal, a restart.
SPECIFICATION MCSpec
CONSTANTS
    Docs = {d1, d2}
    Versions = {1, 2}
    Absent = Absent
    Nothing = Nothing
    Adopters = {a}
    Delivery = Delivery
    OpenedBefore = FALSE
    AsksAgain = TRUE
    MaxChanges = 3
    MaxRefusals = 1
    MaxRestarts = 1
SYMMETRY Symmetry
INVARIANTS
    MirrorInv
    MirrorTrue
    LoadedIsCurrent
CHECK_DEADLOCK FALSE
