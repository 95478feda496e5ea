\* An opened folder, a restart, then an erasure.
SPECIFICATION MCSpec
CONSTANTS
    Docs = {d}
    Versions = {1, 2}
    Absent = Absent
    Nothing = Nothing
    Adopters = {a}
    Delivery = Delivery
    OpenedBefore = TRUE
    AsksAgain = TRUE
    MaxChanges = 0
    MaxRefusals = 0
    MaxRestarts = 1
INVARIANT ErasedIsGone
CHECK_DEADLOCK FALSE
