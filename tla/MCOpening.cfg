\* A document and a folder on two threads, in two versions of different sizes.
SPECIFICATION Spec
CONSTANTS
    Threads = {t1, t2}
    Contents = {c1}
    Lists = {l1}
    Size <- TwoVersions
    Chunk = 2
    Permits = 1
    MaxRefused = 1
INVARIANTS
    OpeningInv
    DeliveredIsListed
    CancelStops
PROPERTIES
    EveryJobEnds
    DisconnectEnds
