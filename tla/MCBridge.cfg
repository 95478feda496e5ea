\* Two requests, one place, one chunk, two runs of the app.
SPECIFICATION BridgeSpec
CONSTANTS
    Requests = {r, s}
    Loads = {r}
    WakeUp = WakeUp
    Places = 1
    Chunks = 1
    MaxRuns = 2
    Deaf = {1}
INVARIANTS
    BridgeInv
PROPERTIES
    EveryRequestAnswered
    StopEnds
CHECK_DEADLOCK FALSE
