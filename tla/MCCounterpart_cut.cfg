CONSTANTS
    Servers = {a, b}
    Nowhere = Nowhere
    MaxMoves = 2
    MaxFaults = 1
SPECIFICATION Spec
INVARIANTS
    NoForeignAnchor
