CONSTANTS
    Servers = {a, b}
    Nowhere = Nowhere
    MaxMoves = 2
    MaxFaults = 2
SPECIFICATION Spec
INVARIANTS
    MoveInv
    TokensStayHome
    KeepsToItsOwn
PROPERTIES
    LeavesAtLast
