\* The channel with one command of each class, in pages of two.
SPECIFICATION FairSpec
CONSTANTS
    N = 4
    Class <- ClassMixed
    PageSize = 2
    CursorSkips = FALSE
    MaxDisturbances = 3
INVARIANTS
    AcknowledgedIsKnown
    HonestVerdict
PROPERTIES
    EffectiveOnce
    KeepsContract
    EverySettled
