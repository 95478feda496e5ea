\* A server that leaves out what lies at or below the cursor.
SPECIFICATION FairSpec
CONSTANTS
    N = 2
    Class <- ClassOrders
    PageSize = 2
    CursorSkips = TRUE
    MaxDisturbances = 2
PROPERTY
    EverySettled
