\* Two tasks that need a token, a user and an order to sign out, one fault, one restart.
SPECIFICATION FairSpec
CONSTANTS
    Workers = {w1, w2}
    User = User
    Channel = Channel
    NoOne = NoOne
    MaxTokens = 3
    MaxFaults = 1
    MaxOrders = 1
    MaxRestarts = 1
INVARIANTS
    NoReuse
    RotationBeforeUse
    ValidIsKept
    SignedOutStaysOut
PROPERTY WaitersAreAnswered
