\* An order to sign out during a renewal.
SPECIFICATION Spec
CONSTANTS
    Workers = {w1, w2}
    User = User
    Channel = Channel
    NoOne = NoOne
    MaxTokens = 3
    MaxFaults = 0
    MaxOrders = 1
    MaxRestarts = 0
INVARIANT OrderedOutStaysOut
