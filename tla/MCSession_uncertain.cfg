\* A renewal whose answer is lost.
SPECIFICATION Spec
CONSTANTS
    Workers = {w1, w2}
    User = User
    Channel = Channel
    NoOne = NoOne
    MaxTokens = 3
    MaxFaults = 1
    MaxOrders = 0
    MaxRestarts = 0
INVARIANT UncertainIsNotRepeated
