\* Two first anchors and a third one, two evidence keys, two publications after the first.
SPECIFICATION KeySetSpec
CONSTANTS
    Anchors = {a, b, c}
    First = {a, b}
    Keys = {k, l}
    FirstKey = k
    Nobody = Nobody
    Life = 2
    MaxVersion = 3
    MaxFaults = 1
INVARIANTS
    KeySetInv
PROPERTIES
    NeverBack
    CatchesUp
