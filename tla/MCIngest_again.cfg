\* One file and one stop of the process between the completion and the move.
SPECIFICATION MCSpec
CONSTANTS
    Paths = {p1}
    MaxHandIns = 1
    Ingests = 1
    MaxFaults = 1
    MaxExpiries = 0
PROPERTIES
    NotSentAgain
