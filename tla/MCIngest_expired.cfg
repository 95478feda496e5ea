\* One file whose grant expires before its upload went through.
SPECIFICATION MCSpec
CONSTANTS
    Paths = {p1}
    MaxHandIns = 1
    Ingests = 1
    MaxFaults = 1
    MaxExpiries = 1
PROPERTIES
    IngestedWhatever
