\* Two files in two places with one fault or expired grant, or in one place with three.
SPECIFICATION MCSpec
CONSTANTS
    Paths = {p1, p2}
    MaxHandIns = 2
    Ingests = 1
    MaxFaults = 3
    MaxExpiries = 1
INVARIANTS
    IngestInv
    OneDocumentEach
PROPERTIES
    IngestedAtLast
