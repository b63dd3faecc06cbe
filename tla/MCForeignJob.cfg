SPECIFICATION FairClientSpec
CONSTANTS
    JobKinds = {"document", "formula"}
    MaxRequests = 2
    MaxUpdates = 1
INVARIANTS
    FinishedClean
PROPERTIES
    AcksHonest
    Completes
