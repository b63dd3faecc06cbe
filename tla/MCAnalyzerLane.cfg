SPECIFICATION FairSpec
CONSTANTS
    j1 = j1
    j2 = j2
    Jobs = {j1, j2}
    c1 = c1
    c2 = c2
    Closers = {c1, c2}
    QueuedLimit = 1
    LoaderCodes <- MCAnyCodes
INVARIANTS
    AcceptedCounted
PROPERTIES
    FailureStops
    StatusTrue
    Drains
