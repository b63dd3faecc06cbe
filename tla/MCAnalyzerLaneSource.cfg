SPECIFICATION Spec
CONSTANTS
    j1 = j1
    j2 = j2
    j3 = j3
    Jobs = {j1, j2, j3}
    c1 = c1
    c2 = c2
    Closers = {c1, c2}
    QueuedLimit = 1
    LoaderCodes <- MCAnyCodes
SYMMETRY JobSymmetry
INVARIANTS
    SourceFailureSparesModel
