SPECIFICATION Spec
CONSTANTS
    p1 = p1
    p2 = p2
    n1 = n1
    n2 = n2
    None = None
    Preparers = {p1, p2}
    Processes = {n1, n2}
    Artifacts <- TwoArtifacts
SYMMETRY Interchangeable
INVARIANTS
    RemovesItsOwn
    PublishedStays
    Withdrawn
