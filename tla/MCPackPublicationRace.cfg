SPECIFICATION Spec
CONSTANTS
    t1 = t1
    t2 = t2
    None = None
    Tools = {t1, t2}
    Inputs = {1, 2}
    WithModels = {1}
    Racing = TRUE
SYMMETRY Interchangeable
PROPERTIES
    OnlyVerifiedRemoved
