SPECIFICATION FairSpec
CONSTANTS
    Small = 2
    Large = 4
    PositionRows = 6
    Caps = {1, 2, 3, 4}
    CacheLimit = 104
    Padding = {0, 2, 80}
CHECK_DEADLOCK FALSE
INVARIANTS
    CacheSound
    
PROPERTIES
    SessionEnds
