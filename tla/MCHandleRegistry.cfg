SPECIFICATION FairSpec
CONSTANTS
    t1 = t1
    t2 = t2
    l1 = l1
    l2 = l2
    j1 = j1
    Threads = {t1, t2}
    Leases = {l1, l2}
    Jobs = {j1}
    MaxId = 3
INVARIANTS
    LeaseExact
    NothingOrphaned
PROPERTIES
    StaleStaysStale
    LeaseComesBack
