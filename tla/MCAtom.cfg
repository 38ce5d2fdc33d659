CONSTANTS
    t1 = t1
    t2 = t2
    t3 = t3
    Threads = {t1, t2, t3}
    Values <- MCValues
    Programs <- MCPrograms
    Stamps = 2
    MaxUpdates = 3
    OnlyConforming = TRUE
    Pointers = {p1, p2, p3}
    MaxStrong = 4
SPECIFICATION FairSpec
INVARIANTS StampCountsUpdates LastOneDestroys
PROPERTIES ImplementsAtomContract WaitersReturn
CHECK_DEADLOCK FALSE
