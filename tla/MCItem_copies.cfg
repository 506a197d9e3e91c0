SPECIFICATION FairSpec
CONSTANTS
    s1 = s1
    s2 = s2
    Syncs = {s1, s2}
    MaxPages = 3
    MaxEdits = 3
    MaxRemovals = 1
    MaxMishaps = 1
    CleanupMax = 2
CHECK_DEADLOCK FALSE
INVARIANTS TypeOK SentOnce
PROPERTIES PageNeverGoesBack EditReachesPage DeletedPageGoes
