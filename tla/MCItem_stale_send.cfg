SPECIFICATION Spec
CONSTANTS
    s1 = s1
    s2 = s2
    Syncs = {s1, s2}
    MaxPages = 3
    MaxEdits = 3
    MaxRemovals = 0
    MaxMishaps = 0
    CleanupMax = 2
CHECK_DEADLOCK FALSE
INVARIANT LastSentIsLatest
