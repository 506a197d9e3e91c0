SPECIFICATION FairSpec
CONSTANTS
    p1 = p1
    p2 = p2
    Procs = {p1, p2}
    MaxAttempts = 2
    MaxSpoken = 2
    MaxPresses = 1
    MaxMishaps = 2
CHECK_DEADLOCK FALSE
INVARIANTS TypeOK OneRetryAtATime RepublishHasResult
PROPERTIES EveryVersionSettles
