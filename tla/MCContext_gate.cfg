SPECIFICATION FairSpec
CONSTANTS
    Workers = {w1, w2}
    None = None
    MaxRetries = 1
    MaxEvents = 2
    MaxFaults = 1
CHECK_DEADLOCK FALSE
INVARIANTS TypeOK StaleIsCovered OwedIsCovered WarnedOnce
PROPERTIES LinkedIsPublished LineageIsSent
