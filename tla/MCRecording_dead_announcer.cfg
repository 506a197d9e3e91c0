SPECIFICATION FairSpec
CONSTANTS
    Meetings = {m1}
    Workers = {w1}
    Requests = {r1}
    Beat = beat
    None = None
    MaxJobs = 1
    NConsumers = 1
    MaxFaults = 1
    m1 = m1
    w1 = w1
    r1 = r1
    beat = beat
PROPERTY CompleteIsAnnounced
CHECK_DEADLOCK FALSE
