SPECIFICATION Spec
CONSTANTS
    Meetings = {m1}
    Workers = {w1, w2}
    Requests = {r1}
    Beat = beat
    None = None
    MaxJobs = 2
    NConsumers = 2
    MaxFaults = 2
    m1 = m1
    w1 = w1
    w2 = w2
    r1 = r1
    beat = beat
SYMMETRY Interchangeable
INVARIANTS TypeOK RecordingKept TranscriptMeansAudioGone CancelledStaysSilent OneLiveJob AnalyzingHasLiveJob
PROPERTIES TranscriptMovesForward ReopenedOnlyUnannounced
CHECK_DEADLOCK FALSE
