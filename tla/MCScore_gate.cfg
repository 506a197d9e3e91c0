SPECIFICATION FairSpec
CONSTANTS
    Sources = {"extraction", "context"}
    Workers = {w1, w2}
    None = None
    MaxReports = 2
    MaxFaults = 1
CHECK_DEADLOCK FALSE
INVARIANTS TypeOK StaleScoreIsCovered UnscoredIsCovered
PROPERTIES OneReportIsScored LateReportIsScored
