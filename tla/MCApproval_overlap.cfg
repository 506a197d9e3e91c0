SPECIFICATION Spec
CONSTANTS
    Meetings = {m1, m2}
    Procs = {p1, p2}
    Approvers = {u1}
    None = None
    m1 = m1
    Reported = {m1}
    Requests <- Asked
    MaxEvents = 1
    MaxDecided = 1
    MaxExtras = 1
CHECK_DEADLOCK FALSE
INVARIANT OneJudgmentWaiting
