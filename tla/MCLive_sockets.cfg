SPECIFICATION FairSpec
CONSTANTS
    s1 = s1
    s2 = s2
    r1 = r1
    r2 = r2
    u1 = u1
    u2 = u2
    None = None
    Sockets = {s1, s2}
    Requests = {r1, r2}
    Users = {u1, u2}
INVARIANTS TypeOK ClaimIsStreaming
PROPERTIES StreamKeepsClaim CommitSparesLive EveryClaimEnds
