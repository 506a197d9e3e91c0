SPECIFICATION FairSpec
CONSTANTS
    s1 = s1
    r1 = r1
    u1 = u1
    None = None
    Sockets = {s1}
    Requests = {r1}
    Users = {u1}
PROPERTIES HelloReturns
