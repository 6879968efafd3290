\* Boot, queries, health check and shutdown in any order, with an unsteady server.
CONSTANTS
    o1 = o1
    o2 = o2
    o3 = o3
    None = None
    Op = {o1, o2, o3}
    MaxConn = 2
    MaxAttempts = 3
SPECIFICATION FairSpec
INVARIANT SingleFlight
INVARIANT EndedMeansDisconnected
PROPERTY SelfHeals
PROPERTY ShutdownEnds
