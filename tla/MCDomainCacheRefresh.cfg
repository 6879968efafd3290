\* A refresh against concurrent gets of both processes: the soft limit outlives
\* the run, so that an older row in flight could be served all along.
CONSTANTS
    rest = rest
    udp = udp
    r1 = r1
    r2 = r2
    None = None
    Proc = {rest, udp}
    WarmProcs = {}
    Req = {r1, r2}
    Traffic = {"get", "refresh"}
    TtlL1 = 1
    TtlL2 = 1
    TtlSoft = 5
    TtlHard = 6
    OpDelay = 0
    FetchDelay = 0
    MaxTime = 4
SPECIFICATION Spec
SYMMETRY ProcSymmetry
INVARIANT RefreshWins
CHECK_DEADLOCK FALSE
