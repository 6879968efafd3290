\* Every kind of operation in two processes, the first of which warms up after every start.
CONSTANTS
    rest = rest
    udp = udp
    r1 = r1
    None = None
    Proc = {rest, udp}
    WarmProcs = {rest}
    Req = {r1}
    Traffic = {"get", "warm", "refresh", "renew"}
    TtlL1 = 1
    TtlL2 = 1
    TtlSoft = 1
    TtlHard = 2
    OpDelay = 0
    FetchDelay = 1
    MaxTime = 5
SPECIFICATION FairSpec
INVARIANT TypeOK
INVARIANT Freshness
INVARIANT StaleWithinHard
PROPERTY LiveRowKept
PROPERTY EveryRequestReturns
CHECK_DEADLOCK FALSE
