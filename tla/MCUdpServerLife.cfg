\* Boot, datagrams and signals in any order, with a queue that runs full.
CONSTANTS
    m1 = m1
    m2 = m2
    m3 = m3
    s1 = s1
    s2 = s2
    Msg = {m1, m2, m3}
    Signal = {s1, s2}
    QueueSize = 2
    PoolSize = 2
SPECIFICATION FairSpec
INVARIANT NoneSkipped
INVARIANT CleanExit
PROPERTY BootEnds
PROPERTY EveryCommandAnswered
CHECK_DEADLOCK FALSE
