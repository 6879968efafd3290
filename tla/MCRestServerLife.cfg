\* Boot, a request that queries and two signals in any order, whatever becomes of the stores, while the other
\* service migrates as well.
CONSTANTS
    rest = rest
    udp = udp
    r1 = r1
    s1 = s1
    s2 = s2
    Procs = {rest, udp}
    Operators = {}
    MaxFaults = 0
    MaxCrashes = 0
    MaxRollbacks = 0
    Rest = rest
    Reqs = {r1}
    Signals = {s1, s2}
SPECIFICATION FairSpec
CONSTRAINT Apart
INVARIANT ServedSchema
PROPERTY CleanExit
PROPERTY Boots
PROPERTY ShutdownEnds
CHECK_DEADLOCK FALSE
