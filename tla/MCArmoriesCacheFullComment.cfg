\* A partial fetch of one process, the full route of the other.
CONSTANTS
    rest = rest
    udp = udp
    r1 = r1
    profile = profile
    gems = gems
    None = None
    Proc = {rest, udp}
    Req = {r1}
    Traffic = {"partial", "full"}
    Section = {profile, gems}
    Profile = profile
    MaxAge = 1
    OpDelay = 0
    FetchDelay = 0
    MaxTime = 1
SPECIFICATION Spec
INVARIANT FullIsFull
CHECK_DEADLOCK FALSE
