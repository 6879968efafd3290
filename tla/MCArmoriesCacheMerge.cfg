\* Chains of merges of one request after the other; a third of the sections can be renewed twice.
CONSTANTS
    rest = rest
    r1 = r1
    profile = profile
    gems = gems
    cards = cards
    None = None
    Proc = {rest}
    Req = {r1}
    Traffic = {"partial", "full", "nodes", "refresh", "delete"}
    Section = {profile, gems, cards}
    Profile = profile
    MaxAge = 1
    OpDelay = 0
    FetchDelay = 0
    MaxTime = 4
SPECIFICATION Spec
SYMMETRY Symmetry
INVARIANT TypeOK
INVARIANT HasProfile
INVARIANT Complete
INVARIANT SectionAge
CHECK_DEADLOCK FALSE
