\* The whole week, reset late on day 3: a window that crosses midnight, calls longer than the pause, late timers.
CONSTANTS
    DayLen = 4
    ResetDay = 3
    ResetTime = 2
    Window = 7
    Interval = 2
    CallDelay = 3
    Late = 1
    None = None
SPECIFICATION FairSpec
INVARIANT Alive
INVARIANT Aligned
INVARIANT SelfHeals
PROPERTY GivesUpLate
PROPERTY NothingAfterStop
PROPERTY KeepsAttempting
