\* A player with two characters; a batch takes one item, so a queue outlives its batch.
CONSTANTS
    Char = {1, 2}
    MaxLevel = 3
    BigRise = 1
    BatchSize = 1
    Request = {r1, r2}
    MaxChanges = 1
    MaxAsked = 3
SPECIFICATION FairSpec
INVARIANT NoneForgotten
INVARIANT RisesQueued
INVARIANT ReplyFromApi
PROPERTY Drains
\* The requests are bounded: the system ends waiting for one.
CHECK_DEADLOCK FALSE
