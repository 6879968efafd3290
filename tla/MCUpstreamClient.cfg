\* Two jobs at a time; a partial fetch makes one or two calls.
CONSTANTS
    j1 = j1
    j2 = j2
    Job = {j1, j2}
    Places = 2
    Limit = 2
    Window = 3
    RetryDelay = 1
    RetryAttempts = 2
    FetchMax = 1
SPECIFICATION ClientSpec
SYMMETRY Symmetry
INVARIANT WindowBound
INVARIANT AnsweredInTime
