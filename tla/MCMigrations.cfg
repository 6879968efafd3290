\* Two processes migrate side by side, one of them also rolls back; one statement, one process
\* and one rollback may go wrong.
CONSTANTS
    rest = rest
    udp = udp
    Procs = {rest, udp}
    Operators = {udp}
    MaxFaults = 1
    MaxCrashes = 1
    MaxRollbacks = 1
SPECIFICATION MigSpec
INVARIANT RecordedIsPresent
INVARIANT OneGetsThrough
PROPERTY DoneIsDone
PROPERTY UpgradeSpec
