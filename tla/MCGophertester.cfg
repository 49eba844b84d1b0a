SPECIFICATION FairSpec
CONSTANTS
    Workers = {w1, w2}
    Expected = 1
    Duration = 1
    Timeout = 1
    MaxData = 1
    MaxAttempts = 1
    Faults = {"alloc", "fork", "setup", "poll"}
    Word = 64
    Prefix = 8
    None = None
INVARIANTS
    AttemptsAddUp
    OneLateAttempt
    TableFits
PROPERTY TestEnds
CHECK_DEADLOCK FALSE
