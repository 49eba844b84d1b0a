SPECIFICATION FairSpec
CONSTANTS
    Workers = {w1, w2}
    Signals = {"term", "kill"}
    Faults = {}
PROPERTY DiesWithParent
CHECK_DEADLOCK FALSE
