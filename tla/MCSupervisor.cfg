SPECIFICATION FairSpec
CONSTANTS
    Workers = {w1, w2, w3}
    Signals = {"term", "kill"}
    Faults = {"fork", "setup", "add", "wait", "crash"}
INVARIANTS
    TypeOK
    CountMatches
    ChildrenHeld
    LoopEndsLast
PROPERTIES
    TermStopsAll
    EndsWithWorkers
    NoSurvivors
CHECK_DEADLOCK FALSE
