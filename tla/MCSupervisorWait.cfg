SPECIFICATION Spec
CONSTANTS
    Workers = {w1, w2}
    Signals = {"term"}
    Faults = {"wait"}
INVARIANT ExitsAfterChildren
CHECK_DEADLOCK FALSE
