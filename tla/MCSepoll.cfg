SPECIFICATION FairSpec
CONSTANTS
    Fds = {d1, d2}
    Files = {f1, f2}
    Cbs = {a, b}
    NoFile = NoFile
    NoCb = NoCb
    MaxSize = 2
    HasHook = TRUE
INVARIANTS
    TypeOK
    NoDanglingPointer
    NoStaleCall
    NoLeak
    KernelAgrees
PROPERTIES
    ImplementsEventLoop
    NoEventLost
    EventDelivered
    ExitEndsLoop
CHECK_DEADLOCK FALSE
