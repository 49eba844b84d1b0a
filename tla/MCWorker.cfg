SPECIFICATION Spec
SYMMETRY Alike
CONSTANTS
    Conns = {c1, c2}
    NoConn = NoConn
    MaxClients = 1
    Timeout = 1
    MaxFile = 1
    PeerMay = {"full", "fin", "rst"}
    Faults = {"malloc", "addsock", "addpid", "sendfile", "sockopt", "wait"}
    Prompt = FALSE
INVARIANTS
    TypeOK
    CountMatches
    CallsLiveClient
    NoOrphanCgi
    AcceptedUntilBlocked
PROPERTIES
    ImplementsEventLoop
CHECK_DEADLOCK FALSE
