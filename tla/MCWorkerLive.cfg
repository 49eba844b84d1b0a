SPECIFICATION FairSpec

CONSTANTS
    Conns = {c1}
    NoConn = NoConn
    MaxClients = 1
    Timeout = 1
    MaxFile = 2
    PeerMay = {"part", "full", "fin", "rst"}
    Faults = {"malloc", "addsock", "addpid", "sendfile", "sockopt"}
    Prompt = FALSE
PROPERTIES
    TermEnds
    ClientsLeave
CHECK_DEADLOCK FALSE
