SPECIFICATION FairSpec
CONSTANTS
    Conns = {c1}
    NoConn = NoConn
    MaxClients = 1
    Timeout = 1
    MaxFile = 1
    PeerMay = {"full", "rst"}
    Faults = {"truncate"}
    Prompt = FALSE
PROPERTY SendfileEnds
CHECK_DEADLOCK FALSE
