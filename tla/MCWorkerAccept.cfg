SPECIFICATION Spec
CONSTANTS
    Conns = {c1}
    NoConn = NoConn
    MaxClients = 1
    Timeout = 1
    MaxFile = 1
    PeerMay = {"full", "rst"}
    Faults = {"accept"}
    Prompt = FALSE
INVARIANT AcceptedUntilBlocked
CHECK_DEADLOCK FALSE
