SPECIFICATION Spec
CONSTANTS
    Conns = {c1}
    NoConn = NoConn
    MaxClients = 1
    Timeout = 3
    MaxFile = 2
    PeerMay = {"part", "full", "long", "fin", "rst"}
    Faults = {"setup", "accept", "malloc", "addsock", "addpid", "read", "sendfile",
              "sockopt", "truncate", "wait", "addcore"}
    Prompt = TRUE
INVARIANTS
    BootedInTime
    OneReply
    NoLostWakeup
    FdsMatchRecords
CHECK_DEADLOCK FALSE
