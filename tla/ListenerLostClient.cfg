CONSTANTS
    Workers = {w1}
    Ctl = Ctl
    Contexts = {c1, c2}
    Sockets = {s1, s2, s3}
    NoContext = NoContext
    NoSocket = NoSocket
    AcceptWait = 1
    MaxClients = 2
    MaxRefusals = 0
SPECIFICATION FairSpec
PROPERTY ClientIsJoined
CHECK_DEADLOCK FALSE
