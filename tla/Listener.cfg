CONSTANTS
    Workers = {w1, w2}
    Ctl = Ctl
    Contexts = {c1, c2, c3}
    Sockets = {s1, s2, s3, s4, s5}
    NoContext = NoContext
    NoSocket = NoSocket
    AcceptWait = 2
    MaxClients = 2
    MaxRefusals = 1
SPECIFICATION FairSpec
INVARIANTS
    TypeOK
    AcceptsAreCounted
    OneAcceptOfAContext
    
PROPERTIES
    KeepsAccepting
    ClientIsJoinedUnlessLost
    ListenIsAnswered
CHECK_DEADLOCK FALSE
