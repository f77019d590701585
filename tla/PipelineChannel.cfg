SPECIFICATION FairSpec
CONSTANTS
    p1 = p1
    p2 = p2
    p3 = p3
    p4 = p4
    Packets <- MCPackets
    Size <- MCSize
    BufferSize = 2
    Limit = 2
    IsAcceptor = TRUE
    Services = {s1, s2}
    Workers = {w1, w2}
    Ctl = Ctl
INVARIANTS
    TypeOK
    SendTaskIsALock
PROPERTIES
    ImplementsChannel
    EventuallySent
CHECK_DEADLOCK FALSE
