SPECIFICATION Spec
CONSTANTS
    p1 = p1
    p2 = p2
    p3 = p3
    p4 = p4
    Packets <- MCPackets
    Size <- MCSize
    BufferSize = 2
    Limit = 4
    IsAcceptor = FALSE
    Services = {s1, s2}
    Workers = {w1, w2}
    Ctl = Ctl
INVARIANTS
    SendHasData
CHECK_DEADLOCK FALSE
