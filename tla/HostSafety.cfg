CONSTANTS
    Hosts = {h1}
    NoHost = NoHost
    Workers = {w1, w2}
    Ctl = Ctl
    App = App
    MaxId = 2
SPECIFICATION Spec
SYMMETRY HostSymmetry
INVARIANTS
    TypeOK
    NoStaleCompletion
    OneTaskOfAKind
    FreeHostsAreClean
    SocketIsOwn
    ConnectorsAreOpen
    NewIdsAreUnlisted
    NoHostLeaks
PROPERTIES
    ImplementsConnection
CHECK_DEADLOCK FALSE
