CONSTANTS
    Hosts = {h1}
    NoHost = NoHost
    Workers = {w1}
    Ctl = Ctl
    App = App
    MaxId = 2
SPECIFICATION FairSpec
PROPERTIES
    ClosedIsReported
    AttemptIsReported
CHECK_DEADLOCK FALSE
