CONSTANTS
    Hosts = {h1}
    NoHost = NoHost
    Workers = {w1}
    Ctl = Ctl
    App = App
    MaxId = 2
SPECIFICATION Spec
PROPERTIES
    PacketGoesToItsHost
CHECK_DEADLOCK FALSE
