CONSTANTS
    g1 = g1
    g2 = g2
    Localhost = Localhost
    Servers <- TwoServers
    PublicHost <- Hosts
    PublicPort <- Ports
    NoHost = NoHost
    MaxHosts = 2
SPECIFICATION Spec
INVARIANTS
    ConnectedIsRecorded
CHECK_DEADLOCK FALSE
