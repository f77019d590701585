CONSTANTS
    Hosts = {h1, h2}
    Guests = {h1, h2}
    OtherKinds = {}
    Accounts = {a1}
    NoAccount = NoAccount
    NoPlayer = NoPlayer
    NoRow = NoRow
    ServerId = 1
    Statuses = {0, 4, 9}
    Kinds <- MCKinds
    KickDelay = 1
    MaxRequests = 2
SPECIFICATION Spec
INVARIANTS
    NoDoubleLogin
CHECK_DEADLOCK FALSE
