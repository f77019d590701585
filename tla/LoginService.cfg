CONSTANTS
    Hosts = {h1, h2}
    Guests = {h2}
    OtherKinds = {"platform", "badClient", "badKey", "unregistered", "broken"}
    Kinds <- MCKinds
    Accounts = {a1}
    NoAccount = NoAccount
    NoPlayer = NoPlayer
    NoRow = NoRow
    ServerId = 1
    Statuses = {0, 4, 9}
    KickDelay = 1
    MaxRequests = 2
SPECIFICATION FairSpec
INVARIANTS
    TypeOK
    LookedUpOnce
    KickCanClose
    AnswerIsRecorded
PROPERTIES
    KickIsNotPutOff
    RequestIsNotLost
    ImplementsSession
    GuestIsAnswered
CHECK_DEADLOCK FALSE
