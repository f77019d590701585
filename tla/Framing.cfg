CONSTANTS
    Header = 2
    MaxData = 2
    Mask = 8
    BufferSize = 4
    StreamLen = 6
    SizeFields <- MCSizeFields
SPECIFICATION FairSpec
INVARIANTS
    TypeOK
    BufferIsStream
    NothingHeldBack
PROPERTIES
    ImplementsStream
    FrameIsDelivered
CHECK_DEADLOCK FALSE
