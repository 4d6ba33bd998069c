SPECIFICATION FairSpec
CONSTANTS
    MaxSeq = 5
    MaxBufferBytes = 4
    WireMax = 2
    AckMax = 2
    MaxLosses = 2
    MaxBadAcks = 1
    MaxStops = 1
    Size <- MCSize
INVARIANTS
    TypeOK
    HeldInOrder
    BufferAccounted
    NoneLostSilently
PROPERTIES
    ImplementsChannel
    EventuallyDelivered
CHECK_DEADLOCK FALSE
