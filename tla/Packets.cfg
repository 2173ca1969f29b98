SPECIFICATION LinksSpec
CONSTANTS
    PacketIdMax = 4
    SeqBacktrack = 2
    TimeBacktrack = 1
    ReapInterval = 2
    LongForm = TRUE
    MaxNow = 5
    MaxPeerNow = 3
INVARIANTS
    TypeOK
    TcpInOrder
PROPERTIES
    ImplementsAtMostOnce
    AcceptsExactly
    LateRefused
    TcpAtMostOnce
