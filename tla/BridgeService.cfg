\* Two bridges in succession, sockets that break, commands and restarts.
SPECIFICATION FairSpec
CONSTANTS
    Bridges = {b1, b2}
    Sockets = {s1, s2}
    None = None
    WireCapacity = 1
    MaxSequence = 2
    MaxReplies = 1
INVARIANTS
    TypeOK
    OneSocket
    ReadyIsConnected
    SocketOfPresentBridge
    NothingAfterDispose
PROPERTY
    Reconnects
