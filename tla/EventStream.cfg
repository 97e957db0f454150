SPECIFICATION FairSpec
CONSTANTS
    Conns = {c1}
    Contents = {unavailable, playing}
    PlayingContents = {playing}
    Unavailable = unavailable
    Positions = {0, 1}
    NoPosition = NoPosition
    Tolerance = 1
    Capacity = 2
    MaxClients = 1
    WireCapacity = 1
    MaxSequence = 2
    MaxReplies = 1
    NoSnapshot = NoSnapshot
    NoEvent = NoEvent
    NoSocket = NoSocket
    ErrorEvent = ErrorEvent
    ShutdownEvent = ShutdownEvent
INVARIANTS
    TypeOK
    SequenceIdentifiesContent
    LastChangeShownOrUnderWay
    ClientsCounted
PROPERTIES
    ImplementsFeed
    CatchesUp
