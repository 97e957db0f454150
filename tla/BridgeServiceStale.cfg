\* A reply of a bridge that has been replaced comes late.
SPECIFICATION Spec
CONSTANTS
    Bridges = {b1, b2}
    Sockets = {s1, s2}
    None = None
    WireCapacity = 1
    MaxSequence = 2
    MaxReplies = 1
INVARIANT
    ViewOfPresentBridge
