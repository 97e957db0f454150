SPECIFICATION Spec
CONSTANTS
    Keys = {k1, k2, k3, k4, k5}
    CacheSize = 3
    NoArtwork = NoArtwork
INVARIANTS
    TypeOK
    IndexMatchesVector
    CurrentArtworkServed
PROPERTY
    ImplementsShelf
