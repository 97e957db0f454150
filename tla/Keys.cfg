\* One cached artwork for two paths, so that downloads evict each other.
SPECIFICATION FairSpec
CONSTANTS
    Keys = {k1}
    Paths = {p1, p2}
    NoArt = NoArt
    CacheSize = 1
    ShowArtworkOnKeys = TRUE
    MaxRenders = 2
    MaxEvents = 3
INVARIANTS
    TypeOK
    CacheTruthful
    NotFrozen
PROPERTIES
    MessageRestored
    PlayingShown
CHECK_DEADLOCK FALSE
