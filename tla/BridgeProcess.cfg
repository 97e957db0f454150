\* One bridge at a time in its startup: the lock does its job.
SPECIFICATION FairSpec
CONSTANTS
    Pids = {p1, p2, p3}
    Parents = {q1}
    NoParent = NoParent
    NoFile = NoFile
    Blank = Blank
    MaxStarting = 1
INVARIANTS
    TypeOK
    LockNamesHolder
    OneBridge
PROPERTIES
    ImplementsLife
    OrphanLockRecovered
    OrphanEnds
