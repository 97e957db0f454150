\* Everything may happen, failures of the token read and of spawn included.
SPECIFICATION FairSpec
CONSTANTS
    Bridges = {old, b1, b2}
    Orphan = old
    Unspawned = Unspawned
    None = None
    MaxRestarts = 2
    StartErrors = TRUE
    MaxCalls = 2
INVARIANTS
    TypeOK
    ConnectedToChild
PROPERTIES
    ImplementsView
    StartConcludes
    CrashAnswered
CHECK_DEADLOCK FALSE
