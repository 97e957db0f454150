\* A bridge ends while start() waits for it.
SPECIFICATION FairSpec
CONSTANTS
    Bridges = {old, b1, b2, b3}
    Orphan = old
    Unspawned = Unspawned
    None = None
    MaxRestarts = 2
    StartErrors = FALSE
    MaxCalls = 1
PROPERTY
    ExitRelaunched
CHECK_DEADLOCK FALSE
