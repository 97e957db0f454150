SPECIFICATION Spec
CONSTANTS
    Tracks = 2
    Duration = 9
    PollInterval = 2
    Tick = 1
    RepublishInterval = 3
    Settle = 1
    Tolerance = 4
    MaxExtrapolation = 6
    RestartAfter = 3
    ClockSteps = {8}
    MaxMoves = 2
INVARIANTS TypeOK Recalibrated NotInvented
