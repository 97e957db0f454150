\* One caller after another, under the fairness of the thread and of Windows.
SPECIFICATION FairSpec
CONSTANTS
    Tracks = {t1, t2}
    WithArt = {}
    NoTrack = NoTrack
    NoArt = NoArt
    LearnedCommands = {next, previous}
    NextCommand = next
    PreviousCommand = previous
    Volume = volume
    Requests = {r1}
    Declarations = {{}, {previous}}
    RefreshTicks = 2
INVARIANTS
    TypeOK
    DeclinedNotOffered
PROPERTIES
    ImplementsCalls
    TrackPublished
    ShutdownCompletes
CHECK_DEADLOCK FALSE
