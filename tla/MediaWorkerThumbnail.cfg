\* The track changes in the middle of a read.
SPECIFICATION Spec
CONSTANTS
    Tracks = {t1, t2}
    WithArt = {t1}
    NoTrack = NoTrack
    NoArt = NoArt
    LearnedCommands = {next, previous}
    NextCommand = next
    PreviousCommand = previous
    Volume = volume
    Requests = {r1}
    Declarations = {{next}}
    RefreshTicks = 2
INVARIANT
    CachedArtworkIsOfTrack
CHECK_DEADLOCK FALSE
