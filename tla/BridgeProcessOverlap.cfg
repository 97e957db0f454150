\* Two bridges in their startup at once.
SPECIFICATION Spec
CONSTANTS
    Pids = {p1, p2, p3}
    Parents = {q1}
    NoParent = NoParent
    NoFile = NoFile
    Blank = Blank
    MaxStarting = 2
INVARIANT
    OneBridge
