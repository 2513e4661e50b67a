\* Two forms submitted at once, with hand edits of both files and restarts.
SPECIFICATION Spec
CONSTANTS
    Threads = {t1, t2}
    NoThread = NoThread
    Ids = {a, b}
    None = None
    MaxEdits = 1
SYMMETRY Symmetry
PROPERTIES
    OthersAreKept
    StaysBootable
CHECK_DEADLOCK FALSE
