CHECK_DEADLOCK FALSE
SPECIFICATION Spec
CONSTANTS
    KeySpace = 8
    Node = {1, 4, 6}
    File = {3}
    Blank = 0
    Free = Free
    LastFinger = 1
    FixIndex <- MCFixIndex
    FixStart <- MCFixStart
    FixRounds = 1
    MayLeave = {4}
    MayCrash = {1}
    MayReturn = {4}
    MayNotSave = {4}
    MaxBusy = 1
INVARIANTS LockInv
PROPERTIES TorrentsKept ImplementsDirectory
