CHECK_DEADLOCK FALSE
SPECIFICATION FairSpec
CONSTANTS
    KeySpace = 8
    Node = {1, 4, 6}
    File = {3}
    Blank = 0
    Free = Free
    LastFinger = 1
    FixIndex <- MCFixIndex
    FixStart <- MCFixStart
    FixRounds = 1
    MayLeave = {}
    MayCrash = {}
    MayReturn = {}
    MayNotSave = {}
    MaxBusy = 1
PROPERTIES StabilizeReturns
