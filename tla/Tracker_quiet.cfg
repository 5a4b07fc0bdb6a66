SPECIFICATION FairSpec
CONSTANTS
    KeySpace = 8
    Node = {1, 4, 6}
    File = {}
    Blank = 0
    Free = Free
    LastFinger = 1
    FixIndex <- MCFixIndex
    FixStart <- MCFixStart
    FixRounds = 2
    MayLeave = {}
    MayCrash = {}
    MayReturn = {}
    MayNotSave = {}
    MaxBusy = 1
INVARIANTS LookupIsSound
PROPERTIES Converges StabilizeReturns
