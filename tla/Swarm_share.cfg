CHECK_DEADLOCK FALSE
SPECIFICATION Spec
CONSTANTS
    u = u
    h = h
    c = c
    Node = {u, h, c}
    Tracker = {u, h}
    Home = h
    Uploaders = {u}
    Downloaders = {h, c}
    Worker <- MCWorker
    Pool = 2
    Blocks = 1
    Mortal = {u}
    MayStop = {u}
    MaxFaults = 1
    MaxTries = 4
    MaxPauses = 1
    MaxTrouble = 1
    Nobody = nobody
INVARIANTS TypeOK PeersHaveIt ZerosAreDownloaded
PROPERTIES DownloadsEnd
