CHECK_DEADLOCK FALSE
SPECIFICATION Spec
CONSTANTS
    u = u
    h = h
    c = c
    Node = {u, h}
    Tracker = {u, h}
    Home = h
    Uploaders = {u}
    Downloaders = {h}
    Worker <- MCWorker
    Pool = 2
    Blocks = 1
    Mortal = {u}
    MayStop = {}
    MaxFaults = 0
    MaxTries = 3
    MaxPauses = 1
    MaxTrouble = 1
    Nobody = nobody
PROPERTIES RetryRestarts
