CHECK_DEADLOCK FALSE
SPECIFICATION Spec
CONSTANTS
    u = u
    h = h
    c = c
    Node = {u, h, c}
    Tracker = {u, h}
    Home = h
    Uploaders = {u}
    Downloaders = {h, c}
    Worker <- MCWorker
    Pool = 2
    Blocks = 1
    Mortal = {u}
    MayStop = {}
    MaxFaults = 0
    MaxTries = 3
    MaxPauses = 0
    MaxTrouble = 0
    Nobody = nobody
INVARIANTS DoneIsTheFile
