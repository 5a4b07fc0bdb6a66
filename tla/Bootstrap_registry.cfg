CHECK_DEADLOCK FALSE
SPECIFICATION MCSpec
CONSTANTS
    Node = {1, 2, 3}
    File = {1}
    None = None
    Freed = Freed
    PoolSize = 2
    MayDie = {2}
    MayLinger = {2}
    MaxStarts = 2
INVARIANTS TypeOK CursorRegistered StopWalk OnIsRegistered
PROPERTIES ImplementsRegistry StopGoesOn
