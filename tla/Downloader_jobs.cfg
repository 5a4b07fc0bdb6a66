CHECK_DEADLOCK FALSE
SPECIFICATION FairSpec
CONSTANTS
    File = {f1, f2}
    Worker = {w1, w2}
    Small = {f2}
    Blocks <- MCBlocks
    Forgotten = {f2}
    Removed = {f2}
    NoDownload = NoDownload
    MaxPauses <- MCMaxPauses
INVARIANTS TypeOK AloneUnlessPaused DoneUnlessPaused
PROPERTIES ImplementsJobs 
