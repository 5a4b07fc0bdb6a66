CHECK_DEADLOCK FALSE
SPECIFICATION Spec
CONSTANTS
    Flag = {"-i", "-p", "-h", "--size", "-s"}
    Value = {"file", "quoted"}
    Quoted = {"quoted"}
    ArgsSize = 3
    NoValue = novalue
    Thread = {t1, t2}
    Typed <- MCTyped
    Backlog = 1
    MaxAsked = 2
INVARIANTS TypeOK FreedIsQuiet HandlersHaveDownloader CommandsAreUnderstood
PROPERTIES StopReturns NoticeIsActedOn CheckComesBack
