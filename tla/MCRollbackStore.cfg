SPECIFICATION FairSpec
CONSTANTS
    t1 = t1
    t2 = t2
    Thread <- MCThread
    Path <- MCPath
    StorePath <- MCStorePath
    CleanAbs <- MCCleanAbs
    Skew = 1
    MaxTime = 3
    NoState = NoState
    Corrupt = Corrupt
    NoThread = NoThread
    Windows = FALSE
    SyncMayFail = TRUE
INVARIANTS
    TypeOK
    AcceptedIsDurable
    MarkWasSeen
PROPERTIES
    MarkNeverRegresses
    NoAcceptBehindFloor
    PromiseKept
    CallsReturn
