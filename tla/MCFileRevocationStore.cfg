SPECIFICATION Spec
CONSTANTS
    t1 = t1
    t2 = t2
    A = A
    B = B
    Thread <- MCThread
    Path <- MCPath
    StorePath <- MCStorePath
    CleanAbs <- MCCleanAbs
    NoThread = NoThread
    ListId = {A, B}
    Digest <- MCDigest
    MaxSeq = 2
    Corrupt = Corrupt
    Ring <- MCRing
    Loads <- MCLoads
    Saves <- MCSaves
    DefaultClockSkew = 1
    Nil = Nil
    Other = Other
    Blank = Blank
    MaxRevokedIDs = 2
    IdBytes <- MCIdBytes
    MaxRevocationFileSize = 3
    Orders <- MCOrders
    Windows = FALSE
    SyncMayFail = TRUE
VIEW ButAnswer
INVARIANTS
    TypeOK
    RecordsAreWellFounded
    AcceptedIsDurable
    HeldOnlyInside
PROPERTIES
    MarksNeverRegress
    NoReplay
    MintedIsAdmitted
    ContractKept
