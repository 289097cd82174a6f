SPECIFICATION Spec
CONSTANTS
    t1 = t1
    t2 = t2
    K = K
    L1 = L1
    P1 = P1
    P2 = P2
    Scopes <- MCScopes
    Ring <- MCRing
    RollbackEnabled = TRUE
    ManagerSkew = 1
    ManagerRevoked = {}
    UnscopedProduct = FALSE
    Skew = 1
    Day = 1
    DefaultClockSkew = 1
    Nil = Nil
    Placeholders = {}
    MaxUint64 = 2
    maxVersionComponents = 5
    NoState = NoState
    Corrupt = Corrupt
    Missing = Missing
    Unreadable = Unreadable
SYMMETRY Alike
INVARIANTS
    TypeOK
    CachedIsTrusted
PROPERTIES
    RejectedNeverWrites
    ServedIsUsable
    FailureHidesOlderDecisions
    NoFalseAlarm
    RevokedKeyNeverAccepted
