SPECIFICATION Spec
CONSTANTS
    Store = {s1, s2, s3}
    Closer = {c1, c2}
    Path <- MCPath
    CleanAbs <- MCCleanAbs
    NoStore = NoStore
    NoPath = NoPath
    NoKey = NoKey
INVARIANTS
    OneExclusiveWriter
    ReservedWhileHeld
