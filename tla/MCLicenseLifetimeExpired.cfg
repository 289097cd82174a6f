SPECIFICATION Spec
CONSTANTS
    d1 = d1
    d2 = d2
    L1 = L1
    P1 = P1
    P2 = P2
    Nil = Nil
    K = K
    N1 = N1
    N2 = N2
    S1 = S1
    A = A
    B = B
    junk = junk
    Placeholders = {junk}
    Ring <- MCRing
    SigningKey = K
    FreshId = FreshId
    MaxUint64 = 2
    maxVersionComponents = 5
    Half = 6
    Day = 2
    DefaultClockSkew = 1
    Cases <- MCCases
CHECK_DEADLOCK FALSE
INVARIANT
    ExpiredHasNoDaysLeft
