----------------------------- MODULE MCManager ------------------------------
(***************************************************************************)
(* A subscription with a day of grace, a perpetual license, and a forged   *)
(* subscription, all under one key; callers that name the product, the     *)
(* wrong one, or none.                                                     *)
(***************************************************************************)
EXTENDS Manager, TLC

CONSTANTS t1, t2, K, L1, P1, P2

Subscription ==
    [schema |-> SchemaVersion, licenseId |-> L1, productId |-> P1, keyId |-> K,
     edition |-> TRUE, licenseType |-> "subscription", mode |-> "none",
     deviceIds |-> <<>>, capped |-> TRUE, limitsInRange |-> TRUE, compact |-> TRUE,
     issuedAt |-> 1, notBefore |-> Nil, expiresAt |-> 1, graceDays |-> 1,
     minVersion |-> Nil, maxVersion |-> Nil,
     maintenanceUntil |-> Nil, coveredMaxVersion |-> Nil]

Perpetual == [Subscription EXCEPT !.licenseType = "lifetime",
                                  !.expiresAt = Nil, !.graceDays = 0]

Signed(p) ==
    [form |-> "ok", algorithm |-> TRUE, keyId |-> K, encoding |-> TRUE,
     signed |-> TRUE, decodes |-> TRUE, canonical |-> TRUE,
     payload |-> p]

Forged(p) == [Signed(p) EXCEPT !.signed = FALSE]
TooLarge(p) == [Signed(p) EXCEPT !.form = "too_large"]

MCRing == (K :> [sized |-> TRUE, enabled |-> TRUE, revoked |-> FALSE,
                 notBefore |-> Nil, notAfter |-> 1])

OfProduct(x) ==
    [product |-> x, version |-> Nil, device |-> Nil, revoked |-> Nil, skew |-> 0]

Alike == Permutations({t1, t2})

Good == Signed(Subscription)

FewDocs == {Good, Forged(Subscription)}
AllDocs == FewDocs \cup {Signed([Subscription EXCEPT !.graceDays = 0]),
                         Signed(Perpetual)}

Wide ==
    [threads |-> {t1}, docs |-> AllDocs, end |-> 4,
     contexts |-> {OfProduct(P1), OfProduct(P2), OfProduct(Nil)},
     files |-> {Good, TooLarge(Subscription), Missing, Unreadable}]

Concurrent ==
    [threads |-> {t1, t2}, docs |-> FewDocs, end |-> 2,
     contexts |-> {OfProduct(P1)}, files |-> {Good}]

MCScopes == [wide |-> Wide, concurrent |-> Concurrent]
OnlyConcurrent == [concurrent |-> Concurrent]
=============================================================================
