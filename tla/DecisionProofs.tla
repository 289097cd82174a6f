--------------------------- MODULE DecisionProofs ---------------------------
(***************************************************************************)
(* What the decisions of Verify and of validate mean, for every key ring,  *)
(* document, instant and context.                                          *)
(***************************************************************************)
EXTENDS Verifier, Validator, GatesProofs, WellFoundedInduction

(***************************************************************************)
(* The gates before expiry, in their order.                                *)
(***************************************************************************)
ShutCodes(p, now, ctx) ==
    <<validateIssuedAtGate(p, now, SkewOf(ctx)),
      validateRevocationGate(p, ctx),
      validateProductGate(p, ctx),
      validateNotBeforeGate(p, now, SkewOf(ctx)),
      checkVersion(p, ctx.version, now, SkewOf(ctx)),
      checkDevice(p, ctx.device)>>

StaticCodes(p) ==
    <<validateIdentity(p), validateEnums(p), validateCaps(p),
      validateDeviceIDFormat(p), validateLimitsRange(p),
      validateTimeSemantics(p)>>

(***************************************************************************)
(* A check that fails does not answer with the word for a usable license.  *)
(***************************************************************************)
LEMMA GateFails ==
  ASSUME NEW b, NEW code, code \notin {"valid", "grace"}
  PROVE  ~Usable(Gate(b, code))
BY DEF Gate, Usable

(***************************************************************************)
(* A row of checks of which none answers with the word for a usable        *)
(* license does not either.                                                *)
(***************************************************************************)
LEMMA RowFails ==
  ASSUME NEW codes, NEW n \in Checks, DOMAIN codes = 1..n,
         \A i \in 1..n : ~Usable(codes[i])
  PROVE  ~Usable(FirstFailure(codes))
<1>1. CASE FirstFailure(codes) = "ok"
  BY <1>1 DEF Usable
<1>2. CASE FirstFailure(codes) # "ok"
  BY <1>2, OneDecides
<1> QED BY <1>1, <1>2

(***************************************************************************)
(* The identity checks answer with errors only.                            *)
(***************************************************************************)
LEMMA IdentityFails == ASSUME NEW p PROVE ~Usable(validateIdentity(p))
<1> DEFINE codes ==
      <<Gate(p.schema = SchemaVersion, "unsupported_schema"),
        Gate(Nil \notin {p.licenseId, p.productId, p.keyId}, "malformed"),
        Gate(p.issuedAt # Nil, "malformed")>>
<1>1. ~Usable(codes[1]) /\ ~Usable(codes[2]) /\ ~Usable(codes[3])
  BY GateFails
<1>2. DOMAIN codes = 1..3 /\ \A i \in 1..3 : ~Usable(codes[i])
  BY <1>1
<1> QED BY <1>2, RowFails DEF Checks, validateIdentity

(***************************************************************************)
(* So do all checks that need no time, device or product.                  *)
(***************************************************************************)
LEMMA StaticFails == ASSUME NEW p PROVE ~Usable(validateStatic(p))
<1> DEFINE codes == StaticCodes(p)
<1>1. ~Usable(validateEnums(p))
  BY GateFails DEF validateEnums, Usable
<1>2. /\ ~Usable(validateCaps(p)) /\ ~Usable(validateDeviceIDFormat(p))
      /\ ~Usable(validateLimitsRange(p)) /\ ~Usable(validateTimeSemantics(p))
  BY GateFails DEF validateCaps, validateDeviceIDFormat, validateLimitsRange,
                   validateTimeSemantics
<1>3. DOMAIN codes = 1..6 /\ \A i \in 1..6 : ~Usable(codes[i])
  BY <1>1, <1>2, IdentityFails DEF StaticCodes
<1> QED BY <1>3, RowFails DEF Checks, validateStatic, StaticCodes

(***************************************************************************)
(* So does the version check.                                              *)
(***************************************************************************)
LEMMA VersionFails ==
  ASSUME NEW p, NEW version, NEW now, NEW skew
  PROVE  ~Usable(checkVersion(p, version, now, skew))
<1> DEFINE codes == <<checkVersionBounds(p, version),
                      checkMaintenanceCeiling(p, version, now, skew)>>
<1>1. ~Usable(codes[1]) /\ ~Usable(codes[2])
  BY GateFails DEF checkVersionBounds, checkMaintenanceCeiling
<1>2. DOMAIN codes = 1..2 /\ \A i \in 1..2 : ~Usable(codes[i])
  BY <1>1
<1>3. ~Usable(FirstFailure(codes))
  BY <1>2, RowFails DEF Checks
<1> QED BY <1>3 DEF checkVersion, Usable

(***************************************************************************)
(* So do all gates before expiry.                                          *)
(***************************************************************************)
LEMMA ShutFails ==
  ASSUME NEW p, NEW now, NEW ctx PROVE ~Usable(Shut(p, now, ctx))
<1> DEFINE codes == ShutCodes(p, now, ctx)
<1>1. /\ ~Usable(codes[1]) /\ ~Usable(codes[2]) /\ ~Usable(codes[3])
      /\ ~Usable(codes[4]) /\ ~Usable(codes[5]) /\ ~Usable(codes[6])
  BY GateFails, VersionFails
  DEF ShutCodes, validateIssuedAtGate, validateRevocationGate,
      validateProductGate, validateNotBeforeGate, checkDevice
<1>2. DOMAIN codes = 1..6 /\ \A i \in 1..6 : ~Usable(codes[i])
  BY <1>1 DEF ShutCodes
<1>3. ~Usable(FirstFailure(codes))
  BY <1>2, RowFails DEF Checks
<1> QED BY <1>3, StaticFails DEF Shut, ShutCodes

(***************************************************************************)
(* A license is usable exactly when the static checks pass, each gate      *)
(* passes, and it is not past its end.                                     *)
(***************************************************************************)
LEMMA UsableMeans ==
  ASSUME NEW p, NEW now, NEW ctx
  PROVE  Usable(validate(p, now, ctx)) <=>
            /\ validateStatic(p) = "ok"
            /\ \A i \in 1..6 : ShutCodes(p, now, ctx)[i] = "ok"
            /\ Usable(evaluateExpiry(p, now, SkewOf(ctx)))
<1> DEFINE codes == ShutCodes(p, now, ctx)
<1>1. DOMAIN codes = 1..6
  BY DEF ShutCodes
<1>2. Shut(p, now, ctx) = IF validateStatic(p) # "ok" THEN validateStatic(p)
                                                     ELSE FirstFailure(codes)
  BY DEF Shut, ShutCodes
<1>3. CASE Shut(p, now, ctx) # "ok"
  BY <1>1, <1>2, <1>3, ShutFails, PassAll DEF validate
<1>4. CASE Shut(p, now, ctx) = "ok"
  <2>1. validateStatic(p) = "ok" /\ FirstFailure(codes) = "ok"
    BY <1>2, <1>4
  <2>2. \A i \in 1..6 : codes[i] = "ok"
    BY <1>1, <2>1, AllPass DEF Checks
  <2> QED BY <1>4, <2>1, <2>2 DEF validate
<1> QED BY <1>3, <1>4

-----------------------------------------------------------------------------
(***************************************************************************)
(* What passes the static checks was issued at some instant, and has no    *)
(* expiry if it is a lifetime license; it does not end before it begins.   *)
(***************************************************************************)
LEMMA StaticMeans ==
  ASSUME NEW p, validateStatic(p) = "ok"
  PROVE  /\ p.issuedAt # Nil
         /\ p.licenseType = "lifetime" => p.expiresAt = Nil
         /\ InOrder(p.issuedAt, p.expiresAt) /\ InOrder(p.notBefore, p.expiresAt)
<1> DEFINE codes == StaticCodes(p)
           identity ==
             <<Gate(p.schema = SchemaVersion, "unsupported_schema"),
               Gate(Nil \notin {p.licenseId, p.productId, p.keyId}, "malformed"),
               Gate(p.issuedAt # Nil, "malformed")>>
<1>1. DOMAIN codes = 1..6 /\ FirstFailure(codes) = "ok"
  BY DEF validateStatic, StaticCodes
<1>2. codes[1] = "ok" /\ codes[6] = "ok"
  BY <1>1, AllPass DEF Checks
<1>3. FirstFailure(identity) = "ok"
  BY <1>2 DEF StaticCodes, validateIdentity
<1>4. identity[3] = "ok"
  <2>1. DOMAIN identity = 1..3
    OBVIOUS
  <2> QED BY <1>3, <2>1, AllPass DEF Checks
<1>5. validateTimeSemantics(p) = "ok"
  BY <1>2 DEF StaticCodes
<1> QED BY <1>4, <1>5 DEF Gate, validateTimeSemantics

(***************************************************************************)
(* Before maintenance lapses the version check does not depend on time.    *)
(***************************************************************************)
LEMMA VersionInTime ==
  ASSUME NEW p, NEW version, NEW t1, NEW t2, NEW skew,
         checkVersion(p, version, t1, skew) = "ok",
         ~MaintenanceLapsed(p, t2, skew)
  PROVE  checkVersion(p, version, t2, skew) = "ok"
<1> DEFINE codes(now) == <<checkVersionBounds(p, version),
                           checkMaintenanceCeiling(p, version, now, skew)>>
<1>1. CASE ~HasVersionConstraint(p)
  BY <1>1 DEF checkVersion
<1>2. CASE HasVersionConstraint(p)
  <2>1. version # Nil /\ FirstFailure(codes(t1)) = "ok"
    BY <1>2 DEF checkVersion
  <2>2. checkVersionBounds(p, version) = "ok"
    <3>1. DOMAIN codes(t1) = 1..2
      OBVIOUS
    <3>2. codes(t1)[1] = "ok"
      BY <2>1, <3>1, AllPass DEF Checks
    <3> QED BY <3>2
  <2>3. checkMaintenanceCeiling(p, version, t2, skew) = "ok"
    BY DEF checkMaintenanceCeiling, Gate
  <2>4. FirstFailure(codes(t2)) = "ok"
    BY <2>2, <2>3, PassAll
  <2> QED BY <1>2, <2>1, <2>4 DEF checkVersion
<1> QED BY <1>1, <1>2

(***************************************************************************)
(* The skew in effect is not negative.                                     *)
(***************************************************************************)
LEMMA SkewNatural ==
  ASSUME NEW ctx, ctx.skew \in Int
  PROVE  SkewOf(ctx) \in Nat
BY ValidatorConstants DEF SkewOf

(***************************************************************************)
(* A license that is usable at one instant is usable at a later one unless *)
(* it has ended by then, or its maintenance has lapsed.                    *)
(***************************************************************************)
LEMMA StaysUsable ==
  ASSUME NEW p, NEW ctx, NEW t1 \in Int, NEW t2 \in Int, t1 <= t2,
         HasTimes(p), ctx.skew \in Int, Nil \notin Int,
         Usable(validate(p, t1, ctx)),
         Usable(evaluateExpiry(p, t2, SkewOf(ctx))),
         \/ checkVersion(p, ctx.version, t2, SkewOf(ctx)) = "ok"
         \/ ~MaintenanceLapsed(p, t2, SkewOf(ctx))
  PROVE  Usable(validate(p, t2, ctx))
<1> DEFINE before == ShutCodes(p, t1, ctx)
           codes == ShutCodes(p, t2, ctx)
           skew == SkewOf(ctx)
<1>1. skew \in Nat
  BY SkewNatural
<1>2. validateStatic(p) = "ok" /\ \A i \in 1..6 : before[i] = "ok"
  BY UsableMeans
<1>3. p.issuedAt \in Int
  BY <1>2, StaticMeans DEF HasTimes
<1>4. codes[1] = "ok"
  <2>1. before[1] = "ok"
    BY <1>2
  <2> QED BY <1>1, <1>3, <2>1 DEF ShutCodes, validateIssuedAtGate, Gate
<1>5. codes[2] = "ok" /\ codes[3] = "ok" /\ codes[6] = "ok"
  <2>1. before[2] = "ok" /\ before[3] = "ok" /\ before[6] = "ok"
    BY <1>2
  <2> QED BY <2>1 DEF ShutCodes
<1>6. codes[4] = "ok"
  <2>1. before[4] = "ok"
    BY <1>2
  <2> QED BY <1>1, <2>1 DEF ShutCodes, validateNotBeforeGate, Gate, HasTimes
<1>7. codes[5] = "ok"
  <2>1. before[5] = "ok"
    BY <1>2
  <2>2. CASE checkVersion(p, ctx.version, t2, skew) = "ok"
    BY <2>2 DEF ShutCodes
  <2>3. CASE ~MaintenanceLapsed(p, t2, skew)
    BY <2>1, <2>3, VersionInTime DEF ShutCodes
  <2> QED BY <2>2, <2>3
<1>8. \A i \in 1..6 : codes[i] = "ok"
  BY <1>4, <1>5, <1>6, <1>7
<1> QED BY <1>2, <1>8, UsableMeans

(***************************************************************************)
(* Time only makes the version check and the end of a license stricter.    *)
(***************************************************************************)
LEMMA VersionEarlier ==
  ASSUME NEW p, NEW version, NEW t1 \in Int, NEW t2 \in Int, t1 <= t2,
         NEW skew \in Nat, HasTimes(p), Nil \notin Int,
         checkVersion(p, version, t2, skew) = "ok"
  PROVE  checkVersion(p, version, t1, skew) = "ok"
<1> DEFINE codes(now) == <<checkVersionBounds(p, version),
                           checkMaintenanceCeiling(p, version, now, skew)>>
<1>1. CASE ~HasVersionConstraint(p)
  BY <1>1 DEF checkVersion
<1>2. CASE HasVersionConstraint(p)
  <2>1. version # Nil /\ FirstFailure(codes(t2)) = "ok"
    BY <1>2 DEF checkVersion
  <2>2. codes(t2)[1] = "ok" /\ codes(t2)[2] = "ok"
    <3>1. DOMAIN codes(t2) = 1..2
      OBVIOUS
    <3> QED BY <2>1, <3>1, AllPass DEF Checks
  <2>3. MaintenanceLapsed(p, t1, skew) => MaintenanceLapsed(p, t2, skew)
    BY DEF MaintenanceLapsed, HasTimes
  <2>4. checkMaintenanceCeiling(p, version, t1, skew) = "ok"
    BY <2>2, <2>3 DEF checkMaintenanceCeiling, Gate
  <2>5. FirstFailure(codes(t1)) = "ok"
    BY <2>2, <2>4, PassAll
  <2> QED BY <1>2, <2>1, <2>5 DEF checkVersion
<1> QED BY <1>1, <1>2

(***************************************************************************)
(* A license that expires has an end, and an end of grace.                 *)
(***************************************************************************)
LEMMA EndTyped ==
  ASSUME NEW p, HasTimes(p), Nil \notin Int, Expires(p)
  PROVE  p.expiresAt \in Int /\ p.graceDays \in Int /\ GraceEnd(p) \in Int
BY ValidatorConstants DEF HasTimes, Expires, GraceEnd

(***************************************************************************)
(* What has not ended yet had not ended earlier.                           *)
(***************************************************************************)
LEMMA ExpiryEarlier ==
  ASSUME NEW p, NEW t1 \in Int, NEW t2 \in Int, t1 <= t2, NEW skew \in Nat,
         HasTimes(p), Nil \notin Int, Usable(evaluateExpiry(p, t2, skew))
  PROVE  Usable(evaluateExpiry(p, t1, skew))
<1>1. CASE ~PastExpiry(p, t1, skew)
  BY <1>1 DEF evaluateExpiry, Usable
<1>2. CASE PastExpiry(p, t1, skew)
  <2>1. Expires(p) /\ p.expiresAt \in Int /\ GraceEnd(p) \in Int
    BY <1>2, EndTyped DEF PastExpiry
  <2>2. PastExpiry(p, t2, skew)
    BY <1>2, <2>1 DEF PastExpiry
  <2>3. InGrace(p, t2, skew)
    BY <2>2 DEF evaluateExpiry, Usable
  <2>4. InGrace(p, t1, skew)
    BY <1>2, <2>1, <2>3 DEF InGrace
  <2> QED BY <2>4 DEF evaluateExpiry, Usable
<1> QED BY <1>1, <1>2

(***************************************************************************)
(* A license that is usable later, and is not now, has not begun.          *)
(***************************************************************************)
LEMMA NotBegun ==
  ASSUME NEW p, NEW ctx, NEW t1 \in Int, NEW t2 \in Int, t1 <= t2,
         HasTimes(p), ctx.skew \in Int, Nil \notin Int,
         Usable(validate(p, t2, ctx)), ~Usable(validate(p, t1, ctx))
  PROVE  validate(p, t1, ctx) = "not_yet_valid"
<1> DEFINE before == ShutCodes(p, t1, ctx)
           codes == ShutCodes(p, t2, ctx)
           skew == SkewOf(ctx)
<1>1. skew \in Nat
  BY SkewNatural
<1>2. /\ validateStatic(p) = "ok" /\ \A i \in 1..6 : codes[i] = "ok"
      /\ Usable(evaluateExpiry(p, t2, skew))
  BY UsableMeans
<1>3. before[2] = "ok" /\ before[3] = "ok" /\ before[6] = "ok"
  <2>1. codes[2] = "ok" /\ codes[3] = "ok" /\ codes[6] = "ok"
    BY <1>2
  <2> QED BY <2>1 DEF ShutCodes
<1>4. before[5] = "ok"
  <2>1. codes[5] = "ok"
    BY <1>2
  <2> QED BY <1>1, <2>1, VersionEarlier DEF ShutCodes
<1>5. before[1] \in {"ok", "not_yet_valid"} /\ before[4] \in {"ok", "not_yet_valid"}
  BY DEF ShutCodes, validateIssuedAtGate, validateNotBeforeGate, Gate
<1>6. DOMAIN before = 1..6
  BY DEF ShutCodes
<1>7. Usable(evaluateExpiry(p, t1, skew))
  BY <1>1, <1>2, ExpiryEarlier
<1>8. Shut(p, t1, ctx) = FirstFailure(before)
  BY <1>2 DEF Shut, ShutCodes
<1>9. FirstFailure(before) # "ok"
  BY <1>7, <1>8 DEF validate
<1>10. PICK i \in 1..6 : before[i] # "ok" /\ FirstFailure(before) = before[i]
  BY <1>6, <1>9, OneDecides DEF Checks
<1>11. before[i] = "not_yet_valid"
  BY <1>3, <1>4, <1>5, <1>10
<1> QED BY <1>8, <1>9, <1>10, <1>11 DEF validate

(***************************************************************************)
(* What is in grace has begun.                                             *)
(***************************************************************************)
LEMMA GraceHasBegun ==
  ASSUME NEW p, NEW ctx, NEW t1 \in Int, NEW t2 \in Int, t2 = t1 + 1,
         HasTimes(p), ctx.skew \in Int, Nil \notin Int,
         validate(p, t2, ctx) = "grace"
  PROVE  Usable(validate(p, t1, ctx))
<1> DEFINE before == ShutCodes(p, t1, ctx)
           codes == ShutCodes(p, t2, ctx)
           skew == SkewOf(ctx)
<1>1. skew \in Nat
  BY SkewNatural
<1>2. /\ validateStatic(p) = "ok" /\ \A i \in 1..6 : codes[i] = "ok"
      /\ Usable(evaluateExpiry(p, t2, skew))
  BY UsableMeans DEF Usable
<1>3. evaluateExpiry(p, t2, skew) = "grace"
  <2>1. Shut(p, t2, ctx) = "ok"
    <3>1. ~Usable(Shut(p, t2, ctx))
      BY ShutFails
    <3> QED BY <3>1 DEF validate, Usable
  <2> QED BY <2>1 DEF validate
<1>4. Expires(p) /\ p.expiresAt \in Int /\ t2 - skew > p.expiresAt
  BY <1>3, EndTyped DEF evaluateExpiry, PastExpiry
<1>5. /\ p.issuedAt \in Int /\ p.issuedAt <= p.expiresAt
      /\ p.notBefore # Nil => p.notBefore \in Int /\ p.notBefore <= p.expiresAt
  BY <1>2, <1>4, StaticMeans DEF HasTimes, InOrder
<1>6. before[1] = "ok" /\ before[4] = "ok"
  BY <1>1, <1>4, <1>5
  DEF ShutCodes, validateIssuedAtGate, validateNotBeforeGate, Gate
<1>7. before[2] = "ok" /\ before[3] = "ok" /\ before[6] = "ok"
  <2>1. codes[2] = "ok" /\ codes[3] = "ok" /\ codes[6] = "ok"
    BY <1>2
  <2> QED BY <2>1 DEF ShutCodes
<1>8. before[5] = "ok"
  <2>1. codes[5] = "ok" /\ t1 <= t2
    BY <1>2
  <2> QED BY <1>1, <2>1, VersionEarlier DEF ShutCodes
<1>9. \A i \in 1..6 : before[i] = "ok"
  BY <1>6, <1>7, <1>8
<1>10. Usable(evaluateExpiry(p, t1, skew))
  BY <1>1, <1>2, ExpiryEarlier
<1> QED BY <1>2, <1>9, <1>10, UsableMeans

(***************************************************************************)
(* checkVersion: a larger skew does not make maintenance lapse sooner.     *)
(***************************************************************************)
LEMMA VersionLenient ==
  ASSUME NEW p, NEW version, NEW now \in Int, NEW s1 \in Nat, NEW s2 \in Nat, s1 <= s2,
         HasTimes(p), Nil \notin Int,
         checkVersion(p, version, now, s1) = "ok"
  PROVE  checkVersion(p, version, now, s2) = "ok"
<1> DEFINE codes(skew) == <<checkVersionBounds(p, version),
                            checkMaintenanceCeiling(p, version, now, skew)>>
<1>1. CASE ~HasVersionConstraint(p)
  BY <1>1 DEF checkVersion
<1>2. CASE HasVersionConstraint(p)
  <2>1. version # Nil /\ FirstFailure(codes(s1)) = "ok"
    BY <1>2 DEF checkVersion
  <2>2. codes(s1)[1] = "ok" /\ codes(s1)[2] = "ok"
    <3>1. DOMAIN codes(s1) = 1..2
      OBVIOUS
    <3> QED BY <2>1, <3>1, AllPass DEF Checks
  <2>3. MaintenanceLapsed(p, now, s2) => MaintenanceLapsed(p, now, s1)
    BY DEF MaintenanceLapsed, HasTimes
  <2>4. checkMaintenanceCeiling(p, version, now, s2) = "ok"
    BY <2>2, <2>3 DEF checkMaintenanceCeiling, Gate
  <2>5. FirstFailure(codes(s2)) = "ok"
    BY <2>2, <2>4, PassAll
  <2> QED BY <1>2, <2>1, <2>5 DEF checkVersion
<1> QED BY <1>1, <1>2

(***************************************************************************)
(* evaluateExpiry: a larger skew makes neither expiry nor the end of grace *)
(* come sooner, and full validity stays that.                              *)
(***************************************************************************)
LEMMA ExpiryLenient ==
  ASSUME NEW p, NEW now \in Int, NEW s1 \in Nat, NEW s2 \in Nat, s1 <= s2,
         HasTimes(p), Nil \notin Int, Usable(evaluateExpiry(p, now, s1))
  PROVE  /\ Usable(evaluateExpiry(p, now, s2))
         /\ evaluateExpiry(p, now, s1) = "valid" => evaluateExpiry(p, now, s2) = "valid"
<1>1. CASE ~PastExpiry(p, now, s2)
  BY <1>1 DEF evaluateExpiry, Usable
<1>2. CASE PastExpiry(p, now, s2)
  <2>1. Expires(p) /\ p.expiresAt \in Int /\ GraceEnd(p) \in Int
    BY <1>2, EndTyped DEF PastExpiry
  <2>2. PastExpiry(p, now, s1)
    BY <1>2, <2>1 DEF PastExpiry
  <2>3. InGrace(p, now, s1)
    BY <2>2 DEF evaluateExpiry, Usable
  <2>4. InGrace(p, now, s2)
    BY <1>2, <2>1, <2>3 DEF InGrace
  <2> QED BY <2>2, <2>3, <2>4 DEF evaluateExpiry, Usable
<1> QED BY <1>1, <1>2

(***************************************************************************)
(* ValidationContext.ClockSkew and .Revocation: a caller that allows more  *)
(* skew, or knows of fewer revoked licenses, is refused nothing that a     *)
(* stricter one is granted, and sees no grace where that one sees none.    *)
(***************************************************************************)
THEOREM LenienceOnlyGrants ==
  ASSUME NEW p, NEW now \in Int, NEW strict, NEW lenient,
         HasTimes(p), Nil \notin Int, strict.skew \in Int, lenient.skew \in Int,
         SkewOf(strict) <= SkewOf(lenient), lenient.revoked \subseteq strict.revoked,
         lenient.product = strict.product, lenient.version = strict.version,
         lenient.device = strict.device, Usable(validate(p, now, strict))
  PROVE  /\ Usable(validate(p, now, lenient))
         /\ validate(p, now, strict) = "valid" => validate(p, now, lenient) = "valid"
<1> DEFINE before == ShutCodes(p, now, strict)
           codes == ShutCodes(p, now, lenient)
           s1 == SkewOf(strict)
           s2 == SkewOf(lenient)
<1>1. s1 \in Nat /\ s2 \in Nat /\ s1 <= s2
  BY SkewNatural
<1>2. /\ validateStatic(p) = "ok" /\ \A i \in 1..6 : before[i] = "ok"
      /\ Usable(evaluateExpiry(p, now, s1))
  BY UsableMeans
<1>3. p.issuedAt \in Int
  BY <1>2, StaticMeans DEF HasTimes
<1>4. codes[1] = "ok"
  <2>1. before[1] = "ok"
    BY <1>2
  <2> QED BY <1>1, <1>3, <2>1 DEF ShutCodes, validateIssuedAtGate, Gate
<1>5. codes[2] = "ok" /\ codes[3] = "ok" /\ codes[6] = "ok"
  <2>1. before[2] = "ok" /\ before[3] = "ok" /\ before[6] = "ok"
    BY <1>2
  <2> QED BY <2>1 DEF ShutCodes, validateRevocationGate, validateProductGate, Gate
<1>6. codes[4] = "ok"
  <2>1. before[4] = "ok"
    BY <1>2
  <2> QED BY <1>1, <2>1 DEF ShutCodes, validateNotBeforeGate, Gate, HasTimes
<1>7. codes[5] = "ok"
  <2>1. before[5] = "ok"
    BY <1>2
  <2> QED BY <1>1, <2>1, VersionLenient DEF ShutCodes
<1>8. \A i \in 1..6 : codes[i] = "ok"
  BY <1>4, <1>5, <1>6, <1>7
<1>9. /\ Usable(evaluateExpiry(p, now, s2))
      /\ evaluateExpiry(p, now, s1) = "valid" => evaluateExpiry(p, now, s2) = "valid"
  BY <1>1, <1>2, ExpiryLenient
<1>10. /\ validate(p, now, strict) = evaluateExpiry(p, now, s1)
       /\ validate(p, now, lenient) = evaluateExpiry(p, now, s2)
  <2>1. /\ DOMAIN before = 1..6 /\ DOMAIN codes = 1..6
        /\ Shut(p, now, strict) = FirstFailure(before)
        /\ Shut(p, now, lenient) = FirstFailure(codes)
    BY <1>2 DEF Shut, ShutCodes
  <2>2. FirstFailure(before) = "ok" /\ FirstFailure(codes) = "ok"
    BY <1>2, <1>8, <2>1, OneDecides DEF Checks
  <2> QED BY <2>1, <2>2 DEF validate
<1> QED BY <1>2, <1>8, <1>9, <1>10, UsableMeans

-----------------------------------------------------------------------------
(***************************************************************************)
(* The kill switches of a key answer with errors only.                     *)
(***************************************************************************)
LEMMA SwitchesFail == ASSUME NEW entry PROVE ~Usable(KillSwitches(entry))
<1> DEFINE codes == <<Gate(~entry.revoked, "key_revoked"),
                      Gate(entry.enabled, "key_disabled")>>
<1>1. ~Usable(codes[1]) /\ ~Usable(codes[2]) /\ DOMAIN codes = 1..2
  BY GateFails
<1>2. \A i \in 1..2 : ~Usable(codes[i])
  BY <1>1
<1> QED BY <1>1, <1>2, RowFails DEF Checks, KillSwitches

(***************************************************************************)
(* So does its validity window.                                            *)
(***************************************************************************)
LEMMA WindowFails == ASSUME NEW entry, NEW at PROVE ~Usable(Window(entry, at))
<1> DEFINE early == entry.notBefore # Nil => at # Nil /\ at >= entry.notBefore
           late == entry.notAfter # Nil /\ at # Nil => at <= entry.notAfter
           codes == <<Gate(early, "key_disabled"), Gate(late, "key_disabled")>>
<1>1. ~Usable(codes[1]) /\ ~Usable(codes[2]) /\ DOMAIN codes = 1..2
  BY GateFails
<1>2. \A i \in 1..2 : ~Usable(codes[i])
  BY <1>1
<1> QED BY <1>1, <1>2, RowFails DEF Checks, Window

(***************************************************************************)
(* So does its policy.                                                     *)
(***************************************************************************)
LEMMA PolicyFails ==
  ASSUME NEW entry, NEW at PROVE ~Usable(CheckKeyPolicy(entry, at))
<1> DEFINE codes == <<KillSwitches(entry), Window(entry, at)>>
<1>1. DOMAIN codes = 1..2 /\ \A i \in 1..2 : ~Usable(codes[i])
  BY SwitchesFail, WindowFails
<1> QED BY <1>1, RowFails DEF Checks, CheckKeyPolicy

(***************************************************************************)
(* So does looking it up.                                                  *)
(***************************************************************************)
LEMMA LookupFails ==
  ASSUME NEW keys, NEW id PROVE ~Usable(LookupPublicKey(keys, id))
BY SwitchesFail DEF LookupPublicKey, Usable

(***************************************************************************)
(* So does parsing an envelope.                                            *)
(***************************************************************************)
LEMMA ParseFails == ASSUME NEW d PROVE ~Usable(ParseEnvelope(d))
<1> DEFINE codes == <<Gate(d.form # "too_large", "file_too_large"),
                      Gate(d.form = "ok", "malformed")>>
<1>1. ~Usable(codes[1]) /\ ~Usable(codes[2]) /\ DOMAIN codes = 1..2
  BY GateFails
<1>2. \A i \in 1..2 : ~Usable(codes[i])
  BY <1>1
<1> QED BY <1>1, <1>2, RowFails DEF Checks, ParseEnvelope

VerifyCodes(entry, d) ==
    <<Gate(d.encoding, "malformed"),
      Gate(d.signed, "signature_invalid"),
      Gate(d.decodes, "malformed"),
      Gate(d.payload.keyId = d.keyId, "key_id_mismatch"),
      CheckKeyPolicy(entry, d.payload.issuedAt),
      Gate(d.canonical, "non_canonical_payload")>>

(***************************************************************************)
(* So does verifying one.                                                  *)
(***************************************************************************)
LEMMA VerifyFails == ASSUME NEW keys, NEW d PROVE ~Usable(Verify(keys, d))
<1> DEFINE codes == VerifyCodes(keys[d.keyId], d)
<1>1. /\ ~Usable(codes[1]) /\ ~Usable(codes[2]) /\ ~Usable(codes[3])
      /\ ~Usable(codes[4]) /\ ~Usable(codes[5]) /\ ~Usable(codes[6])
  BY GateFails, PolicyFails DEF VerifyCodes
<1>2. DOMAIN codes = 1..6 /\ \A i \in 1..6 : ~Usable(codes[i])
  BY <1>1 DEF VerifyCodes
<1>3. ~Usable(VerifyWith(keys[d.keyId], d))
  BY <1>2, RowFails DEF Checks, VerifyWith, VerifyCodes
<1> QED BY <1>3, LookupFails DEF Verify, Usable

(***************************************************************************)
(* A document verifies only if its signature holds, under a key of the     *)
(* ring that is not revoked.                                               *)
(***************************************************************************)
LEMMA VerifiedMeans ==
  ASSUME NEW keys, NEW d, Verify(keys, d) = "ok"
  PROVE  d.signed /\ d.keyId \in DOMAIN keys /\ ~keys[d.keyId].revoked
<1> DEFINE entry == keys[d.keyId]
           codes == VerifyCodes(entry, d)
           switches == <<Gate(~entry.revoked, "key_revoked"),
                         Gate(entry.enabled, "key_disabled")>>
<1>1. LookupPublicKey(keys, d.keyId) = "ok" /\ VerifyWith(entry, d) = "ok"
  BY DEF Verify
<1>2. d.signed
  <2>1. DOMAIN codes = 1..6 /\ FirstFailure(codes) = "ok"
    BY <1>1 DEF VerifyWith, VerifyCodes
  <2>2. codes[2] = "ok"
    BY <2>1, AllPass DEF Checks
  <2> QED BY <2>2 DEF Gate, VerifyCodes
<1>3. d.keyId \in DOMAIN keys /\ ~entry.revoked
  <2>1. /\ d.keyId \in DOMAIN keys
        /\ DOMAIN switches = 1..2 /\ FirstFailure(switches) = "ok"
    BY <1>1 DEF LookupPublicKey, KillSwitches
  <2>2. switches[1] = "ok"
    BY <2>1, AllPass DEF Checks
  <2> QED BY <2>1, <2>2 DEF Gate
<1> QED BY <1>2, <1>3

(***************************************************************************)
(* Verify: the chain of checks accepts a document exactly when it should.  *)
(* Its algorithm is supported, its key is in the ring and neither revoked  *)
(* nor disabled, its signature is that key's, what it carries is the       *)
(* canonical encoding of a payload of the same key, and the payload was    *)
(* issued in the window of the key.                                        *)
(***************************************************************************)
THEOREM VerifiedIsAuthentic ==
  ASSUME NEW keys, NEW d
  PROVE  Verify(keys, d) = "ok" <=>
            LET entry == keys[d.keyId]
                at == d.payload.issuedAt
            IN  /\ d.algorithm /\ d.encoding /\ d.signed /\ d.decodes /\ d.canonical
                /\ d.keyId \in DOMAIN keys /\ ~entry.revoked /\ entry.enabled
                /\ d.payload.keyId = d.keyId
                /\ entry.notBefore # Nil => at # Nil /\ at >= entry.notBefore
                /\ entry.notAfter # Nil /\ at # Nil => at <= entry.notAfter
<1> DEFINE entry == keys[d.keyId]
           at == d.payload.issuedAt
           codes == VerifyCodes(entry, d)
           switches == <<Gate(~entry.revoked, "key_revoked"),
                         Gate(entry.enabled, "key_disabled")>>
           begun == entry.notBefore # Nil => at # Nil /\ at >= entry.notBefore
           lasts == entry.notAfter # Nil /\ at # Nil => at <= entry.notAfter
           window == <<Gate(begun, "key_disabled"), Gate(lasts, "key_disabled")>>
           policy == <<KillSwitches(entry), Window(entry, at)>>
<1>1. ASSUME NEW row, NEW n \in Checks, DOMAIN row = 1..n
      PROVE  FirstFailure(row) = "ok" <=> \A i \in 1..n : row[i] = "ok"
  BY <1>1, AllPass, PassAll
<1>2. /\ DOMAIN switches = 1..2 /\ DOMAIN window = 1..2 /\ DOMAIN policy = 1..2
      /\ DOMAIN codes = 1..6 /\ 2 \in Checks /\ 6 \in Checks
  BY DEF VerifyCodes, Checks
<1>3. KillSwitches(entry) = "ok" <=> ~entry.revoked /\ entry.enabled
  <2>1. KillSwitches(entry) = "ok" <=> \A i \in 1..2 : switches[i] = "ok"
    BY <1>1, <1>2 DEF KillSwitches
  <2>2. /\ switches[1] = "ok" <=> ~entry.revoked
        /\ switches[2] = "ok" <=> entry.enabled
    BY DEF Gate
  <2> HIDE DEF switches
  <2> QED BY <2>1, <2>2
<1>4. Window(entry, at) = "ok" <=> begun /\ lasts
  <2>1. Window(entry, at) = "ok" <=> \A i \in 1..2 : window[i] = "ok"
    BY <1>1, <1>2 DEF Window
  <2>2. (window[1] = "ok" <=> begun) /\ (window[2] = "ok" <=> lasts)
    BY DEF Gate
  <2> HIDE DEF window, begun, lasts
  <2> QED BY <2>1, <2>2
<1>5. CheckKeyPolicy(entry, at) = "ok" <=>
         KillSwitches(entry) = "ok" /\ Window(entry, at) = "ok"
  <2>1. CheckKeyPolicy(entry, at) = "ok" <=> \A i \in 1..2 : policy[i] = "ok"
    BY <1>1, <1>2 DEF CheckKeyPolicy
  <2>2. policy[1] = KillSwitches(entry) /\ policy[2] = Window(entry, at)
    OBVIOUS
  <2> HIDE DEF policy
  <2> QED BY <2>1, <2>2
<1>6. VerifyWith(entry, d) = "ok" <=>
         /\ d.encoding /\ d.signed /\ d.decodes /\ d.payload.keyId = d.keyId
         /\ CheckKeyPolicy(entry, at) = "ok" /\ d.canonical
  <2>1. VerifyWith(entry, d) = "ok" <=> \A i \in 1..6 : codes[i] = "ok"
    BY <1>1, <1>2 DEF VerifyWith, VerifyCodes
  <2>2. /\ codes[1] = "ok" <=> d.encoding
        /\ codes[2] = "ok" <=> d.signed
        /\ codes[3] = "ok" <=> d.decodes
        /\ codes[4] = "ok" <=> d.payload.keyId = d.keyId
        /\ codes[5] = CheckKeyPolicy(entry, at)
        /\ codes[6] = "ok" <=> d.canonical
    BY DEF Gate, VerifyCodes
  <2> HIDE DEF codes
  <2>3. (\A i \in 1..6 : codes[i] = "ok") <=>
            /\ codes[1] = "ok" /\ codes[2] = "ok" /\ codes[3] = "ok"
            /\ codes[4] = "ok" /\ codes[5] = "ok" /\ codes[6] = "ok"
    OBVIOUS
  <2> QED BY <2>1, <2>2, <2>3
<1>7. Verify(keys, d) = "ok" <=>
         /\ d.algorithm /\ d.keyId \in DOMAIN keys
         /\ KillSwitches(entry) = "ok" /\ VerifyWith(entry, d) = "ok"
  BY DEF Verify, LookupPublicKey
<1> QED BY <1>3, <1>4, <1>5, <1>6, <1>7

(***************************************************************************)
(* Verify: what is not signed is not read.  Whether the bytes decode, what *)
(* they decode to and whether they are canonical make no difference to how *)
(* a document is refused whose signature does not hold.                    *)
(***************************************************************************)
THEOREM UnsignedIsNotRead ==
  ASSUME NEW keys, NEW d1, NEW d2,
         d1.algorithm = d2.algorithm, d1.keyId = d2.keyId,
         d1.encoding = d2.encoding, ~d1.signed, ~d2.signed
  PROVE  Verify(keys, d1) = Verify(keys, d2)
<1> DEFINE entry == keys[d1.keyId]
           row1 == VerifyCodes(entry, d1)
           row2 == VerifyCodes(entry, d2)
<1>1. /\ DOMAIN row1 = 1..6 /\ DOMAIN row2 = 1..6 /\ 6 \in Checks /\ 2 \in 1..6
      /\ row1[1] = row2[1] /\ row1[2] = row2[2] /\ row1[2] # "ok"
  BY DEF VerifyCodes, Gate, Checks
<1> HIDE DEF row1, row2
<1>2. \A i \in 1..2 : row1[i] = row2[i]
  BY <1>1
<1>3. FirstFailure(row1) = FirstFailure(row2)
  BY <1>1, <1>2, RestIsUnread
<1>4. VerifyWith(entry, d1) = VerifyWith(entry, d2)
  BY <1>3 DEF VerifyWith, VerifyCodes, row1, row2
<1> QED BY <1>4 DEF Verify

-----------------------------------------------------------------------------
(***************************************************************************)
(* A set of positions that is not empty has a first one.                   *)
(***************************************************************************)
LEMMA FirstPosition ==
  ASSUME NEW S \in SUBSET Nat, S # {}
  PROVE  Min(S) \in S /\ \A i \in S : Min(S) <= i
<1>1. PICK first \in S : \A i \in S : <<i, first>> \notin OpToRel(<, Nat)
  BY NatLessThanWellFounded, WFMin
<1>2. \A i \in S : first <= i
  <2> SUFFICES ASSUME NEW i \in S, i < first PROVE FALSE
    OBVIOUS
  <2> DEFINE pair == <<i, first>>
  <2>1. pair \in Nat \X Nat /\ pair[1] < pair[2]
    OBVIOUS
  <2> HIDE DEF pair
  <2>2. pair \in OpToRel(<, Nat)
    BY <2>1 DEF OpToRel
  <2> QED BY <1>1, <2>2 DEF pair
<1> QED BY <1>2 DEF Min

(***************************************************************************)
(* A series of comparisons results in the first that is not even, and if   *)
(* all are, in what decides otherwise.                                     *)
(***************************************************************************)
LEMMA FirstDifferenceIs ==
  ASSUME NEW results, DOMAIN results \subseteq Nat, NEW otherwise
  PROVE  \/ \E i \in DOMAIN results :
               /\ FirstDifference(results, otherwise) = results[i]
               /\ results[i] # 0
               /\ \A j \in DOMAIN results : j < i => results[j] = 0
         \/ /\ FirstDifference(results, otherwise) = otherwise
            /\ \A i \in DOMAIN results : results[i] = 0
<1> DEFINE differ == {i \in DOMAIN results : results[i] # 0}
<1>1. CASE differ = {}
  BY <1>1 DEF FirstDifference
<1>2. CASE differ # {}
  <2>1. Min(differ) \in differ /\ \A i \in differ : Min(differ) <= i
    BY <1>2, FirstPosition
  <2>2. FirstDifference(results, otherwise) = results[Min(differ)]
    BY <1>2 DEF FirstDifference
  <2>3. \A j \in DOMAIN results : j < Min(differ) => results[j] = 0
    BY <2>1
  <2> QED BY <2>1, <2>2, <2>3
<1> QED BY <1>1, <1>2

(***************************************************************************)
(* A series of comparisons goes one way (s) or is even if and only if the  *)
(* first of them that is not even goes that way, or all are even and what  *)
(* decides otherwise goes that way.                                        *)
(***************************************************************************)
LEMMA FirstDecides ==
  ASSUME NEW results, DOMAIN results \subseteq Nat, NEW otherwise, NEW s \in {-1, 1}
  PROVE  FirstDifference(results, otherwise) \in {0, s} <=>
           \/ \E i \in DOMAIN results :
                 /\ results[i] = s
                 /\ \A j \in DOMAIN results : j < i => results[j] = 0
           \/ (\A i \in DOMAIN results : results[i] = 0) /\ otherwise \in {0, s}
<1> DEFINE differ == {i \in DOMAIN results : results[i] # 0}
<1>1. CASE differ = {}
  BY <1>1 DEF FirstDifference
<1>2. CASE differ # {}
  <2>1. Min(differ) \in differ /\ \A i \in differ : Min(differ) <= i
    BY <1>2, FirstPosition
  <2>2. FirstDifference(results, otherwise) = results[Min(differ)]
    BY <1>2 DEF FirstDifference
  <2>3. ASSUME NEW i \in DOMAIN results, results[i] = s,
               \A j \in DOMAIN results : j < i => results[j] = 0
        PROVE  Min(differ) = i
    BY <2>1, <2>3
  <2>4. \A j \in DOMAIN results : j < Min(differ) => results[j] = 0
    BY <2>1
  <2> QED BY <2>1, <2>2, <2>3, <2>4
<1> QED BY <1>1, <1>2

(***************************************************************************)
(* Of two lengths the first is as far as s asks.                           *)
(***************************************************************************)
Reaches(la, lb, s) == IF s = -1 THEN la <= lb ELSE la >= lb

(***************************************************************************)
(* Three sequences of lengths la, lb and lc are compared element by        *)
(* element, with the results ab, bc and ac: the comparison of elements is  *)
(* transitive.  And so is what decides otherwise, which looks at lengths.  *)
(***************************************************************************)
ElementsAgree(s, la, lb, lc, ab, bc, ac) ==
    /\ DOMAIN ab = 1..la \cap 1..lb
    /\ DOMAIN bc = 1..lb \cap 1..lc
    /\ DOMAIN ac = 1..la \cap 1..lc
    /\ \A i \in 1..la \cap 1..lb \cap 1..lc :
          /\ ab[i] = 0 /\ bc[i] = 0 => ac[i] = 0
          /\ ab[i] = s /\ bc[i] \in {0, s} => ac[i] = s
          /\ ab[i] = 0 /\ bc[i] = s => ac[i] = s

LengthsAgree(s, la, lb, lc, x, y, z) ==
    /\ x \in {0, s} => Reaches(la, lb, s)
    /\ y \in {0, s} => Reaches(lb, lc, s)
    /\ Reaches(la, lc, s) /\ la # lc => z \in {0, s}
    /\ x \in {0, s} /\ y \in {0, s} => z \in {0, s}

(***************************************************************************)
(* Then the comparison of the sequences is transitive.                     *)
(***************************************************************************)
LEMMA LexicographicOrder ==
  ASSUME NEW s \in {-1, 1}, NEW la \in Nat, NEW lb \in Nat, NEW lc \in Nat,
         NEW ab, NEW bc, NEW ac, ElementsAgree(s, la, lb, lc, ab, bc, ac),
         NEW x, NEW y, NEW z, LengthsAgree(s, la, lb, lc, x, y, z),
         FirstDifference(ab, x) \in {0, s}, FirstDifference(bc, y) \in {0, s}
  PROVE  FirstDifference(ac, z) \in {0, s}
<1> USE DEF ElementsAgree, LengthsAgree
<1> DEFINE EvenBelow(r, i) == \A j \in DOMAIN r : j < i => r[j] = 0
           Turns(r, i) == i \in DOMAIN r /\ r[i] = s /\ EvenBelow(r, i)
           Even(r) == \A j \in DOMAIN r : r[j] = 0
<1>1. (\E i \in Nat : Turns(ab, i)) \/ (Even(ab) /\ x \in {0, s})
  BY FirstDecides
<1>2. (\E i \in Nat : Turns(bc, i)) \/ (Even(bc) /\ y \in {0, s})
  BY FirstDecides
<1>3. (\E i \in Nat : Turns(ac, i)) \/ (Even(ac) /\ z \in {0, s})
  <2>1. ASSUME NEW i \in Nat, Turns(ab, i), NEW j \in Nat, Turns(bc, j)
        PROVE  \E k \in Nat : Turns(ac, k)
    <3>1. CASE i <= j
      BY <2>1, <3>1
    <3>2. CASE j < i
      BY <2>1, <3>2
    <3> QED BY <3>1, <3>2
  <2>2. ASSUME NEW i \in Nat, Turns(ab, i), Even(bc), y \in {0, s}
        PROVE  (\E k \in Nat : Turns(ac, k)) \/ (Even(ac) /\ z \in {0, s})
    <3>1. CASE i <= lc
      BY <2>2, <3>1
    <3>2. CASE lc < i
      <4>1. Even(ac)
        BY <2>2, <3>2
      <4>2. Reaches(la, lc, s) /\ la # lc
        BY <2>2, <3>2 DEF Reaches
      <4> QED BY <4>1, <4>2
    <3> QED BY <3>1, <3>2
  <2>3. ASSUME Even(ab), x \in {0, s}, NEW j \in Nat, Turns(bc, j)
        PROVE  (\E k \in Nat : Turns(ac, k)) \/ (Even(ac) /\ z \in {0, s})
    <3>1. CASE j <= la
      BY <2>3, <3>1
    <3>2. CASE la < j
      <4>1. Even(ac)
        BY <2>3, <3>2
      <4>2. Reaches(la, lc, s) /\ la # lc
        BY <2>3, <3>2 DEF Reaches
      <4> QED BY <4>1, <4>2
    <3> QED BY <3>1, <3>2
  <2>4. ASSUME Even(ab), x \in {0, s}, Even(bc), y \in {0, s}
        PROVE  Even(ac) /\ z \in {0, s}
    BY <2>4 DEF Reaches
  <2> QED BY <1>1, <1>2, <2>1, <2>2, <2>3, <2>4
<1>4. DOMAIN ac \subseteq Nat
  OBVIOUS
<1> QED BY <1>3, <1>4, FirstDecides

(***************************************************************************)
(* The comparison of numbers is transitive.                                *)
(***************************************************************************)
LEMMA NumbersOrder ==
  ASSUME NEW s \in {-1, 1}, NEW a \in Int, NEW b \in Int, NEW c \in Int
  PROVE  /\ cmpUint(a, b) = 0 /\ cmpUint(b, c) = 0 => cmpUint(a, c) = 0
         /\ cmpUint(a, b) = s /\ cmpUint(b, c) \in {0, s} => cmpUint(a, c) = s
         /\ cmpUint(a, b) = 0 /\ cmpUint(b, c) = s => cmpUint(a, c) = s
BY DEF cmpUint

(***************************************************************************)
(* So is that of prerelease identifiers, also where a number beyond uint64 *)
(* counts as the largest.                                                  *)
(***************************************************************************)
LEMMA IdentifiersOrder ==
  ASSUME NEW s \in {-1, 1}, NEW a \in Identifiers, NEW b \in Identifiers,
         NEW c \in Identifiers
  PROVE  /\ comparePrereleaseID(a, b) = 0 /\ comparePrereleaseID(b, c) = 0
              => comparePrereleaseID(a, c) = 0
         /\ comparePrereleaseID(a, b) = s /\ comparePrereleaseID(b, c) \in {0, s}
              => comparePrereleaseID(a, c) = s
         /\ comparePrereleaseID(a, b) = 0 /\ comparePrereleaseID(b, c) = s
              => comparePrereleaseID(a, c) = s
<1> DEFINE held(i) == ParseUint(i.value)
<1>1. /\ a.digits \in BOOLEAN /\ b.digits \in BOOLEAN /\ c.digits \in BOOLEAN
      /\ a.value \in Int /\ b.value \in Int /\ c.value \in Int
  BY DEF Identifiers
<1>2. held(a) \in Int /\ held(b) \in Int /\ held(c) \in Int
  BY <1>1, SemVerConstants DEF ParseUint
<1>3. \A i, j : (i.digits \in BOOLEAN /\ j.digits \in BOOLEAN) =>
        comparePrereleaseID(i, j) =
          IF i.digits THEN IF j.digits THEN cmpUint(held(i), held(j)) ELSE -1
          ELSE IF j.digits THEN 1 ELSE cmpUint(i.value, j.value)
  BY DEF comparePrereleaseID
<1> DEFINE F(i, j) ==
          IF i.digits THEN IF j.digits THEN cmpUint(held(i), held(j)) ELSE -1
          ELSE IF j.digits THEN 1 ELSE cmpUint(i.value, j.value)
<1>4. /\ comparePrereleaseID(a, b) = F(a, b) /\ comparePrereleaseID(b, c) = F(b, c)
      /\ comparePrereleaseID(a, c) = F(a, c)
  BY <1>1, <1>3
<1> HIDE DEF held
<1>5. CASE a.digits = b.digits /\ b.digits = c.digits
  <2>1. CASE a.digits
    BY <1>2, <1>4, <1>5, <2>1, NumbersOrder
  <2>2. CASE ~a.digits
    BY <1>1, <1>4, <1>5, <2>2, NumbersOrder
  <2> QED BY <2>1, <2>2
<1>6. CASE ~(a.digits = b.digits /\ b.digits = c.digits)
  BY <1>1, <1>2, <1>4, <1>6 DEF cmpUint
<1> QED BY <1>5, <1>6

(***************************************************************************)
(* So is that of prereleases: a release comes after all of them.           *)
(***************************************************************************)
LEMMA PrereleasesOrder ==
  ASSUME NEW s \in {-1, 1}, NEW a \in Seq(Identifiers), NEW b \in Seq(Identifiers),
         NEW c \in Seq(Identifiers),
         comparePrerelease(a, b) \in {0, s}, comparePrerelease(b, c) \in {0, s}
  PROVE  comparePrerelease(a, c) \in {0, s}
<1>1. CASE a = <<>> \/ b = <<>> \/ c = <<>>
  BY <1>1 DEF comparePrerelease
<1>2. CASE a # <<>> /\ b # <<>> /\ c # <<>>
  <2> DEFINE ab == Pairwise(a, b)
             bc == Pairwise(b, c)
             ac == Pairwise(a, c)
             x == cmpUint(Len(a), Len(b))
             y == cmpUint(Len(b), Len(c))
             z == cmpUint(Len(a), Len(c))
  <2>1. /\ FirstDifference(ab, x) \in {0, s} /\ FirstDifference(bc, y) \in {0, s}
        /\ comparePrerelease(a, c) = FirstDifference(ac, z)
    BY <1>2 DEF comparePrerelease
  <2>2. /\ Len(a) \in Nat /\ Len(b) \in Nat /\ Len(c) \in Nat
        /\ DOMAIN a = 1..Len(a) /\ DOMAIN b = 1..Len(b) /\ DOMAIN c = 1..Len(c)
    OBVIOUS
  <2>3. /\ DOMAIN ab = 1..Len(a) \cap 1..Len(b)
        /\ DOMAIN bc = 1..Len(b) \cap 1..Len(c)
        /\ DOMAIN ac = 1..Len(a) \cap 1..Len(c)
    BY <2>2 DEF Pairwise
  <2>4. \A i \in 1..Len(a) \cap 1..Len(b) \cap 1..Len(c) :
          /\ ab[i] = 0 /\ bc[i] = 0 => ac[i] = 0
          /\ ab[i] = s /\ bc[i] \in {0, s} => ac[i] = s
          /\ ab[i] = 0 /\ bc[i] = s => ac[i] = s
    <3> SUFFICES ASSUME NEW i \in 1..Len(a) \cap 1..Len(b) \cap 1..Len(c)
                 PROVE  /\ ab[i] = 0 /\ bc[i] = 0 => ac[i] = 0
                        /\ ab[i] = s /\ bc[i] \in {0, s} => ac[i] = s
                        /\ ab[i] = 0 /\ bc[i] = s => ac[i] = s
      OBVIOUS
    <3>1. /\ ab[i] = comparePrereleaseID(a[i], b[i])
          /\ bc[i] = comparePrereleaseID(b[i], c[i])
          /\ ac[i] = comparePrereleaseID(a[i], c[i])
      BY <2>2 DEF Pairwise
    <3>2. a[i] \in Identifiers /\ b[i] \in Identifiers /\ c[i] \in Identifiers
      OBVIOUS
    <3> HIDE DEF ab, bc, ac
    <3> QED BY <3>1, <3>2, IdentifiersOrder
  <2>5. /\ x \in {0, s} => Reaches(Len(a), Len(b), s)
        /\ y \in {0, s} => Reaches(Len(b), Len(c), s)
        /\ Reaches(Len(a), Len(c), s) => z \in {0, s}
        /\ x \in {0, s} /\ y \in {0, s} => z \in {0, s}
    BY <2>2 DEF cmpUint, Reaches
  <2> HIDE DEF ab, bc, ac, x, y, z
  <2>6. /\ ElementsAgree(s, Len(a), Len(b), Len(c), ab, bc, ac)
        /\ LengthsAgree(s, Len(a), Len(b), Len(c), x, y, z)
    BY <2>3, <2>4, <2>5 DEF ElementsAgree, LengthsAgree
  <2>7. FirstDifference(ac, z) \in {0, s}
    BY <2>1, <2>2, <2>6, LexicographicOrder
  <2> QED BY <2>1, <2>7
<1> QED BY <1>1, <1>2

(***************************************************************************)
(* What a version that parses is made of.                                  *)
(***************************************************************************)
LEMMA ParsedParts ==
  ASSUME NEW v \in Versions, Parses(v)
  PROVE  /\ \A i \in 1..3 : parseVersion(v).core[i] \in Int
         /\ parseVersion(v).prerelease \in Seq(Identifiers)
<1>1. v.core \in Seq(Numerals) /\ Len(v.core) = 3
  BY DEF Versions, Parses
<1>2. \A i \in 1..3 : v.core[i] \in Numerals
  BY <1>1
<1>3. \A i \in 1..3 : v.core[i].value \in Int
  BY <1>2 DEF Numerals
<1>4. <<>> \in Seq(Identifiers)
  OBVIOUS
<1>5. v.pre \in Seq(Identifiers) \cup {Nil}
  BY DEF Versions
<1> QED BY <1>3, <1>4, <1>5 DEF parseVersion

(***************************************************************************)
(* The code's comparison of version strings is transitive in both          *)
(* directions, for numbers of any size.                                    *)
(***************************************************************************)
THEOREM VersionsOrder ==
  ASSUME NEW s \in {-1, 1}, NEW a \in Versions, NEW b \in Versions,
         NEW c \in Versions, Nil \notin Int,
         compareVersionsStrict(a, b) \in {0, s},
         compareVersionsStrict(b, c) \in {0, s}
  PROVE  compareVersionsStrict(a, c) \in {0, s}
<1> DEFINE va == parseVersion(a)
           vb == parseVersion(b)
           vc == parseVersion(c)
           cores(v, w) == [i \in 1..3 |-> cmpUint(v.core[i], w.core[i])]
           ab == cores(va, vb)
           bc == cores(vb, vc)
           ac == cores(va, vc)
           x == comparePrerelease(va.prerelease, vb.prerelease)
           y == comparePrerelease(vb.prerelease, vc.prerelease)
           z == comparePrerelease(va.prerelease, vc.prerelease)
<1>1. Nil \notin {0, s}
  OBVIOUS
<1>2. Parses(a) /\ Parses(b) /\ Parses(c)
  BY <1>1 DEF compareVersionsStrict
<1>3. /\ FirstDifference(ab, x) \in {0, s} /\ FirstDifference(bc, y) \in {0, s}
      /\ compareVersionsStrict(a, c) = FirstDifference(ac, z)
  BY <1>2 DEF compareVersionsStrict, compare
<1>4. /\ \A i \in 1..3 : va.core[i] \in Int /\ vb.core[i] \in Int /\ vc.core[i] \in Int
      /\ va.prerelease \in Seq(Identifiers) /\ vb.prerelease \in Seq(Identifiers)
      /\ vc.prerelease \in Seq(Identifiers)
  BY <1>2, ParsedParts
<1> HIDE DEF va, vb, vc
<1>5. x \in {0, s} /\ y \in {0, s} => z \in {0, s}
  BY <1>4, PrereleasesOrder
<1>6. \A i \in 1..3 :
        /\ ab[i] = 0 /\ bc[i] = 0 => ac[i] = 0
        /\ ab[i] = s /\ bc[i] \in {0, s} => ac[i] = s
        /\ ab[i] = 0 /\ bc[i] = s => ac[i] = s
  <2> SUFFICES ASSUME NEW i \in 1..3
               PROVE  /\ ab[i] = 0 /\ bc[i] = 0 => ac[i] = 0
                      /\ ab[i] = s /\ bc[i] \in {0, s} => ac[i] = s
                      /\ ab[i] = 0 /\ bc[i] = s => ac[i] = s
    OBVIOUS
  <2> DEFINE m == va.core[i]
             n == vb.core[i]
             o == vc.core[i]
  <2>1. /\ ab[i] = cmpUint(m, n) /\ bc[i] = cmpUint(n, o) /\ ac[i] = cmpUint(m, o)
        /\ m \in Int /\ n \in Int /\ o \in Int
    BY <1>4
  <2> HIDE DEF cores, ab, bc, ac, m, n, o
  <2> QED BY <2>1, NumbersOrder
<1>7. DOMAIN ab = 1..3 /\ DOMAIN bc = 1..3 /\ DOMAIN ac = 1..3
  OBVIOUS
<1>8. 3 \in Nat /\ Reaches(3, 3, s)
  BY DEF Reaches
<1> HIDE DEF cores, ab, bc, ac, x, y, z
<1>9. FirstDifference(ac, z) \in {0, s}
  <2>1. PICK n \in Nat : n = 3
    BY <1>8
  <2>2. ElementsAgree(s, n, n, n, ab, bc, ac)
    BY <1>6, <1>7, <2>1 DEF ElementsAgree
  <2>3. LengthsAgree(s, n, n, n, x, y, z)
    BY <1>5, <1>8, <2>1 DEF LengthsAgree
  <2> QED BY <1>3, <2>2, <2>3, LexicographicOrder
<1> QED BY <1>3, <1>9

(***************************************************************************)
(* If every comparison of a series is turned round, so is its result.      *)
(***************************************************************************)
Signs == {-1, 0, 1}

LEMMA Reversed ==
  ASSUME NEW there, NEW back, DOMAIN there \subseteq Nat, DOMAIN back = DOMAIN there,
         \A i \in DOMAIN there : there[i] \in Signs /\ back[i] = -there[i],
         NEW x \in Signs, NEW y, y = -x
  PROVE  /\ FirstDifference(there, x) \in Signs
         /\ FirstDifference(back, y) = -FirstDifference(there, x)
<1> DEFINE differ == {i \in DOMAIN there : there[i] # 0}
<1>1. differ = {i \in DOMAIN back : back[i] # 0}
  BY DEF Signs
<1>2. CASE differ = {}
  BY <1>1, <1>2 DEF FirstDifference
<1>3. CASE differ # {}
  <2>1. Min(differ) \in differ
    BY <1>3, FirstPosition
  <2>2. /\ FirstDifference(there, x) = there[Min(differ)]
        /\ FirstDifference(back, y) = back[Min(differ)]
    BY <1>1, <1>3 DEF FirstDifference
  <2> QED BY <2>1, <2>2
<1> QED BY <1>2, <1>3

(***************************************************************************)
(* Identifiers and prereleases the other way round compare the other way   *)
(* round.                                                                  *)
(***************************************************************************)
LEMMA IdentifiersReversed ==
  ASSUME NEW a \in Identifiers, NEW b \in Identifiers
  PROVE  /\ comparePrereleaseID(a, b) \in Signs
         /\ comparePrereleaseID(b, a) = -comparePrereleaseID(a, b)
<1>1. /\ a.digits \in BOOLEAN /\ a.value \in Nat /\ ParseUint(a.value) \in Nat
      /\ b.digits \in BOOLEAN /\ b.value \in Nat /\ ParseUint(b.value) \in Nat
  BY SemVerConstants DEF Identifiers, ParseUint
<1>2. \A m, n \in Nat : cmpUint(m, n) \in Signs /\ cmpUint(n, m) = -cmpUint(m, n)
  BY DEF cmpUint, Signs
<1>3. CASE a.digits = b.digits
  BY <1>1, <1>2, <1>3 DEF comparePrereleaseID
<1>4. CASE a.digits # b.digits
  BY <1>1, <1>4 DEF comparePrereleaseID, Signs
<1> QED BY <1>3, <1>4

(***************************************************************************)
(* comparePrerelease the other way round: the release takes the place of   *)
(* the prerelease, and every pair of identifiers its opposite.             *)
(***************************************************************************)
LEMMA PrereleasesReversed ==
  ASSUME NEW a \in Seq(Identifiers), NEW b \in Seq(Identifiers)
  PROVE  /\ comparePrerelease(a, b) \in Signs
         /\ comparePrerelease(b, a) = -comparePrerelease(a, b)
<1>1. CASE a = <<>> \/ b = <<>>
  BY <1>1 DEF comparePrerelease, Signs
<1>2. CASE a # <<>> /\ b # <<>>
  <2> DEFINE there == Pairwise(a, b)
             back == Pairwise(b, a)
             x == cmpUint(Len(a), Len(b))
             y == cmpUint(Len(b), Len(a))
  <2>1. x \in Signs /\ y = -x
    BY DEF cmpUint, Signs
  <2>2. /\ comparePrerelease(a, b) = FirstDifference(there, x)
        /\ comparePrerelease(b, a) = FirstDifference(back, y)
    BY <1>2 DEF comparePrerelease
  <2>3. DOMAIN there \subseteq Nat /\ DOMAIN back = DOMAIN there
    BY DEF Pairwise
  <2>4. ASSUME NEW i \in DOMAIN there
        PROVE  there[i] \in Signs /\ back[i] = -there[i]
    <3>1. /\ there[i] = comparePrereleaseID(a[i], b[i])
          /\ back[i] = comparePrereleaseID(b[i], a[i])
          /\ a[i] \in Identifiers /\ b[i] \in Identifiers
      BY DEF Pairwise
    <3> QED BY <3>1, IdentifiersReversed
  <2> HIDE DEF there, back, x, y
  <2> QED BY <2>1, <2>2, <2>3, <2>4, Reversed
<1> QED BY <1>1, <1>2

(***************************************************************************)
(* Any two versions that parse are comparable, and the other way round the *)
(* comparison has the opposite result: with VersionsOrder it is a total    *)
(* preorder, also where numbers are beyond a uint64.                       *)
(***************************************************************************)
THEOREM VersionsReversed ==
  ASSUME NEW a \in Versions, NEW b \in Versions, Parses(a), Parses(b)
  PROVE  /\ compareVersionsStrict(a, b) \in Signs
         /\ compareVersionsStrict(b, a) = -compareVersionsStrict(a, b)
<1> DEFINE va == parseVersion(a)
           vb == parseVersion(b)
           there == [i \in 1..3 |-> cmpUint(va.core[i], vb.core[i])]
           back == [i \in 1..3 |-> cmpUint(vb.core[i], va.core[i])]
           x == comparePrerelease(va.prerelease, vb.prerelease)
           y == comparePrerelease(vb.prerelease, va.prerelease)
<1>1. /\ compareVersionsStrict(a, b) = FirstDifference(there, x)
      /\ compareVersionsStrict(b, a) = FirstDifference(back, y)
  BY DEF compareVersionsStrict, compare
<1>2. x \in Signs /\ y = -x
  BY ParsedParts, PrereleasesReversed
<1>3. DOMAIN there \subseteq Nat /\ DOMAIN back = DOMAIN there
  OBVIOUS
<1>4. \A i \in DOMAIN there : there[i] \in Signs /\ back[i] = -there[i]
  <2>1. \A i \in 1..3 : va.core[i] \in Int /\ vb.core[i] \in Int
    BY ParsedParts
  <2> HIDE DEF va, vb
  <2> QED BY <2>1 DEF cmpUint, Signs
<1> HIDE DEF there, back, x, y
<1> QED BY <1>1, <1>2, <1>3, <1>4, Reversed
=============================================================================
