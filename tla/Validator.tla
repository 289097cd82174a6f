----------------------------- MODULE Validator ------------------------------
(***************************************************************************)
(* pkg/license/validator.go and the value checks of model.go: the policy   *)
(* decision about an authentic payload, a pure function of the payload,    *)
(* the trusted time and the caller's context.                              *)
(*                                                                         *)
(* A payload is a record                                                   *)
(*   schema, licenseId, productId, keyId, edition (a known one or not),    *)
(*   licenseType, mode, deviceIds (a sequence of ids of Fingerprint.tla),  *)
(*   capped (features, limits, ids, metadata within caps), limitsInRange,  *)
(*   compact (its envelope is within the size of a license file),          *)
(*   issuedAt, notBefore, expiresAt, graceDays, minVersion, maxVersion,    *)
(*   maintenanceUntil, coveredMaxVersion                                   *)
(* and a context [product, version, device, revoked, skew], where revoked  *)
(* is the set of license ids the revocation provider knows.  Versions are  *)
(* the version strings of SemVer.tla.                                      *)
(***************************************************************************)
EXTENDS SemVer, Fingerprint

CONSTANTS
    Day,              \* 24 hours, in ticks of the clock
    DefaultClockSkew

ASSUME ValidatorConstants ==
    /\ Day \in Nat \ {0}
    /\ DefaultClockSkew \in Nat

SchemaVersion == 2
MaxGraceDays == 3650
LicenseTypes == {"trial", "subscription", "lifetime"}
DeviceModes == {"none", "single", "multi"}

(***************************************************************************)
(* The types of model.go: every time is an instant or zero.                *)
(***************************************************************************)
HasTimes(p) ==
    /\ \A at \in {p.issuedAt, p.notBefore, p.expiresAt, p.maintenanceUntil} :
          at \in Int \cup {Nil}
    /\ p.graceDays \in Int

-----------------------------------------------------------------------------
(***************************************************************************)
(* model.go: checks that need no time, device or product.                  *)
(***************************************************************************)
validateIdentity(p) ==
    FirstFailure(<<Gate(p.schema = SchemaVersion, "unsupported_schema"),
                   Gate(Nil \notin {p.licenseId, p.productId, p.keyId}, "malformed"),
                   Gate(p.issuedAt # Nil, "malformed")>>)

DeviceCountFitsMode(p) ==
    CASE p.mode = "none"   -> Len(p.deviceIds) = 0
      [] p.mode = "single" -> Len(p.deviceIds) = 1
      [] p.mode = "multi"  -> Len(p.deviceIds) > 0

validateEnums(p) ==
    IF p.edition /\ p.licenseType \in LicenseTypes /\ p.mode \in DeviceModes
    THEN Gate(DeviceCountFitsMode(p), "malformed")
    ELSE "invalid_enum"

validateCaps(p) ==
    Gate(p.graceDays \in 0..MaxGraceDays /\ p.capped, "invalid_limits")

validateDeviceIDFormat(p) ==
    Gate(p.mode \in {"single", "multi"} =>
            \A i \in DOMAIN p.deviceIds : Parse(p.deviceIds[i]) = "ok", "malformed")

validateLimitsRange(p) == Gate(p.limitsInRange, "invalid_limits")

(***************************************************************************)
(* a <= b, where either may be absent.                                     *)
(***************************************************************************)
InOrder(a, b) == a # Nil /\ b # Nil => a <= b

validateTimeSemantics(p) ==
    Gate(/\ InOrder(p.notBefore, p.expiresAt)
         /\ p.licenseType \in {"trial", "subscription"} => p.expiresAt # Nil
         /\ p.licenseType = "lifetime" => p.expiresAt = Nil
         /\ InOrder(p.issuedAt, p.expiresAt)
         /\ InOrder(p.issuedAt, p.notBefore), "malformed")

validateStatic(p) ==
    FirstFailure(<<validateIdentity(p), validateEnums(p), validateCaps(p),
                   validateDeviceIDFormat(p), validateLimitsRange(p),
                   validateTimeSemantics(p)>>)

-----------------------------------------------------------------------------
(***************************************************************************)
(* validator.go: the gates, in the order of validate.                      *)
(***************************************************************************)
SkewOf(ctx) == IF ctx.skew > 0 THEN ctx.skew ELSE DefaultClockSkew

validateIssuedAtGate(p, now, skew) ==
    Gate(p.issuedAt <= now + skew, "not_yet_valid")

validateRevocationGate(p, ctx) ==
    Gate(p.licenseId \notin ctx.revoked, "revoked")

validateProductGate(p, ctx) ==
    Gate(ctx.product # Nil => p.productId = ctx.product, "product_mismatch")

\* Mutation of validateNotBeforeGate: the skew with the wrong sign.
NotBeforeLate(p, now, skew) ==
    Gate(p.notBefore # Nil => now - skew >= p.notBefore, "not_yet_valid")

validateNotBeforeGate(p, now, skew) ==
    Gate(p.notBefore # Nil => now + skew >= p.notBefore, "not_yet_valid")

AtLeast(v, bound) == compareVersionsStrict(v, bound) \in {0, 1}
AtMost(v, bound) == compareVersionsStrict(v, bound) \in {-1, 0}

HasVersionConstraint(p) ==
    \/ p.minVersion # Nil \/ p.maxVersion # Nil
    \/ p.maintenanceUntil # Nil \/ p.coveredMaxVersion # Nil

checkVersionBounds(p, version) ==
    Gate(/\ p.minVersion # Nil => AtLeast(version, p.minVersion)
         /\ p.maxVersion # Nil => AtMost(version, p.maxVersion),
         "version_unsupported")

MaintenanceLapsed(p, now, skew) ==
    p.maintenanceUntil # Nil /\ now - skew > p.maintenanceUntil

(***************************************************************************)
(* The newest covered version: explicit, or MinVersion in older licenses.  *)
(***************************************************************************)
CoveredCeiling(p) ==
    IF p.coveredMaxVersion # Nil THEN p.coveredMaxVersion ELSE p.minVersion

\* Mutation of checkMaintenanceCeiling: the covered version itself is not covered.
BelowCeilingOnly(p, version, now, skew) ==
    Gate(MaintenanceLapsed(p, now, skew) /\ CoveredCeiling(p) # Nil
            => AtMost(version, CoveredCeiling(p)) /\ version # CoveredCeiling(p),
         "version_unsupported")

checkMaintenanceCeiling(p, version, now, skew) ==
    Gate(MaintenanceLapsed(p, now, skew) /\ CoveredCeiling(p) # Nil
            => AtMost(version, CoveredCeiling(p)),
         "version_unsupported")

checkVersion(p, version, now, skew) ==
    IF ~HasVersionConstraint(p) THEN "ok"
    ELSE IF version = Nil THEN "version_unsupported"
    ELSE FirstFailure(<<checkVersionBounds(p, version),
                        checkMaintenanceCeiling(p, version, now, skew)>>)

checkDevice(p, device) ==
    Gate(p.mode # "none" =>
            device # Nil /\ \E i \in DOMAIN p.deviceIds : p.deviceIds[i] = device,
         "device_mismatch")

-----------------------------------------------------------------------------
(***************************************************************************)
(* Expiry and grace.                                                       *)
(***************************************************************************)
Expires(p) == p.licenseType # "lifetime" /\ p.expiresAt # Nil

GraceEnd(p) == p.expiresAt + p.graceDays * Day

PastExpiry(p, now, skew) == Expires(p) /\ now - skew > p.expiresAt

(***************************************************************************)
(* The graceUntil of a result; Nil when the license has no grace period.   *)
(* (A result past expiry carries one even for a grace period of 0 days,    *)
(* but that result is an error and is dropped by validate.)                *)
(***************************************************************************)
GraceUntil(p) == IF Expires(p) /\ p.graceDays > 0 THEN GraceEnd(p) ELSE Nil

InGrace(p, now, skew) ==
    PastExpiry(p, now, skew) /\ p.graceDays > 0 /\ now - skew <= GraceEnd(p)

\* Mutation of evaluateExpiry: the skew is applied to grace and not to expiry.
ExpiryWithoutSkew(p, now, skew) ==
    IF ~PastExpiry(p, now, 0) THEN "valid"
    ELSE IF InGrace(p, now, skew) THEN "grace"
    ELSE "expired"

\* Mutation of evaluateExpiry: grace is reported from the start.
GraceFromTheStart(p, now, skew) ==
    IF GraceUntil(p) # Nil /\ now - skew <= GraceEnd(p) THEN "grace"
    ELSE IF PastExpiry(p, now, skew) THEN "expired" ELSE "valid"

evaluateExpiry(p, now, skew) ==
    IF ~PastExpiry(p, now, skew) THEN "valid"
    ELSE IF InGrace(p, now, skew) THEN "grace"
    ELSE "expired"

(***************************************************************************)
(* validate: "valid", "grace", or the code of the first gate that fails.   *)
(***************************************************************************)
Shut(p, now, ctx) ==
    LET static == validateStatic(p) IN
    IF static # "ok" THEN static
    ELSE FirstFailure(<<
           validateIssuedAtGate(p, now, SkewOf(ctx)),
           validateRevocationGate(p, ctx),
           validateProductGate(p, ctx),
           validateNotBeforeGate(p, now, SkewOf(ctx)),
           checkVersion(p, ctx.version, now, SkewOf(ctx)),
           checkDevice(p, ctx.device)>>)

validate(p, now, ctx) ==
    LET code == Shut(p, now, ctx) IN
    IF code = "ok" THEN evaluateExpiry(p, now, SkewOf(ctx)) ELSE code

Usable(decision) == decision \in {"valid", "grace"}
=============================================================================
