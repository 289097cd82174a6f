------------------------------ MODULE Results -------------------------------
(***************************************************************************)
(* pkg/license/result.go: the read-only result of a validation, and the    *)
(* time that callers read off it.                                          *)
(***************************************************************************)
EXTENDS Validator

PerpetualRemainingDays == -1

(***************************************************************************)
(* A refusal carries its code and nothing of the license.                  *)
(***************************************************************************)
invalidResult(code, checkedAt) ==
    [status |-> "invalid", code |-> code, licenseType |-> Nil,
     expiresAt |-> Nil, graceUntil |-> Nil, checkedAt |-> checkedAt]

ValidationResult(p, now, decision) ==
    IF Usable(decision)
    THEN [status |-> decision, code |-> "ok", licenseType |-> p.licenseType,
          expiresAt |-> p.expiresAt, graceUntil |-> GraceUntil(p),
          checkedAt |-> now]
    ELSE invalidResult(decision, now)

NeverExpires(r) == r.licenseType = "lifetime" \/ r.expiresAt = Nil

GetRemainingDays(r) ==
    IF NeverExpires(r) THEN PerpetualRemainingDays
    ELSE IF r.expiresAt <= r.checkedAt THEN 0
    ELSE (r.expiresAt - r.checkedAt) \div Day
=============================================================================
