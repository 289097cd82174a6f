------------------------------- MODULE Issuer -------------------------------
(***************************************************************************)
(* internal/issuer/issue.go and signer.go, and the request that            *)
(* `license-tool issue' makes of its configuration: from what is asked for *)
(* to a signed license document of Verifier.tla.                           *)
(*                                                                         *)
(* A request has the fields of a payload of Validator.tla except the       *)
(* schema and the key id, which the issuer sets; its licenseId, issuedAt   *)
(* and mode may be Nil.  A configuration has no issuedAt.                  *)
(***************************************************************************)
EXTENDS Verifier, Validator, TLC

ModeOrNone(mode) == IF mode = Nil THEN "none" ELSE mode

toRequest(config) ==
    [config EXCEPT !.mode = ModeOrNone(@)] @@ [issuedAt |-> Nil]

(***************************************************************************)
(* clock is time.Now() and freshId a random license id.                    *)
(***************************************************************************)
BuildPayload(req, clock, freshId) ==
    [req EXCEPT !.licenseId = IF @ = Nil THEN freshId ELSE @,
                !.issuedAt = IF @ = Nil THEN clock ELSE @,
                !.mode = ModeOrNone(@)]
    @@ [schema |-> SchemaVersion, keyId |-> Nil]

(***************************************************************************)
(* The signature is over the license signing domain and the canonical      *)
(* bytes of the payload.  Nothing here bounds the size of the envelope.    *)
(***************************************************************************)
NewEnvelope(keyId, p) ==
    [form |-> IF p.compact THEN "ok" ELSE "too_large",
     algorithm |-> TRUE, keyId |-> keyId, encoding |-> TRUE, signed |-> TRUE,
     decodes |-> TRUE, canonical |-> TRUE, payload |-> p]

Stamped(keyId, p) == [p EXCEPT !.keyId = keyId]

\* Mutation of SignPayload: whatever is asked for is signed.
SignUnchecked(keyId, p) == NewEnvelope(keyId, Stamped(keyId, p))

(***************************************************************************)
(* Nil stands for an error.                                                *)
(***************************************************************************)
SignPayload(keyId, p) ==
    IF validateStatic(Stamped(keyId, p)) = "ok"
    THEN NewEnvelope(keyId, Stamped(keyId, p)) ELSE Nil

(***************************************************************************)
(* Issue stamps and validates before it calls SignPayload, which does both *)
(* again; once is enough here.                                             *)
(***************************************************************************)
Issue(keyId, req, clock, freshId) ==
    SignPayload(keyId, BuildPayload(req, clock, freshId))

(***************************************************************************)
(* What other issuers may sign: "bytes that are not necessarily" what      *)
(* SignPayload would let pass.                                             *)
(***************************************************************************)
SignLicenseBytes(keyId, p) == NewEnvelope(keyId, Stamped(keyId, p))
=============================================================================
