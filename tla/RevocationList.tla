--------------------------- MODULE RevocationList ---------------------------
(***************************************************************************)
(* pkg/license/revocation.go: which revocation lists may be accepted, up   *)
(* to the anti-replay transaction with the state store.                    *)
(*                                                                         *)
(* A delivered document is a record                                        *)
(*   form      "ok", "malformed" or "too_large", as the envelope parses    *)
(*   algorithm whether the algorithm is supported                          *)
(*   keyId     the key_id of the envelope                                  *)
(*   encoding  whether payload and signature are base64                    *)
(*   signed    "domain": over the revocation signing domain; "legacy":     *)
(*             over the bare bytes; "bad": neither, or of wrong length     *)
(*   canonical "ok", "undecodable" or "non_canonical", as the body decodes *)
(*   schema, payloadKeyId, withinCap, listId, seq, issuedAt, expiresAt,    *)
(*   digest    the body; digest stands for SHA-256 of the canonical bytes  *)
(***************************************************************************)
EXTENDS KeyRing

CONSTANTS DefaultClockSkew

ASSUME SkewAssumption == DefaultClockSkew \in Nat

RevocationSchemaVersion == 2

(***************************************************************************)
(* RevocationPolicy: [skew, maxAge, store, allowV1, relaxFresh].  The      *)
(* exported RequireFresh field never decides; relaxFresh does.             *)
(***************************************************************************)
PolicySkew(pol) == IF pol.skew > 0 THEN pol.skew ELSE DefaultClockSkew

RequireFresh(pol) == ~pol.relaxFresh

ParseRevocationEnvelope(doc) ==
    FirstFailure(<<Gate(doc.form # "too_large", "file_too_large"),
                   Gate(doc.form # "malformed", "malformed")>>)

verifyRevocationSignature(doc) ==
    FirstFailure(<<
        Gate(doc.signed # "bad", "signature_invalid"),
        Gate(doc.canonical # "undecodable", "malformed"),
        Gate(doc.canonical = "ok", "non_canonical_payload"),
        Gate(doc.schema \in {1, RevocationSchemaVersion}, "unsupported_schema"),
        Gate(doc.payloadKeyId = doc.keyId, "key_id_mismatch"),
        Gate(doc.withinCap, "file_too_large")>>)

validateRevocationV2Static(doc) ==
    FirstFailure(<<
        Gate(doc.schema = RevocationSchemaVersion, "malformed"),
        Gate(doc.listId # Nil, "malformed"),
        Gate(doc.seq # 0, "malformed"),
        Gate(doc.issuedAt # Nil, "malformed"),
        Gate(doc.expiresAt # Nil, "malformed"),
        Gate(doc.issuedAt # Nil /\ doc.expiresAt # Nil
                => doc.expiresAt > doc.issuedAt, "malformed")>>)

(***************************************************************************)
(* Runs after the static checks, so the times are there to compare.        *)
(***************************************************************************)
checkRevocationFreshness(doc, now, pol) ==
    FirstFailure(<<
        Gate(doc.issuedAt <= now + PolicySkew(pol), "revocation_from_future"),
        Gate(now <= doc.expiresAt + PolicySkew(pol), "revocation_expired"),
        Gate(pol.maxAge > 0 => doc.issuedAt >= now - pol.maxAge,
             "revocation_expired")>>)

Authenticate(ring, doc, now) ==
    FirstFailure(<<
        ParseRevocationEnvelope(doc),
        Gate(doc.algorithm, "unsupported_algorithm"),
        Lookup(ring, doc.keyId, now),
        Gate(doc.encoding, "malformed"),
        verifyRevocationSignature(doc)>>)

AdmitV1(pol) == Gate(pol.allowV1, "unsupported_schema")

\* Mutation of AdmitV2: the signing domain is not required.
AdmitAnyDomain(doc, now, pol) ==
    IF validateRevocationV2Static(doc) = "ok" /\ RequireFresh(pol)
    THEN checkRevocationFreshness(doc, now, pol)
    ELSE validateRevocationV2Static(doc)

AdmitV2(doc, now, pol) ==
    LET shape == FirstFailure(<<
                    Gate(doc.signed = "domain", "signature_invalid"),
                    validateRevocationV2Static(doc)>>)
    IN  IF shape = "ok" /\ RequireFresh(pol)
        THEN checkRevocationFreshness(doc, now, pol)
        ELSE shape

(***************************************************************************)
(* LoadRevocationListWithPolicy, before the replay check.                  *)
(***************************************************************************)
Admit(ring, doc, now, pol) ==
    LET authentic == Authenticate(ring, doc, now)
    IN  IF authentic # "ok" THEN authentic
        ELSE IF doc.schema = 1 THEN AdmitV1(pol)
        ELSE AdmitV2(doc, now, pol)

(***************************************************************************)
(* A v1 list has no sequence; without a store nothing is remembered.       *)
(***************************************************************************)
ReplayChecked(doc, pol) == doc.schema # 1 /\ pol.store

-----------------------------------------------------------------------------
\* Mutation of StateOf: the sequence of the next list.
StateAfter(doc) == [seq |-> doc.seq + 1, digest |-> doc.digest]

(***************************************************************************)
(* The anti-replay record of a list, and how a candidate compares with it. *)
(* (issued_at is stored with them and never compared.)                     *)
(***************************************************************************)
StateOf(doc) == [seq |-> doc.seq, digest |-> doc.digest]

\* Mutation of classifyRevocationTransition: an equal sequence counts as an advance.
classifyAdvanceOrEqual(prev, nxt) ==
    IF prev = Nil \/ nxt.seq >= prev.seq THEN "write" ELSE "revocation_stale"

classifyRevocationTransition(prev, nxt) ==
    IF prev = Nil \/ nxt.seq > prev.seq THEN "write"
    ELSE IF nxt.seq < prev.seq THEN "revocation_stale"
    ELSE IF nxt.digest # prev.digest THEN "revocation_rollback"
    ELSE "idempotent"

(***************************************************************************)
(* Record m is a, or of a later sequence; there may be no a.               *)
(***************************************************************************)
Covers(m, a) ==
    a = Nil \/ (m # Nil /\ (m.seq > a.seq \/ m = a))
=============================================================================
