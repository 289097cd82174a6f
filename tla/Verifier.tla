------------------------------ MODULE Verifier ------------------------------
(***************************************************************************)
(* pkg/license/verifier.go: is a license document authentic?               *)
(*                                                                         *)
(* A document is a record                                                  *)
(*   form       "ok", "malformed" or "too_large", as the envelope parses   *)
(*   algorithm  whether the algorithm is supported                         *)
(*   keyId      the key_id of the envelope                                 *)
(*   encoding   whether payload and signature are base64                   *)
(*   signed     whether the signature, of proper length, is the key's over *)
(*              the license signing domain and the carried bytes           *)
(*   decodes    whether the bytes decode strictly into a payload           *)
(*   canonical  whether they are its canonical encoding                    *)
(*   payload    what they decode to                                        *)
(***************************************************************************)
EXTENDS KeyRing

ParseEnvelope(doc) ==
    FirstFailure(<<Gate(doc.form # "too_large", "file_too_large"),
                   Gate(doc.form = "ok", "malformed")>>)

(***************************************************************************)
(* The entry is a copy: what the ring does after the lookup is not seen.   *)
(***************************************************************************)
VerifyWith(entry, doc) ==
    FirstFailure(<<
        Gate(doc.encoding, "malformed"),
        Gate(doc.signed, "signature_invalid"),
        Gate(doc.decodes, "malformed"),
        Gate(doc.payload.keyId = doc.keyId, "key_id_mismatch"),
        CheckKeyPolicy(entry, doc.payload.issuedAt),
        Gate(doc.canonical, "non_canonical_payload")>>)

Verify(ring, doc) ==
    IF ~doc.algorithm THEN "unsupported_algorithm"
    ELSE IF LookupPublicKey(ring, doc.keyId) # "ok"
         THEN LookupPublicKey(ring, doc.keyId)
    ELSE VerifyWith(ring[doc.keyId], doc)
=============================================================================
