------------------------------ MODULE KeyRing -------------------------------
(***************************************************************************)
(* pkg/license/keyring.go.  A ring is a function from the key_ids it holds *)
(* to entries [sized, enabled, revoked, notBefore, notAfter], where sized    *)
(* says that the public key has the length of one.  Entries are deep       *)
(* copies on the way in and on the way out, so a ring is a value here.     *)
(***************************************************************************)
EXTENDS Gates

(***************************************************************************)
(* Add inserts or replaces; an entry without a key_id, or with a public    *)
(* key of the wrong size, is an error and leaves the ring as it is.        *)
(***************************************************************************)
Add(ring, id, entry) ==
    IF id = Nil \/ ~entry.sized THEN ring
    ELSE [k \in DOMAIN ring \cup {id} |-> IF k = id THEN entry ELSE ring[k]]

\* Mutation of KillSwitches: the revoked flag is not looked at.
EnabledOnly(entry) == Gate(entry.enabled, "key_disabled")

KillSwitches(entry) ==
    FirstFailure(<<Gate(~entry.revoked, "key_revoked"),
                   Gate(entry.enabled, "key_disabled")>>)

(***************************************************************************)
(* A license may carry no issued_at (Nil): the zero time is before every   *)
(* instant.                                                                *)
(***************************************************************************)
Window(entry, at) ==
    FirstFailure(<<
        Gate(entry.notBefore # Nil => at # Nil /\ at >= entry.notBefore,
             "key_disabled"),
        Gate(entry.notAfter # Nil /\ at # Nil => at <= entry.notAfter,
             "key_disabled")>>)

(***************************************************************************)
(* Only the kill switches: the window is judged at issuance, later.        *)
(***************************************************************************)
LookupPublicKey(ring, id) ==
    IF id \in DOMAIN ring THEN KillSwitches(ring[id]) ELSE "key_unknown"

CheckKeyPolicy(entry, issuedAt) ==
    FirstFailure(<<KillSwitches(entry), Window(entry, issuedAt)>>)

(***************************************************************************)
(* The window judged now: used for revocation lists.                       *)
(***************************************************************************)
Lookup(ring, id, now) ==
    IF LookupPublicKey(ring, id) = "ok" THEN Window(ring[id], now)
                                        ELSE LookupPublicKey(ring, id)
=============================================================================
