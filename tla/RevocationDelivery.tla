------------------------- MODULE RevocationDelivery -------------------------
(***************************************************************************)
(* The lists of a publisher, delivered to the clients of                   *)
(* FileRevocationStore.                                                    *)
(***************************************************************************)
EXTENDS FileRevocationStore, RevocationIssuer

CONSTANTS Orders          \* what was published, records [order, at]

ASSUME OrdersAssumption == \A o \in Orders : o.order.ttl \in Int

Minted == {cmdRevokeList(o.order, o.at) : o \in Orders} \ {Nil}

(***************************************************************************)
(* "mirroring the client's acceptance rules so an issuer cannot mint a     *)
(* list the client would reject as malformed" (revoke.go): a minted list   *)
(* under a key the client's ring has live, of a kind the policy admits and *)
(* fresh under it, reaches the replay check or needs none.  A list of      *)
(* which the policy relaxes the freshness needs not be fresh.  There are   *)
(* two bounds of the client that the issuer does not mirror, and they are  *)
(* the exceptions: a list of more than MaxRevokedIDs ids, and one whose    *)
(* file is larger than MaxRevocationFileSize, which may be one within the  *)
(* first bound, are minted and refused, as file_too_large.                 *)
(***************************************************************************)
Deliverable ==
    {l \in Loads :
        /\ l.doc \in Minted
        /\ Lookup(Ring, l.doc.keyId, l.now) = "ok"
        /\ l.doc.withinCap /\ l.doc.form # "too_large"
        /\ IF l.doc.schema = 1 THEN l.pol.allowV1
           ELSE RequireFresh(l.pol)
                   => checkRevocationFreshness(l.doc, l.now, l.pol) = "ok"}

MintedIsAdmitted ==
    [][answer' \notin {"ok", "none"}
          => \A t \in Thread, l \in Deliverable :
                ~LoadList(t, l.doc, l.now, l.pol)]_vars
=============================================================================
