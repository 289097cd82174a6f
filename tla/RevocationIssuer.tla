-------------------------- MODULE RevocationIssuer --------------------------
(***************************************************************************)
(* internal/issuer/revoke.go and cmd/license-tool/revoke-list.go: from     *)
(* what a publisher orders to a signed document of RevocationList.tla.     *)
(*                                                                         *)
(* An order is a record of what the command line gives: v1, keyId, csv and *)
(* lines (the ids of -ids and of -ids-file, the blank ones included),      *)
(* listId, seq, expiresAt and ttl.  Nil and 0 stand for what is not given. *)
(* The result Nil stands for an error.                                     *)
(***************************************************************************)
EXTENDS RevocationList, Sequences

CONSTANTS Blank,          \* the id that is empty once trimmed
          MaxRevokedIDs,
          IdBytes,        \* IdBytes[id]: what id takes of a list's file
          MaxRevocationFileSize  \* what a file has room for

Given(ids) == SelectSeq(ids, LAMBDA id : id # Blank)

collectRevokedIDs(order) == Given(order.csv) \o Given(order.lines)

(***************************************************************************)
(* kept[n] is what the first n ids leave: the first of each.               *)
(***************************************************************************)
dedupeNonEmpty(ids) ==
    LET given == Given(ids)
        kept[n \in 0..Len(given)] ==
            IF n = 0 THEN <<>>
            ELSE IF \E m \in 1..(n - 1) : given[m] = given[n] THEN kept[n - 1]
            ELSE Append(kept[n - 1], given[n])
    IN  kept[Len(given)]

(***************************************************************************)
(* Signing and wrapping a body.  The digest of the canonical bytes is the  *)
(* body itself, the order of its ids included.  Nothing here bounds the    *)
(* number of the ids or the size of the file: the clients do both, and a   *)
(* list within the one bound may be beyond the other.  (Of the size only   *)
(* what depends on the ids is counted.)                                    *)
(***************************************************************************)
FileSize(ids) ==
    LET size[n \in 0..Len(ids)] ==
            IF n = 0 THEN 0 ELSE size[n - 1] + IdBytes[ids[n]]
    IN  size[Len(ids)]

Envelope(keyId, signed, body) ==
    [form |-> IF FileSize(body.ids) > MaxRevocationFileSize THEN "too_large"
              ELSE "ok",
     algorithm |-> TRUE, keyId |-> keyId,
     encoding |-> TRUE, signed |-> signed, canonical |-> "ok",
     schema |-> body.schema, payloadKeyId |-> body.keyId,
     withinCap |-> Len(body.ids) <= MaxRevokedIDs,
     listId |-> body.listId, seq |-> body.seq,
     issuedAt |-> body.issuedAt, expiresAt |-> body.expiresAt, digest |-> body]

BuildRevocationList(keyId, ids, clock) ==
    Envelope(keyId, "legacy",
             [schema |-> 1, listId |-> Nil, seq |-> 0, issuedAt |-> clock,
              expiresAt |-> Nil, keyId |-> keyId, ids |-> dedupeNonEmpty(ids)])

SignedV2(keyId, opts) ==
    Envelope(keyId, "domain",
             [schema |-> RevocationSchemaVersion, listId |-> opts.listId,
              seq |-> opts.seq, issuedAt |-> opts.issuedAt,
              expiresAt |-> opts.expiresAt, keyId |-> keyId,
              ids |-> dedupeNonEmpty(opts.ids)])

\* Mutation of BuildRevocationListV2: a list may expire as it is issued.
BuildUnlessBefore(keyId, opts) ==
    IF /\ opts.listId # Nil
       /\ opts.seq > 0
       /\ opts.issuedAt # Nil
       /\ opts.expiresAt >= opts.issuedAt
    THEN SignedV2(keyId, opts) ELSE Nil

BuildRevocationListV2(keyId, opts) ==
    IF /\ opts.listId # Nil
       /\ opts.seq > 0
       /\ opts.issuedAt # Nil
       /\ opts.expiresAt > opts.issuedAt
    THEN SignedV2(keyId, opts) ELSE Nil

(***************************************************************************)
(* Exactly one of -expires-at and -ttl; a ttl that is not positive counts  *)
(* as not given.                                                           *)
(***************************************************************************)
buildRevocationV2(order, ids, clock) ==
    IF \/ order.listId = Nil
       \/ order.seq = 0
       \/ (order.expiresAt # Nil) = (order.ttl > 0)
    THEN Nil
    ELSE BuildRevocationListV2(order.keyId,
            [listId |-> order.listId, seq |-> order.seq, issuedAt |-> clock,
             expiresAt |-> IF order.expiresAt # Nil THEN order.expiresAt
                           ELSE clock + order.ttl,
             ids |-> ids])

cmdRevokeList(order, clock) ==
    LET revoked == collectRevokedIDs(order)
    IN  IF revoked = <<>> THEN Nil
        ELSE IF order.v1 THEN BuildRevocationList(order.keyId, revoked, clock)
        ELSE buildRevocationV2(order, revoked, clock)
=============================================================================
