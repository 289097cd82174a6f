----------------------- MODULE MCFileRevocationStore ------------------------
(***************************************************************************)
(* Two goroutines with differently spelled paths, two lists, and documents *)
(* that are genuine, replayed, re-used, forged, legacy or ill-formed.      *)
(***************************************************************************)
EXTENDS RevocationDelivery, TLC

CONSTANTS t1, t2, A, B,
          Other   \* the digest of what nobody published

MCThread == {t1, t2}
MCPath == {"rev.json", "./rev.json"}
MCStorePath == (t1 :> "rev.json") @@ (t2 :> "./rev.json")
MCCleanAbs == [p \in MCPath |-> "/var/lib/app/rev.json"]

(* No step and no state invariant reads the answer of the last step. *)
ButAnswer == <<file, onDisk, mu, pc, op, list, nxt, entries, told, accepted>>

MCRing ==
    [k1 |-> [sized |-> TRUE, enabled |-> TRUE, revoked |-> FALSE, notBefore |-> Nil, notAfter |-> 3],
     k2 |-> [sized |-> TRUE, enabled |-> TRUE, revoked |-> TRUE, notBefore |-> Nil, notAfter |-> Nil]]

(***************************************************************************)
(* What was published: the second list of A twice under one sequence, one  *)
(* list of B, a v1 list, one of more ids than clients take, one in a file  *)
(* larger than they take, one with a ttl that counts as not given, and     *)
(* what the tool refuses, a list that expires as it is issued among it.    *)
(***************************************************************************)
order1 == [v1 |-> FALSE, keyId |-> "k1", csv |-> <<"L1", Blank, "L1">>,
           lines |-> <<>>, listId |-> A, seq |-> 1, expiresAt |-> 2, ttl |-> 0]
order2 == [order1 EXCEPT !.seq = 2, !.lines = <<"L2">>]
order2x == [order2 EXCEPT !.csv = <<>>, !.expiresAt = Nil, !.ttl = 1]
orderB == [order1 EXCEPT !.listId = B]
orderV1 == [order2 EXCEPT !.v1 = TRUE]
orderLong == [order2 EXCEPT !.csv = <<"L1", "L2", "L3">>]
orderLarge == [order2 EXCEPT !.csv = <<"L1">>, !.lines = <<"L4">>]
orderSpent == [order1 EXCEPT !.ttl = -1]
orderBorn == [order1 EXCEPT !.expiresAt = 1]
orderBoth == [order1 EXCEPT !.ttl = 1]
orderNone == [order1 EXCEPT !.csv = <<Blank>>]

MCOrders ==
    [order : {order1, order2, order2x, orderB, orderV1, orderLong, orderLarge,
              orderSpent, orderBorn, orderBoth, orderNone},
     at : {1}]

a1 == cmdRevokeList(order1, 1)
a2 == cmdRevokeList(order2, 1)
a2x == cmdRevokeList(order2x, 1)
b1 == cmdRevokeList(orderB, 1)
legacyV1 == cmdRevokeList(orderV1, 1)

forged == [a2 EXCEPT !.signed = "bad", !.digest = Other]
legacySigned == [a2 EXCEPT !.signed = "legacy", !.digest = Other]
illFormed == [a2 EXCEPT !.expiresAt = 1, !.digest = Other]
revokedKey == [a2 EXCEPT !.keyId = "k2", !.payloadKeyId = "k2", !.digest = Other]

strict == [skew |-> 1, maxAge |-> 0, store |-> TRUE, allowV1 |-> FALSE, relaxFresh |-> FALSE]
relaxed == [strict EXCEPT !.relaxFresh = TRUE, !.allowV1 = TRUE]
aged == [strict EXCEPT !.maxAge = 1, !.skew = 0]
storeless == [strict EXCEPT !.store = FALSE]

Load(doc, now, pol) == [doc |-> doc, now |-> now, pol |-> pol]

MCLoads ==
    {Load(doc, 2, strict) :
        doc \in Minted \cup {forged}}
    \cup {Load(doc, 2, relaxed) :
             doc \in {a1, legacySigned, legacyV1, illFormed, revokedKey}}
    \cup {Load(a1, 3, aged), Load(a1, 4, strict), Load(a1, 2, storeless)}

MCIdBytes == [L1 |-> 1, L2 |-> 1, L3 |-> 1, L4 |-> 3]

MCDigest == {doc.digest : doc \in Docs}

MCSaves == {[id |-> A, st |-> StateOf(a1)]}
=============================================================================
